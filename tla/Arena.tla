------------------------------- MODULE Arena -------------------------------
(***************************************************************************)
(* One room in play: battle.lua's Enter and Update, battleuser.lua and the *)
(* life of a ball in ball.lua, over the vision of vision.lua.  Balls are   *)
(* made, split, are eaten and move from block to block; which ball reaches *)
(* and beats which is left open.  Lua runs a message handler or a tick to  *)
(* its end: pc says where in one it is, and "messages" is between them.    *)
(***************************************************************************)
EXTENDS Vision

CONSTANTS
  Robot, Dummy,  \* the robots of the room, and the owner of thorns and spores
  MaxBalls,      \* maxUserBallCount
  MaxThornBalls, \* maxThornBallCount
  ThornCount,    \* the thorns of a room
  Areas, Ports,  \* the rectangles that balls and view ports cover
  ReEnter        \* TRUE: a user may come back to its room

Player == User \cup Robot
ASSUME ArenaAssumption ==
  /\ MaxBalls \in Nat \ {0} /\ MaxThornBalls \in Nat /\ ThornCount \in Nat /\ ReEnter \in BOOLEAN
  /\ Areas \subseteq (SUBSET Block) \ {{}} /\ Ports \subseteq SUBSET Block
  /\ \A port \in Ports : Cardinality(port) > 1  \* 550 units and more each way
  /\ Dummy \notin Player /\ None \notin Player \cup {Dummy}
  /\ User \cap Robot = {}

VARIABLES
  owner,     \* whose ball it is, None for an object that is no ball now
  thorns, needThorn,
  moving,    \* the balls of players with a moveVelocity
  stop,      \* the players that have stopped, those without a reqDirection
  entered,   \* the users in battle.users
  ticking,   \* the timer of the room is alive
  sync,      \* the update count is even
  pc, who, ball,
  todo,      \* the balls that a loop has still to come to
  waiting,   \* the players that a loop has still to come to
  left,      \* the balls that a thorn has still to make of ball
  prey       \* the thorn that ball eats

flags == <<thorns, needThorn, moving, stop>>
game == <<owner, flags>>
room == <<entered, ticking, sync>>
run == <<pc, who, ball, todo, waiting, left, prey>>
arenaVars == <<visionVars, game, room, run>>

Balls(w) == {o \in Ball : owner[o] = w}
ballCount(w) == Cardinality(Balls(w))

(* An object that nothing reaches any more. *)
Fresh(o) ==
  /\ owner[o] = None
  /\ \A u \in User : viewObjs[u][o] = None /\ o \notin beginsee[u] \cup client[u]

Goto(label) == pc' = label
Idle == /\ Goto("messages") /\ who' = None /\ ball' = None
        /\ todo' = {} /\ waiting' = {} /\ left' = 0 /\ prey' = None

-----------------------------------------------------------------------------
(* The life of a ball. *)

New(o, w, kind) ==
  /\ Fresh(o)
  /\ owner' = [owner EXCEPT ![o] = w]
  /\ thorns' = IF kind = "thorn" THEN thorns \cup {o} ELSE thorns

Relive(w, o) ==
  /\ New(o, w, "ball")
  /\ \E area \in Areas : Enter(o, area)

(* spit reads the moveVelocity of the spitter without a test: when it has  *)
(* none, the new ball belongs to its owner and collides, but is not seen.  *)
Spits(b) == stop[owner[b]] \/ b \in moving
spit(b, o, w) ==
  /\ New(o, w, IF w = Dummy THEN "spore" ELSE "ball")
  /\ moving' = IF w # Dummy /\ ~stop[w] THEN moving \cup {o} ELSE moving
  /\ IF Spits(b) THEN \E area \in Areas : Enter(o, area) ELSE UNCHANGED visionVars
  /\ UNCHANGED <<needThorn, stop>>

OnDead(o) ==
  /\ Leave(o)
  /\ owner' = [owner EXCEPT ![o] = None]
  /\ thorns' = thorns \ {o}
  /\ moving' = moving \ {o}

UpdateBallMovement(w) ==
  moving' = IF stop[w] THEN moving ELSE moving \cup Balls(w)

-----------------------------------------------------------------------------
(* Messages. *)

EnterRoom(u) ==
  /\ pc = "messages" /\ u \notin player /\ (ReEnter \/ u \notin entered)
  /\ EnterVision(u)
  /\ entered' = entered \cup {u}
  /\ IF ballCount(u) = 0 THEN Goto("entering") /\ who' = u ELSE UNCHANGED <<pc, who>>
  /\ UNCHANGED <<game, ticking, sync, ball, todo, waiting, left, prey>>

EnterRelives(o) ==
  /\ pc = "entering" /\ Relive(who, o) /\ Idle
  /\ UNCHANGED <<needThorn, moving, stop, room>>

Disconnect(u) ==
  /\ pc = "messages" /\ u \in player /\ PlayerLost(u)
  /\ UNCHANGED <<game, room, run>>

(* A direction is set at once for a single ball, and by the next tick or   *)
(* split for more of them.                                                 *)
Direct(w) ==
  /\ stop' = [stop EXCEPT ![w] = FALSE]
  /\ moving' = IF ballCount(w) = 1 THEN moving \cup Balls(w) ELSE moving

Move(u) ==
  /\ pc = "messages" /\ u \in player /\ Direct(u)
  /\ UNCHANGED <<visionVars, owner, thorns, needThorn, room, run>>

Stop(u) ==
  /\ pc = "messages" /\ u \in player
  /\ stop' = [stop EXCEPT ![u] = TRUE]
  /\ UNCHANGED <<visionVars, owner, thorns, needThorn, moving, room, run>>

(* Spit and Split go through the balls that the user has. *)
Request(u) ==
  /\ pc = "messages" /\ u \in player
  /\ pc' \in {"spit", "split"} /\ who' = u /\ todo' = Balls(u)
  /\ UNCHANGED <<visionVars, game, room, ball, waiting, left, prey>>

(* An error ends the handler, which user.lua has called protected. *)
SpitOrSplit(b, o) ==
  /\ pc \in {"spit", "split"} /\ b \in todo
  /\ pc = "split" => ballCount(who) < MaxBalls
  /\ spit(b, o, IF pc = "split" THEN who ELSE Dummy)
  /\ IF Spits(b) THEN todo' = todo \ {b} /\ UNCHANGED <<pc, who, ball, waiting, left, prey>>
                 ELSE Idle
  /\ UNCHANGED room

(* The other balls are too small, or there are too many. *)
Requested ==
  /\ pc \in {"spit", "split"} /\ Idle
  /\ IF pc = "split" THEN UpdateBallMovement(who) ELSE UNCHANGED moving
  /\ UNCHANGED <<visionVars, owner, thorns, needThorn, stop, room>>

-----------------------------------------------------------------------------
(* The tick.  Thorns and spores come first. *)

GameTick ==
  /\ pc = "messages" /\ ticking
  /\ sync' = ~sync
  /\ Goto("follow") /\ who' = Dummy
  /\ UNCHANGED <<visionVars, game, entered, ticking, ball, todo, waiting, left, prey>>

(* An error in a tick ends the timer. *)
TickFails ==
  /\ ticking' = FALSE /\ Idle
  /\ UNCHANGED <<entered, sync>>

(* UpdateVisionObj reads the blocks of a ball without a test; the balls    *)
(* that the loop had come to before have moved.                            *)
Follow ==
  /\ pc = "follow"
  /\ \E done \in SUBSET {o \in Balls(who) : visionblocks[o] # {}} :
       /\ \E new \in [done -> Areas] :
            /\ \A o \in done \cap thorns : new[o] = visionblocks[o]
            /\ UpdateVisionObj([o \in Ball |-> IF o \in done THEN new[o] ELSE visionblocks[o]])
       /\ IF done = Balls(who)
          THEN /\ Goto(IF who = Dummy THEN "robots" ELSE "users") /\ who' = None
               /\ UNCHANGED <<room, ball, todo, waiting, left, prey>>
          ELSE (\E o \in Balls(who) : visionblocks[o] = {}) /\ TickFails
  /\ UNCHANGED game

(* On the first tick all robots start to move, and later they change only  *)
(* their directions.                                                       *)
RobotsMove ==
  /\ pc = "robots" /\ Goto("users")
  /\ waiting' = entered \cup Robot
  /\ stop' = [w \in Player |-> stop[w] /\ w \notin Robot]
  /\ moving' = moving \cup UNION {Balls(w) : w \in {v \in Robot : ballCount(v) = 1}}
  /\ UNCHANGED <<visionVars, owner, thorns, needThorn, room, who, ball, todo, left, prey>>

(* A player that has lost its balls is born again; then its balls are      *)
(* given velocities, if it moves or they gather.                           *)
UpdatePlayer(w) ==
  /\ pc = "users" /\ w \in waiting
  /\ waiting' = waiting \ {w} /\ who' = w /\ Goto("balls")
  /\ IF ballCount(w) = 0
     THEN \E o \in Ball : /\ Relive(w, o)
                          /\ todo' = {o}
                          /\ moving' = IF stop[w] THEN moving ELSE moving \cup {o}
     ELSE /\ todo' = Balls(w)
          /\ moving' = IF ~stop[w] \/ ballCount(w) > 1 THEN moving \cup Balls(w) ELSE moving
          /\ UNCHANGED <<visionVars, owner, thorns>>
  /\ UNCHANGED <<needThorn, stop, room, ball, left, prey>>

(* A ball that has come to rest returns before it looks at the thorn;      *)
(* balls that gather have a speed.                                         *)
Rests(b) ==
  /\ pc = "balls" /\ b \in todo
  /\ (stop[who] /\ ballCount(who) = 1) \/ b \notin moving
  /\ ball' = b /\ todo' = todo \ {b} /\ Goto("collide")
  /\ moving' = moving \ {b}
  /\ UNCHANGED <<visionVars, owner, thorns, needThorn, stop, room, who, waiting, left, prey>>

(* A thorn that has been eaten makes at most as many balls as there is     *)
(* room for.                                                               *)
Pieces(w) ==
  LET n == MaxBalls - ballCount(w)
  IN (IF n < MaxThornBalls THEN n ELSE MaxThornBalls) - 1
Travels(b) ==
  /\ pc = "balls" /\ b \in todo
  /\ ball' = b /\ todo' = todo \ {b}
  /\ left' \in IF b \in needThorn THEN {0} \cup 1 .. Pieces(who) ELSE {0}
  /\ Goto(IF left' > 0 THEN "thorn" ELSE "collide")
  /\ needThorn' = needThorn \ {b}
  /\ UNCHANGED <<visionVars, owner, thorns, moving, stop, room, who, waiting, prey>>

(* A ball that is added to the table that the loop of Update goes through  *)
(* makes the rest of the loop unpredictable.                               *)
ProcessThorn(o) ==
  /\ pc = "thorn" /\ spit(ball, o, who)
  /\ IF Spits(ball)
     THEN /\ todo' \in SUBSET (Balls(who) \cup {o})
          /\ left' = left - 1 /\ Goto(IF left = 1 THEN "collide" ELSE "thorn")
          /\ UNCHANGED <<who, ball, waiting, prey, room>>
     ELSE TickFails

(* A thorn that dies is replaced first. *)
ReplaceThorn(o, t) ==
  /\ pc = "collide" /\ o \in thorns
  /\ New(t, Dummy, "thorn") /\ \E area \in Areas : Enter(t, area)
  /\ Goto("eat thorn") /\ prey' = o
  /\ UNCHANGED <<needThorn, moving, stop, room, who, ball, todo, waiting, left>>

EatThorn ==
  /\ pc = "eat thorn" /\ OnDead(prey)
  /\ needThorn' = IF ballCount(who) < MaxBalls THEN needThorn \cup {ball} ELSE needThorn
  /\ Goto("collide") /\ prey' = None
  /\ UNCHANGED <<stop, room, who, ball, todo, waiting, left>>

(* Another ball, of its owner or not, or a spore. *)
Eat(o) ==
  /\ pc = "collide" /\ owner[o] # None /\ o # ball /\ o \notin thorns
  /\ OnDead(o)
  /\ needThorn' = needThorn \ {o} /\ todo' = todo \ {o}
  /\ UNCHANGED <<stop, room, pc, who, ball, waiting, left, prey>>

Collided ==
  /\ pc = "collide" /\ Goto("balls") /\ ball' = None
  /\ UNCHANGED <<visionVars, game, room, who, todo, waiting, left, prey>>

(* The view port is moved before the balls are. *)
Look ==
  /\ pc = "balls" /\ todo = {}
  /\ IF who \in player THEN \E port \in Ports : UpdateUserVision(who, port)
                       ELSE UNCHANGED visionVars
  /\ Goto("follow")
  /\ UNCHANGED <<game, room, who, ball, todo, waiting, left, prey>>

(* Clients are told on every second tick. *)
Updated ==
  /\ pc = "users" /\ waiting = {}
  /\ IF sync THEN Goto("notify") /\ waiting' = entered /\ UNCHANGED <<who, ball, todo, left, prey>>
             ELSE Idle
  /\ UNCHANGED <<visionVars, game, room>>

Notify(u) ==
  /\ pc = "notify" /\ u \in waiting /\ waiting' = waiting \ {u}
  /\ IF u \in player THEN NotifyBalls2Client(u) ELSE UNCHANGED visionVars
  /\ UNCHANGED <<game, room, pc, who, ball, todo, left, prey>>

Notified ==
  /\ pc = "notify" /\ waiting = {} /\ Idle
  /\ UNCHANGED <<visionVars, game, room>>

-----------------------------------------------------------------------------
(* A new room has its robots and thorns, which enter before anyone sees.   *)
ArenaInit ==
  /\ owner \in [Ball -> Robot \cup {Dummy, None}]
  /\ \A w \in Robot : ballCount(w) = 1
  /\ ballCount(Dummy) = ThornCount /\ thorns = Balls(Dummy)
  /\ visionblocks \in [Ball -> Areas \cup {{}}]
  /\ \A o \in Ball : owner[o] = None <=> visionblocks[o] = {}
  /\ objs = [b \in Block |-> {o \in Ball : b \in visionblocks[o]}]
  /\ observers = [b \in Block |-> {}]
  /\ viewPort = [u \in User |-> {}] /\ player = {}
  /\ viewObjs = [u \in User |-> NothingSeen]
  /\ beginsee = [u \in User |-> {}] /\ client = [u \in User |-> {}]
  /\ needThorn = {} /\ moving = {} /\ stop = [w \in Player |-> TRUE]
  /\ entered = {} /\ ticking = TRUE /\ sync = FALSE
  /\ pc = "messages" /\ who = None /\ ball = None
  /\ todo = {} /\ waiting = {} /\ left = 0 /\ prey = None

ArenaNext ==
  \/ \E u \in User : EnterRoom(u) \/ Disconnect(u) \/ Move(u) \/ Stop(u) \/ Request(u)
  \/ \E o \in Ball : EnterRelives(o)
  \/ \E b \in Ball, o \in Ball : SpitOrSplit(b, o)
  \/ Requested
  \/ GameTick
  \/ Follow
  \/ RobotsMove
  \/ \E w \in Player : UpdatePlayer(w)
  \/ \E b \in Ball : Rests(b) \/ Travels(b)
  \/ \E o \in Ball : ProcessThorn(o)
  \/ \E o \in Ball, t \in Ball : ReplaceThorn(o, t)
  \/ EatThorn
  \/ \E o \in Ball : Eat(o)
  \/ Collided \/ Look \/ Updated
  \/ \E u \in User : Notify(u)
  \/ Notified

ArenaSpec == ArenaInit /\ [][ArenaNext]_arenaVars

-----------------------------------------------------------------------------
ArenaTypeOK ==
  /\ VisionTypeOK
  /\ owner \in [Ball -> Player \cup {Dummy, None}]
  /\ thorns \subseteq Balls(Dummy) /\ needThorn \cup moving \subseteq {o \in Ball : owner[o] \in Player}
  /\ stop \in [Player -> BOOLEAN] /\ player \subseteq entered /\ entered \subseteq User
  /\ ticking \in BOOLEAN /\ sync \in BOOLEAN
  /\ who \in Player \cup {Dummy, None} /\ ball \in Ball \cup {None}
  /\ todo \subseteq Balls(who) /\ waiting \subseteq Player
  /\ left \in 0 .. MaxThornBalls /\ prey \in thorns \cup {None}

(* What is in sight somewhere is the ball of somebody: no eaten ball is    *)
(* left in a block.                                                        *)
SeenIsOwned == \A o \in Ball : visionblocks[o] # {} => owner[o] # None

(* Splits and thorns, mixed in any way, make no more balls than allowed.   *)
BallsBounded == \A w \in Player : ballCount(w) <= MaxBalls

(* The room is consistent at every step of a handler or a tick.            *)
ArenaSafe ==
  ArenaTypeOK /\ BlocksAgree /\ RefsCounted /\ ClientKnows /\ SeenIsOwned /\ BallsBounded

(* "synchronise the enter and leave messages of the balls in sight"        *)
(* (battleuser.lua:130): a client that has just been told shows exactly    *)
(* the balls that are within the view port of its user.                    *)
ClientSees ==
  pc = "notify" => \A u \in player \ waiting : client[u] = Visible(u)
=============================================================================
