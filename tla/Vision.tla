------------------------------- MODULE Vision -------------------------------
(***************************************************************************)
(* vision.lua: the map is cut into blocks.  A block knows the balls that   *)
(* touch it and the users whose view port covers it; a user counts, for    *)
(* each ball, in how many of its blocks the ball is, and its client is     *)
(* told of the balls that come into sight and go out of it.  An area, a    *)
(* rectangle of blocks in the code, is the set of its blocks here.         *)
(***************************************************************************)
EXTENDS Integers, FiniteSets

CONSTANTS
  Block, Ball,
  User,  \* the real users: robots never observe
  None


VARIABLES
  objs, observers, \* of each block
  visionblocks,    \* of each ball, {} while it is not in the vision
  viewPort,        \* of each user, {} before its first update
  player,          \* the users whose player is set
  viewObjs,        \* of each user, for each ball: None, or ref and enterSee
  beginsee,        \* of each user: balls to tell it of
  client           \* the balls its client shows (battle.js)

seen == <<viewObjs, beginsee>>
visionVars == <<objs, observers, visionblocks, viewPort, player, seen, client>>

Entry == [ref : Int, enterSee : BOOLEAN]
ASSUME VisionAssumption == IsFiniteSet(Block) /\ IsFiniteSet(Ball) /\ None \notin Entry
NothingSeen == [o \in Ball |-> None]

-----------------------------------------------------------------------------
(* What an entry of viewObjs becomes when a block that the user observes   *)
(* and the ball touches goes, or n such blocks go or come.                 *)
BugKeepRef(entry, n) == entry
Remove(entry, n) == IF entry = None THEN None ELSE [entry EXCEPT !.ref = @ - n]
Add(entry, n) ==
  IF n = 0 THEN entry
  ELSE IF entry = None THEN [ref |-> n, enterSee |-> TRUE]
  ELSE [entry EXCEPT !.ref = @ + n]

Observed(u, blocks) == Cardinality({b \in blocks : u \in observers[b]})
Holding(o, blocks) == Cardinality({b \in blocks : o \in objs[b]})

(* Each ball leaves some blocks and then comes into others; the observers  *)
(* of them count, if their player is there.                                *)
Counts(gone, come) ==
  /\ objs' = [b \in Block |->
       {o \in Ball : b \in come[o] \/ (o \in objs[b] /\ b \notin gone[o])}]
  /\ viewObjs' = [u \in User |-> [o \in Ball |->
       IF u \notin player THEN viewObjs[u][o]
       ELSE Add(Remove(viewObjs[u][o], Observed(u, gone[o])), Observed(u, come[o]))]]
  /\ beginsee' = [u \in User |-> beginsee[u] \cup
       {o \in Ball : u \in player /\ viewObjs[u][o] = None /\ Observed(u, come[o]) > 0}]
  /\ UNCHANGED <<observers, viewPort, player, client>>

Nowhere == [o \in Ball |-> {}]
At(o, area) == [Nowhere EXCEPT ![o] = area]

Enter(o, area) ==
  /\ visionblocks' = [visionblocks EXCEPT ![o] = area]
  /\ Counts(Nowhere, At(o, area))

Leave(o) ==
  /\ visionblocks' = [visionblocks EXCEPT ![o] = {}]
  /\ Counts(At(o, visionblocks[o]), Nowhere)

(* UpdateVisionObj for every ball of a player, in a loop. *)
UpdateVisionObj(areas) ==
  /\ visionblocks' = areas
  /\ Counts([o \in Ball |-> visionblocks[o] \ areas[o]],
            [o \in Ball |-> areas[o] \ visionblocks[o]])

(* The view port of a user changes.  in_range is called with its corners   *)
(* swapped (line 347), so a user leaves all the blocks that it observed,   *)
(* those it goes on seeing included, and comes into all the blocks of the  *)
(* new view port.                                                          *)
Unwatched(u, port) == IF port = viewPort[u] THEN {} ELSE viewPort[u]
Watched(u, port) == IF port = viewPort[u] THEN {} ELSE port
UpdateUserVision(u, port) ==
  LET gone == Unwatched(u, port)
      come == Watched(u, port)
      known == {b \in gone : u \in observers[b]}
  IN /\ viewPort' = [viewPort EXCEPT ![u] = port]
     /\ observers' = [b \in Block |-> IF b \in come THEN observers[b] \cup {u}
                                      ELSE IF b \in gone THEN observers[b] \ {u}
                                      ELSE observers[b]]
     /\ viewObjs' = [viewObjs EXCEPT ![u] =
          [o \in Ball |-> Add(Remove(viewObjs[u][o], Holding(o, known)), Holding(o, come))]]
     /\ beginsee' = [beginsee EXCEPT ![u] =
          beginsee[u] \cup {o \in Ball : viewObjs[u][o] = None /\ Holding(o, come) > 0}]
     /\ UNCHANGED <<objs, visionblocks, player, client>>

(* The client is told: first of the balls that came into sight, then of    *)
(* those that went out of it.                                              *)
BugOutOfSight(u) == {o \in Ball : viewObjs[u][o] # None /\ viewObjs[u][o].ref < 0}
OutOfSight(u) == {o \in Ball : viewObjs[u][o] # None /\ viewObjs[u][o].ref <= 0}
NotifyBalls2Client(u) ==
  /\ viewObjs' = [viewObjs EXCEPT ![u] =
       [o \in Ball |-> IF viewObjs[u][o] = None \/ o \in OutOfSight(u) THEN None
                       ELSE [viewObjs[u][o] EXCEPT !.enterSee = FALSE]]]
  /\ beginsee' = [beginsee EXCEPT ![u] = {}]
  /\ client' = [client EXCEPT ![u] = (client[u] \cup beginsee[u]) \ OutOfSight(u)]
  /\ UNCHANGED <<objs, observers, visionblocks, viewPort, player>>

-----------------------------------------------------------------------------
(* The player enters the room, perhaps again, with a client that shows     *)
(* nothing yet: what the user saw before is forgotten, but blocks go on    *)
(* knowing it as an observer.                                              *)
EnterVision(u) ==
  /\ player' = player \cup {u}
  /\ viewPort' = [viewPort EXCEPT ![u] = {}]
  /\ viewObjs' = [viewObjs EXCEPT ![u] = NothingSeen]
  /\ beginsee' = [beginsee EXCEPT ![u] = {}]
  /\ client' = [client EXCEPT ![u] = {}]
  /\ UNCHANGED <<objs, observers, visionblocks>>

(* Nobody reads what an absent player has seen until EnterVision.          *)
PlayerLost(u) ==
  /\ player' = player \ {u}
  /\ viewObjs' = [viewObjs EXCEPT ![u] = NothingSeen]
  /\ beginsee' = [beginsee EXCEPT ![u] = {}]
  /\ client' = [client EXCEPT ![u] = {}]
  /\ UNCHANGED <<objs, observers, visionblocks, viewPort>>

-----------------------------------------------------------------------------
VisionTypeOK ==
  /\ objs \in [Block -> SUBSET Ball] /\ observers \in [Block -> SUBSET User]
  /\ visionblocks \in [Ball -> SUBSET Block] /\ viewPort \in [User -> SUBSET Block]
  /\ player \subseteq User /\ viewObjs \in [User -> [Ball -> Entry \cup {None}]]
  /\ beginsee \in [User -> SUBSET Ball] /\ client \in [User -> SUBSET Ball]

(* A block lists the balls whose area it is in, and the users whose view   *)
(* port it is in.                                                          *)
BlocksAgree ==
  \A b \in Block : /\ objs[b] = {o \in Ball : b \in visionblocks[o]}
                   /\ observers[b] = {u \in User : b \in viewPort[u]}

(* A user counts for each ball the blocks that are in both, whoever of the *)
(* two has moved.                                                          *)
Common(u, o) == viewPort[u] \cap visionblocks[o]
RefsCounted ==
  \A u \in player, o \in Ball :
    IF viewObjs[u][o] = None THEN Common(u, o) = {}
    ELSE viewObjs[u][o].ref = Cardinality(Common(u, o))

(* A client shows the balls that its user knows, except for those that it  *)
(* will hear of next: no update names a ball that it does not show, and    *)
(* none is forgotten without an EndSee.                                    *)
ClientKnows ==
  \A u \in player :
    /\ client[u] = {o \in Ball : viewObjs[u][o] # None /\ ~viewObjs[u][o].enterSee}
    /\ beginsee[u] = {o \in Ball : viewObjs[u][o] # None /\ viewObjs[u][o].enterSee}

Visible(u) == {o \in Ball : Common(u, o) # {}}
=============================================================================
