------------------------------ MODULE QuadTree ------------------------------
(***************************************************************************)
(* The collision index of a room: collisionQuadTree.lua over QuadTree.lua. *)
(* Balls, stars, spores and thorns enter it with a rectangle, move, and    *)
(* leave it when they are eaten, which happens inside the iteration        *)
(* (rectCall) that found them.  A node splits when its counter passes      *)
(* MaxObjs.  A Lua error in the middle of a tick ends the room's timer.    *)
(***************************************************************************)
EXTENDS Integers, FiniteSets

CONSTANTS
  Ball, Thorn, Food,   \* the objects; Food stands for stars and spores
  MaxLevel, MaxObjs,   \* QuadTree.lua:4-5
  Side,                \* Side[l] is the width of the nodes of level l
  Place,               \* where objects are, each [x, y, r]
  None

Obj == Ball \cup Thorn \cup Food
MapWidth == Side[1]

(* 4000 halves to 250 without a remainder, so the nodes are squares. *)
ASSUME TreeAssumption ==
  /\ MaxLevel \in Nat \ {0} /\ MaxObjs \in Nat
  /\ Side \in [1 .. MaxLevel -> Nat \ {0}]
  /\ \A l \in 1 .. MaxLevel - 1 : Side[l] = 2 * Side[l + 1]
ASSUME PlaceAssumption ==
  Place \subseteq [x : 0 .. MapWidth, y : 0 .. MapWidth, r : Nat \ {0}]
ASSUME ObjAssumption ==
  /\ IsFiniteSet(Obj)
  /\ Ball \cap Thorn = {} /\ Ball \cap Food = {} /\ Thorn \cap Food = {}

VARIABLES
  entered,   \* entered[o]: o.colMgr is set
  rect,      \* rect[o]: o.rect, NoRect for an object outside the index
  quad,      \* the tree: objs and count of every node, tree[o] is o.tree
  room,      \* being made ("new"), with a timer, or its timer has ended
  who,       \* the ball whose CheckCollision runs
  walked,    \* the nodes rectCall has finished, without those below them
  cur,       \* the node whose objs it iterates over
  left,      \* the entries of that table still to come
  attached   \* that table still is cur.objs

scan == <<who, walked, cur, left, attached>>
treeVars == <<entered, rect, quad, room, who, walked, cur, left, attached>>

-----------------------------------------------------------------------------
(* Rectangles and nodes. *)

Higher(a, b) == IF a >= b THEN a ELSE b
Lower(a, b) == IF a <= b THEN a ELSE b

(* collisionQuadTree.rect: the square around an object, cut at the border. *)
RectOf(p) ==
  [x1 |-> Higher(p.x - p.r, 0), y1 |-> Higher(p.y - p.r, 0),
   x2 |-> Lower(p.x + p.r, MapWidth), y2 |-> Lower(p.y + p.r, MapWidth)]

NoRect == [x1 |-> 0, y1 |-> 0, x2 |-> 0, y2 |-> 0]

Root == [level |-> 1, x |-> 0, y |-> 0]
Area(n) == [x1 |-> n.x, y1 |-> n.y,
            x2 |-> n.x + Side[n.level], y2 |-> n.y + Side[n.level]]

Inside(a, x, y) == a.x1 <= x /\ x <= a.x2 /\ a.y1 <= y /\ y <= a.y2

(* Rect:include and intersect look at the corners only. *)
include(a, b) == \A x \in {b.x1, b.x2}, y \in {b.y1, b.y2} : Inside(a, x, y)
HasCorner(a, b) == \E x \in {b.x1, b.x2}, y \in {b.y1, b.y2} : Inside(a, x, y)

BugIntersect(a, b) == HasCorner(a, b)
intersect(a, b) == HasCorner(a, b) \/ HasCorner(b, a)

Includes(n, r) == include(Area(n), r)

(* Every node the tree can have. *)
Aligned(z, l) == z + Side[l] <= MapWidth /\ \E k \in 0 .. MapWidth : z = k * Side[l]
Node ==
  {n \in [level : 1 .. MaxLevel, x : 0 .. MapWidth, y : 0 .. MapWidth] :
     Aligned(n.x, n.level) /\ Aligned(n.y, n.level)}

(* The four quadrants that split makes. *)
Children(n) ==
  IF n.level = MaxLevel THEN {} ELSE
  LET h == Side[n.level + 1]
  IN  {[level |-> n.level + 1, x |-> n.x + i, y |-> n.y + j] :
         i \in {0, h}, j \in {0, h}}

(* n is m or one of the nodes below m. *)
Within(n, m) ==
  /\ m.level <= n.level
  /\ m.x <= n.x /\ n.x + Side[n.level] <= m.x + Side[m.level]
  /\ m.y <= n.y /\ n.y + Side[n.level] <= m.y + Side[m.level]

Below(n) == {m \in Node : m.level > n.level /\ Within(m, n)}

ASSUME NoneAssumption == None \notin Node \cup Obj

(* Nodes from n down to c, both included. *)
Chain(n, c) == {m \in {n} \cup Below(n) : Within(c, m)}

-----------------------------------------------------------------------------
(* The operations of the tree, on a value t = [objs, count, tree].         *)

Nodes(t) == DOMAIN t.objs
SubTree(t, n, r) == {c \in Children(n) \cap Nodes(t) : Includes(c, r)}

(* Where insert's descent along getSubTree ends. *)
Home(t, r) == {n \in Nodes(t) : Includes(n, r) /\ SubTree(t, n, r) = {}}

(* obj_count is only compared with MaxObjs. *)
Counted(k) == Lower(k, MaxObjs + 1)

(* A node that may still split, and does when its counter passes the limit. *)
Splits(t, n) == n.level < MaxLevel /\ Below(n) \cap Nodes(t) = {}

Overfull(t, n) == Splits(t, n) /\ t.count[n] > MaxObjs

Stored(t, n, o) ==
  [objs |-> [t.objs EXCEPT ![n] = @ \cup {o}],
   count |-> [t.count EXCEPT ![n] = Counted(@ + 1)],
   tree |-> [t.tree EXCEPT ![o] = n]]

(* remove counts up. *)
BugRemoved(t, o) == [t EXCEPT !.tree[o] = None]
Removed(t, o) ==
  LET n == t.tree[o]
  IN  [objs |-> [t.objs EXCEPT ![n] = @ \ {o}],
       count |-> [t.count EXCEPT ![n] = Counted(@ + 1)],
       tree |-> [t.tree EXCEPT ![o] = None]]

(* The nodes from n down to c have split; what was in n is in d as far as  *)
(* it is kept, and in no node otherwise.                                   *)
Moved(t, n, c, d, kept) ==
  LET split == Chain(n, c)
      all == Nodes(t) \cup split \cup UNION {Children(m) : m \in split}
  IN  [objs |-> [m \in all |-> IF m = d THEN kept
                               ELSE IF m \in Nodes(t) \ {n} THEN t.objs[m] ELSE {}],
       count |-> [m \in all |-> IF m = d THEN Cardinality(kept)
                                ELSE IF m \in Nodes(t) \ {n} THEN t.count[m] ELSE 0],
       tree |-> [v \in Obj |-> IF v \in kept THEN d
                               ELSE IF v \in t.objs[n] THEN None ELSE t.tree[v]]]

(* The objects of n that the quadrant s keeps. *)
Kept(t, rc, n, s) == {v \in t.objs[n] : Includes(s, rc[v])}

(* The split of n by the arrival of o.  All objects of n are inserted into *)
(* the quadrant of the arriving one (line 173 looks at obj, not at v);     *)
(* those that do not fit stay out of the tree.  A quadrant that all of     *)
(* them fill splits in turn when the last one arrives, whichever it is.    *)
Split(t, rc, n, o) ==
  LET Through(c) == /\ Kept(t, rc, n, c) = t.objs[n]
                    /\ Cardinality(t.objs[n]) > MaxObjs /\ c.level < MaxLevel
      Quadrant(c, v) == {s \in Children(c) : Includes(s, rc[v])}
      Result(c, v) ==
        IF Quadrant(c, v) = {}
        THEN {Moved(t, n, c, c, t.objs[n])}
        ELSE {Moved(t, n, c, s, Kept(t, rc, n, s)) :
                s \in {q \in Quadrant(c, v) : ~Through(q)}}
  IN  UNION {UNION {Result(c, v) : v \in IF c = n THEN {o} ELSE t.objs[n]} :
             c \in {n} \cup {b \in Below(n) : Through(b)}}

(* insert at the root: the trees that can result. *)
Insert(t, rc, o) ==
  IF ~Includes(Root, rc[o]) THEN {t} ELSE
  UNION {LET u == Stored(t, n, o)
         IN  IF Overfull(u, n) THEN Split(u, rc, n, o) ELSE {u} :
         n \in Home(t, rc[o])}

(* update: the object is in the right place, or is taken out and put back. *)
BugInPlace(t, rc, o) == SubTree(t, t.tree[o], rc[o]) = {}
InPlace(t, rc, o) ==
  Includes(t.tree[o], rc[o]) /\ SubTree(t, t.tree[o], rc[o]) = {}

-----------------------------------------------------------------------------
TreeInit ==
  /\ entered = [o \in Obj |-> FALSE]
  /\ rect = [o \in Obj |-> NoRect]
  /\ quad = [objs |-> [n \in {Root} |-> {}], count |-> [n \in {Root} |-> 0],
             tree |-> [o \in Obj |-> None]]
  /\ room = "new"
  /\ who = None /\ walked = {} /\ cur = None /\ left = {} /\ attached = FALSE

(* collisionMgr:Enter, outside an iteration.  battle.new lets the stars    *)
(* enter, then the balls of the robots, then the thorns (battle.lua:61-65). *)
(* Later enter balls that are born or split off, spores and stars again,   *)
(* also from messages after the room's timer has ended; a thorn no more,   *)
(* but in EatThorn.                                                        *)
MayEnter(o) ==
  IF room = "new"
  THEN /\ o \notin Thorn => \A t \in Thorn : ~entered[t]
       /\ o \in Food => \A b \in Ball : ~entered[b]
  ELSE o \notin Thorn
Enter(o, p) ==
  /\ who = None /\ ~entered[o] /\ MayEnter(o)
  /\ entered' = [entered EXCEPT ![o] = TRUE]
  /\ rect' = [rect EXCEPT ![o] = RectOf(p)]
  /\ quad' \in Insert(quad, rect', o)
  /\ UNCHANGED <<room, scan>>

(* The room is made: its timer starts to tick. *)
AddTimer ==
  /\ room = "new" /\ room' = "ticking"
  /\ UNCHANGED <<entered, rect, quad, scan>>

(* collisionMgr:Update of an object that has moved or grown. *)
Update(o, p) ==
  /\ who = None /\ room = "ticking" /\ entered[o]
  /\ rect' = [rect EXCEPT ![o] = RectOf(p)]
  /\ IF quad.tree[o] = None \/ InPlace(quad, rect', o) THEN quad' = quad
     ELSE quad' \in Insert(Removed(quad, o), rect', o)
  /\ UNCHANGED <<entered, room, scan>>

CheckCollision(o) ==
  /\ who = None /\ room = "ticking" /\ entered[o]
  /\ who' = o /\ walked' = {}
  /\ UNCHANGED <<entered, rect, quad, room, cur, left, attached>>

(* rectCall gets to n: each node on the way intersects.  What is below n   *)
(* and the quadrants before it come first (they are an array: upper left,  *)
(* upper right, lower left, lower right); a finished node stays finished.  *)
Up(n, l) ==
  [level |-> l, x |-> n.x - (n.x % Side[l]), y |-> n.y - (n.y % Side[l])]
Before(m, n) == m.y > n.y \/ (m.y = n.y /\ m.x < n.x)
Passed(m) ==
  m \in Nodes(quad) /\ intersect(Area(m), rect[who]) => m \in walked

Due(n) ==
  /\ \A l \in 1 .. n.level :
       /\ Up(n, l) \notin walked
       /\ intersect(Area(Up(n, l)), rect[who])
       /\ l > 1 => \A m \in Children(Up(n, l - 1)) : Before(m, Up(n, l)) => Passed(m)
  /\ \A m \in Children(n) : Passed(m)

Walk(n) ==
  /\ who # None /\ cur = None /\ Due(n)
  /\ cur' = n /\ left' = quad.objs[n] /\ attached' = TRUE
  /\ UNCHANGED <<entered, rect, quad, room, who, walked>>

(* func(v) finds no overlap, or nothing that can be eaten. *)
Pass(v) ==
  /\ v \in left /\ left' = left \ {v}
  /\ UNCHANGED <<entered, rect, quad, room, who, walked, cur, attached>>

(* A Lua error gives up the iteration and the tick, and ends the timer.    *)
Abort ==
  /\ room' = "ended"
  /\ who' = None /\ walked' = {} /\ cur' = None /\ left' = {} /\ attached' = FALSE

(* collisionMgr:Leave of v from the tree t; o.tree is nil for an object    *)
(* that a split has left out, and calling remove on it is an error.        *)
Leave(t, v, present, rc) ==
  IF t.tree[v] = None THEN quad' = t /\ entered' = present /\ rect' = rc /\ Abort
  ELSE /\ quad' = Removed(t, v)
       /\ entered' = [present EXCEPT ![v] = FALSE]
       /\ rect' = [rc EXCEPT ![v] = NoRect]
       /\ UNCHANGED <<room, who, walked, cur>>

(* EatBall, EatSpore and EatStar. *)
Eat(v) ==
  /\ v \in left /\ v # who /\ v \notin Thorn
  /\ Leave(quad, v, entered, rect)
  /\ quad.tree[v] # None => left' = left \ {v} /\ attached' = attached

(* What the iteration still visits after a new key was put into its table: *)
(* Lua promises nothing, entries may come again or not at all, or next     *)
(* fails.                                                                  *)
Disturbed(home) == attached /\ cur \in home
GoOn(t, v, new, home) ==
  IF Disturbed(home)
  THEN /\ left' \in SUBSET ((quad.objs[cur] \cup {new}) \ {v})
       /\ attached' = (Children(cur) \cap Nodes(t) = Children(cur) \cap Nodes(quad))
  ELSE left' = left \ {v} /\ attached' = attached

(* EatThorn: ball:OnDead puts a new thorn anywhere into the tree, then the *)
(* eaten one leaves it.                                                    *)
EatThorn(v, new, p) ==
  /\ v \in left \cap Thorn /\ new \in Thorn /\ ~entered[new]
  /\ LET present == [entered EXCEPT ![new] = TRUE]
         rc == [rect EXCEPT ![new] = RectOf(p)]
         home == Home(quad, rc[new])
     IN  \E t \in Insert(quad, rc, new) :
           \/ /\ Leave(t, v, present, rc)
              /\ t.tree[v] # None => GoOn(t, v, new, home)
           \/ /\ t.tree[v] # None /\ Disturbed(home)
              /\ quad' = Removed(t, v)
              /\ entered' = [present EXCEPT ![v] = FALSE]
              /\ rect' = [rc EXCEPT ![v] = NoRect]
              /\ Abort

(* The loop over one table ends, then the one over the nodes. *)
Return ==
  /\ cur # None /\ left = {}
  /\ walked' = (walked \ Below(cur)) \cup {cur}
  /\ cur' = None /\ attached' = FALSE
  /\ UNCHANGED <<entered, rect, quad, room, who, left>>

EndScan ==
  /\ who # None /\ cur = None /\ Root \in walked
  /\ who' = None /\ walked' = {}
  /\ UNCHANGED <<entered, rect, quad, room, cur, left, attached>>

TreeNext ==
  \/ \E o \in Obj, p \in Place : Enter(o, p)
  \/ AddTimer
  \/ \E o \in Obj \ Thorn, p \in Place : Update(o, p)
  \/ \E o \in Ball : CheckCollision(o)
  \/ \E n \in Nodes(quad) : Walk(n)
  \/ \E v \in left : Pass(v) \/ Eat(v)
  \/ \E v \in left, new \in Thorn, p \in Place : EatThorn(v, new, p)
  \/ Return \/ EndScan

TreeSpec == TreeInit /\ [][TreeNext]_treeVars

-----------------------------------------------------------------------------
Coordinate == 0 .. MapWidth
Rect == [x1 : Coordinate, y1 : Coordinate, x2 : Coordinate, y2 : Coordinate]

TreeTypeOK ==
  /\ entered \in [Obj -> BOOLEAN]
  /\ rect \in [Obj -> Rect]
  /\ Nodes(quad) \subseteq Node /\ Root \in Nodes(quad)
  /\ quad.objs \in [Nodes(quad) -> SUBSET Obj]
  /\ quad.count \in [Nodes(quad) -> 0 .. MaxObjs + 1]
  /\ quad.tree \in [Obj -> Nodes(quad) \cup {None}]
  /\ room \in {"new", "ticking", "ended"}
  /\ who \in Ball \cup {None} /\ walked \subseteq Nodes(quad)
  /\ cur \in Nodes(quad) \cup {None} /\ left \subseteq Obj /\ attached \in BOOLEAN

(* o.tree and the tables of the nodes agree through splits, removals and   *)
(* moves, and the node that holds an object contains its rectangle: what   *)
(* Leave and update rely on (QuadTree.lua:222, 229, 247).                  *)
TreeAgrees ==
  /\ \A n \in Nodes(quad), o \in Obj : o \in quad.objs[n] <=> quad.tree[o] = n
  /\ \A o \in Obj : quad.tree[o] # None =>
       entered[o] /\ Includes(quad.tree[o], rect[o])

(* However often objects come and go (remove counts up), a node that may   *)
(* still split never holds more than maxObjs (QuadTree.lua:167).           *)
LeafBounded ==
  \A n \in Nodes(quad) : Splits(quad, n) => Cardinality(quad.objs[n]) <= MaxObjs

(* The tree that Enter, update and Leave work on. *)
QuadSafe == TreeTypeOK /\ TreeAgrees /\ LeafBounded

Reached(t, n, r) ==
  \A m \in Nodes(t) : Within(n, m) => intersect(Area(m), r)
Overlap(a, b) == a.x1 <= b.x2 /\ b.x1 <= a.x2 /\ a.y1 <= b.y2 /\ b.y1 <= a.y2

(* Testing corners is enough: rectCall reaches the node of every object of *)
(* the tree that overlaps the ball, wherever the map's border cuts it.     *)
Findable ==
  \A b \in Ball, o \in Obj :
    entered[b] /\ quad.tree[o] # None /\ Overlap(rect[b], rect[o]) =>
      Reached(quad, quad.tree[o], rect[b])

(* func is called with objects that are still in the index, even when the  *)
(* table it iterates over was replaced by a split (QuadTree.lua:216).      *)
CalledAlive == \A v \in left : entered[v]
=============================================================================
