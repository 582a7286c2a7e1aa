# agar-h5 in TLA+

agar-h5 is a multiplayer game: a browser client, a Go gateway that relays
WebSocket messages to TCP, a game server in Lua (`src/agar/server`), and the
runtime that server runs on, *chuck* (`src/chuck`): an event loop, sockets,
timers, a log, a redis client and Lua bindings in C, with a few Lua libraries.
The specifications in this directory model the runtime from the loop to the
packets of the scripts, and of the game its session and room bookkeeping, a
room in play with the vision of its users, and the collision index.

    tlc -config session.cfg MCSession        # one of the runs below
    tlapm GameProofs.tla                     # one of the proof modules

## The system

| component | state | operations | interaction |
|---|---|---|---|
| session and rooms (`user.lua`, `battle.lua`, `battleuser.lua`, `server.lua`) | accounts per connection and per number, players and their battle users, rooms | Login, EnterBattle, disconnect, GameOver, tick | callbacks of stream sockets; one repeating timer per room |
| balls (`ball.lua`, `util.lua`) | score, radius, velocities of each ball | move, eat, split, spit, thorn | the room's tick; enters and leaves the collision index and vision |
| collision index (`collisionQuadTree.lua`, `QuadTree.lua`) | a quad tree, a rectangle and a node per object | Enter, Leave, Update, CheckCollision | called by balls, stars, thorns; calls back into balls while it iterates |
| vision (`vision.lua`) | blocks, observers, reference counts, view ports | Enter, Leave, UpdateVisionObj, UpdateUserVision | balls and battle users; decides what clients are told |
| stars (`star.lua`, `minheap.lua`) | bits of living stars, a heap of revival times | die, revive, notify | collision index, broadcast |
| robots (`ai.lua`) | a direction and when to change it | tick | battle users without a connection |
| gateway (`gateway.go`) | a receive buffer per game connection | frame, relay in both directions, close | two goroutines per client |
| browser client (`agar/*.js`) | balls, stars, message queue | handle messages, draw | WebSocket |
| event loop (`chk_event_loop*.{c,h}`) | watched handles, closures, timers | watch, run a round, post a closure, finalize | epoll; calls every handle and the timer manager |
| timer manager (`chk_timer.c`, `luabind/timer.h`) | three wheels, a pool, Lua handles | register, unregister, tick, finalize | called by the loop once per millisecond; calls back |
| stream socket (`chk_stream_socket.c`) | two send lists, flags, event mask, close timer | send, urgent send, half close, close, read and write events | called by the loop, calls back |
| connector, acceptor, datagram socket | a handle, a timeout | connect, accept, send and receive | loop |
| decoder, packets, byte chunks (`chk_decoder.c`, `chk_bytechunk.c`, `luabind/packet.h`) | reference counted chunks, buffers over them, a position of the decoder | write, clone, rewrite, read, send, split a stream into packets | send list and receive buffers of sockets share chunks with scripts |
| redis client (`chk_client.c`, `luabind/redis.h`) | requests waiting for replies, a half parsed reply, a Lua object | connect, execute, reply, timeout, close | stream socket, timer; calls back into Lua |
| promises, coroutines, rpc, event handlers (`chuck/lib`) | continuations, calls waiting | resolve, call, respond, time out | loop, sockets |
| log (`chk_log.c`, `chk_thread.c`) | two queues, a condition, files | write, rotate, flush, end | any thread writes, one thread drains; joined at exit |
| signals (`chk_signal.c`) | a handler and a pipe | watch, unwatch | the pipe is a handle of the loop |

The game is one thread: a message callback, a disconnect callback, a timer
callback runs to its end before the next one.  What is hard is therefore less
preemption than *order and re-entry*: callbacks that call back into what calls
them (close in a read callback, unregister in a timer callback, a redis
callback that drops its client, eating inside the iteration over the index),
events that were collected before the object changed, two tables that must
agree after a disconnect, a relogin and a game over in any order, a Lua error
in the middle of a tick, bytes that several buffers share, and boundaries (a
slot exactly a wheel away, a node exactly at its limit, a rectangle cut by the
border).  Only the log has real threads, and a process that may crash.
`PROJECT.json` lists these places by line under "hazards".

What makes each modelled component correct:

* session: the tables by connection, by number, and the pointers between
  players and battle users agree; nobody is refused who is not online; a
  battle user is kept until its game ends.
* timer manager: a timer is called in exactly its tick, once, and not after it
  was cancelled; handles never dangle.
* stream socket: bytes leave in the order promised and whole, what waits is
  listened for, a closed socket is freed once, late pointers do not survive it.
* event loop and handles: a round serves nothing that was freed, a round ends,
  a dial is answered once, nothing in Lua outlives what it points to.
* redis client: every request is answered once, in order, by its own reply,
  its timeout or the loss of the connection.
* log: an entry is written once, in order, and what is on the disk stays; the
  log thread does not sleep while there is work.
* packets: a buffer holds what was written into it whoever shares its bytes, a
  chunk lives as long as it is referred to, the receiver gets the packets that
  were sent, a field is read as it was written.
* collision index: objects and nodes agree, whatever overlaps is found,
  nothing dead is visited.
* room and vision: blocks, balls, view ports and counted references agree,
  nothing eaten stays in sight, no player gets more balls than allowed, and a
  client shows what its user sees.

## Modules

`Session` models `user.lua` and the room bookkeeping of `battle.lua` and
`battleuser.lua`.  Its variables carry the names of the Lua tables and fields
(`conn2User`, `userID2User`, `userID2BattleUser`, `battles`, `users`, and
`conn`, `userID`, `battleUser`, `player`, `account`, `battle` for the fields of
objects).  One action per callback and branch: `Accept`, `LoginIllegal`,
`LoginNew`, `LoginAgain`, `EnterRoom`, `ReEnterRoom`, `Disconnect`, `GameOver`,
`TickError`.  `conn:Close()` releases the callback, so a connection the server
closed never gets a `Disconnect`.  Objects nothing reaches may be allocated
again, so a finite pool stands for long runs.  `LoginOnce` is what the client
in `agar.html` does; `TickMayFail` lets a Lua error end a room's timer
(`luabind/timer.h:28`).  A battle user is `Robot` when `ai.lua` made it.

`Timers` is the abstract promise of a timer manager: a deadline per timer and a
clock.  `TimerWheel` is `chk_timer.c`: the hands, the slot every queued timer is
in (`wheel`, `slot`), and the work of one tick as separate steps, because
callbacks run between them: `BeginTick` and `Tick` (pull the list under the
hand), `Call` and `Return` (the callback, which may register and unregister in
between), `Cascade` (the hour and day wheels).  `Register` computes the slot as
`_reg` does, with `cal_remain`, the carry into the wheel above and one wrap.
`handle` are the Lua objects that point to a timer.  The loop may be late
(`MaxLag`).  Timers in one slot form a set: the promise does not depend on
their order.

`Outbox` is the abstract promise of a socket to a sender: one line of bytes.
An urgent buffer goes before ordinary ones that have not been started, no
buffer is torn apart, nothing follows the end of the stream.  `StreamSocket`
is `chk_stream_socket.c` with the part of `_loop_run` that calls it: `pc` is the
place in `on_events` (so that callbacks may call `Send`, `Close`,
`shutdown_write`, `pause_read`, `resume_read` in the middle), `ready` the events
epoll has reported, `sendList` and `urgentList` the two lists, byte by byte
with the buffer each comes from, `sendingUrgent` the choice `prepare_send` made
for `update_send_list`.  A write takes any prefix of what was prepared, or
none, or fails.

`QuadTree` is `collisionQuadTree.lua` over `QuadTree.lua`.  `quad` holds the
tables and counters of the nodes and `o.tree` of the objects; the domain of
`quad.objs` are the nodes that exist.  A node is its level and corner.  The
operations are operators on such a value (`Insert`, `Removed`, `Split`),
because Lua runs them without interruption; `Split` contains the cascade and
both of its habits, that all objects follow the quadrant of the arriving one
(line 173) and that the order of `pairs` is arbitrary.  `rectCall` is a walk in
steps (`Walk`, `Pass`, `Eat`, `EatThorn`, `Return`, `EndScan`), because what it
calls changes the tree: `Eat` lets an object leave, `EatThorn` enters the next
thorn first (`ball.lua:43`) and may add a key to the table under iteration, or
replace it by a split; then Lua promises nothing about the rest of the
iteration, which `GoOn` says.  Positions are on an integer grid, radii come
from `Place`; `obj_count` is only compared with the limit and stops one above
it.  A Lua error (`Leave` of an object whose `tree` is nil) ends the iteration
and the room's timer; objects may still enter, since messages go on arriving.
`room` says that it is being made (stars, then the robots' balls, then thorns
enter), or ticks, or has lost its timer.

`Vision` is `vision.lua`: `objs` and `observers` are the tables of a block,
`visionblocks` the area of a ball, `viewPort`, `viewObjs` and `beginsee` the
fields of a user, `client` the balls that its page shows.  Its operations are
operators that all change the same variables, since they run inside handlers
of the room.  `Counts` is `block:Add` and `block:Remove` for the balls of a loop
at once; `UpdateUserVision` leaves every block of the old view port, not only
those outside the new one, because the code swaps the corners (see below).
`Arena` is the room around it: `battle.lua`'s `Enter` and `Update`, the handlers
of `battleuser.lua`, the life of a ball in `ball.lua`.  `pc` says where in a
handler or in a tick the one Lua thread is: `follow`, `users`, `balls`, `thorn`,
`collide`, `eat thorn`, `notify`, and `messages` between two of them.  `owner`
stands for `owner.balls` and `ballCount`, `moving` for `moveVelocity`; what
positions and scores decide (who reaches and beats whom, which area a ball
moves to) is left open.  A ball that nothing reaches may be made again, so a
finite set stands for a long game.  A failing handler ends (`user.lua:28` calls
it protected), a failing tick ends the timer (`TickFails`).  `ReEnter` lets a
user come back to its room.

`EventLoop` is `chk_event_loop.c` over epoll: the handles that are allocated
(`live`), registered (`watched`) and linked into the ready list (`ready`), and
the place in `_loop_run` (`round.pc`): poll, serve what is ready, tick, run
closures up to the limit, idle.  A notification jumps to the end and leaves
what was linked in a list on a stack that is gone (`stuck`).  `chk_loop_end`,
`chk_loop_del` and finalization with its `LOOPCLOSE` are part of it.  Where the
code may use freed memory the step may go unnoticed or set `fault`
(`MayFault`): the model stops there, and its properties say that nothing else
goes wrong before.  `Handles` puts connectors, acceptors, datagram and stream
sockets and signal handlers on that loop, with their Lua functions: `used` and
`object` are the allocations and the userdata, `ref` and `closeRef` the
references to callbacks in the registry, `lost` the sockets with a reference
there to which nothing points any more, `lingering` the sockets that were closed
with a delay and wait for their data, their timer or the end of the loop,
`timer` the timeouts of connectors, `cb` the callback that runs, in which any of
the functions may be called.

`RequestQueue` is the abstract promise of the redis client: requests are
answered in the order they were made, or from the first on by a timeout, or all
by a loss.  `RedisReply` is the parser (`parse_string`, `parse_integer` and the
rest), a function of a tree and one byte; a path into the tree stands for the
pointers between its nodes.  Beside it is the definition of what a server may
send (`Protocol`): a message is its bytes, the reply they mean, and what it is
made of, so that messages of any length and depth are members of a constant
set `Messages`, of which TLC gets a few and the proofs any.  `RedisClient` is the client around it: `pc` is the
place in `data_cb`, `timeout_cb`, `destroy_redisclient` from which Lua is
called back, `waitreplys` the list, `client.timeout_count` the replies to throw
away, `lua` the userdata.  The server answers in order; its bytes arrive cut at
any place.  `RedisCommand` is the formatting of a command, from Lua values and
from a format string.

`Log` is the log with the part of `chk_thread.c` that it uses: the start of the
thread, the mutex-protected exchange of the queues (`share`, `private`), the
wait on the condition with its signal after the unlock (`signals`,
`signalled`), the log thread statement by statement (`lt`), rotation by size
and day, the end of the process, a crash, and the next process, perhaps with
the same pid, on the same `disk`.  Entries are numbers.

`ByteBuffer` is `chk_bytechunk.c` as operators on a heap of chunks (`cap`,
bytes, `next`, counter): append, clone, `do_copy`, rewrite, read, drain.  A loop
of the code is `Repeated`: one operator for its body (`AppendSome`, `LetGo`,
...), as many rounds as it can need.  A chunk is a number that no other one has;
there may be any number of them.
`Packet` lets scripts use buffers over it, sends them through the list of a
socket, receives the bytes into `next_recv_buf` and cuts them with the decoder
of `chk_decoder.c`, all in one heap; `ideal` is what each buffer should hold,
`lost` lists the chunks to which a copy on write lost its reference.
`lua_stream_socket_send` may write at once, in a callback too; a length is added to the size of the header
modulo the width of a header, as `uint32_t` is.  The model stops (`Stopping`) at
the faults listed below, and its properties hold up to them.
`PacketFields` is the format of the fields in a packet: the variable-length
integers, numbers, strings, booleans, nested tables and the rewriting of a
field, over digits of a small base.  `Bytes` has the representation of a number.

Modules called `MC...` give the constants values, those called `...Proofs` hold
the theorems: `GameProofs` those about `Session` and `QuadTree`, `TickProofs`
those about `TimerWheel` and `Arena`, the others those about the module they are
named after (`RedisProofs` is about `RedisReply` and `RedisClient`, `PacketProofs`
also about `ByteBuffer`); `FoldFacts` has lemmas about folds and
induction, for any operator.  Operators named `Bug...` are plausible mistakes;
no specification uses them.  They serve to check that each property
can fail.

## Runs

| run | instance | states | shows |
|---|---|---|---|
| session | 2 connections, 2 accounts, 2 rooms, a robot, errors in ticks | 182,781 | `SessionSafe`, `NoStaleAccount`, `BattleUserKept`; `EveryBattleEnds` in a room whose timer lives |
| timer | wheels of 3, 2 and 2 slots, 2 timers, 13 ticks, a loop up to 2 late | 413,552 | exact calls, slots that exist, live handles, `KeepsPromise` (the wheels implement `Timers`), `EveryTimerEnds` |
| socket | buffers of 1 and 2 bytes | 73,203 | nothing dangles, what waits is listened for, `EndOfStream`, `LingersUntilSent`, `KeepsOrder` (the lists implement `Outbox`), `ClosedIsReleased`, `WriteErrorReported`, `PendingIsSent` |
| quadtree | ball, food, two thorns, 3 levels, a limit of 1 | 101,635 | `QuadSafe`, `Findable`, `CalledAlive` |
| arena | a user, a robot, a thorn, 4 objects, 3 blocks, at most 3 balls each | 1,266,151 | `ArenaSafe`, `ClientSees` |
| reenter | 3 objects, no thorn, the user may come back | violation | finding at `battle.lua:164` |
| net | 2 connectors, acceptor, datagram socket, stream socket, signal, of which 2 are made | 1,521,454 | `HandlesSafe`, `AnsweredOnce` |
| net_live | connector, stream socket | 263,412 | `RoundEnds`, `DialAnswered` |
| redis | 2 requests, 10 messages for each, cut at any byte | 306,237 | `RedisSafe`, `OwnReply`, `CommandReceived`, `AnsweredInOrder` (the client implements `RequestQueue`), `RequestEnds` |
| log | 2 threads, a file, 3 entries, files of one entry, 2 processes | 327,682 | `LogSafe`, `NoLostWakeup`, `LosesOnlyLate`, `FilesKept`, `EntryWritten` |
| packet | 2 buffers of a script, chunks of 4 bytes, writes of 3 and 5, 5 operations | 397,729 | `RefsCounted`, `BuffersKeep`, `StreamAsSent`, `Decoded` |
| packet_fields | 2 fields, tables of up to two pairs in each other | 50,209 | `FieldsKept` |

Why the bounds are enough to meet the cases.  *session*: an account is in turn
on either connection, and one connection can log in while the other is open;
two rooms, since a battle user that stays behind is in another room than the
one just entered; the number 1 belongs to a robot.  *timer*: `MaxTimeout` of 11
spans all three wheels (3, 3 * 2, 3 * 2 * 2), the asked values sit at the end of
a wheel and above the maximum, and 13 ticks are more than a full turn of the
day wheel.  *socket*: with two buffers one is half sent while the other is
urgent; `LowWater`, the amount above which an ordinary send tries at once, is
the sum of the sizes.  *quadtree*: three levels let a split cascade; the places
are one in a node of the last level, one across a line of its quadrant, and a
ball cut by the border of the map that only the root contains.  *arena*: a ball
lies in the first block or reaches into the second, a view port begins at
either, so a ball and a view port come to share blocks and lose them by either
moving; the last block is in every view port, which the code makes reach the
corner of the map (`vision.lua:293`).  Three balls let a split and a thorn meet
the limit; one user is enough for `viewObjs`, which no other user changes, and
the robot is who eats its balls.  *net*: two
handles of any kinds, two connectors among them, so that one callback frees
the other; `MaxRun` of 0 is the least limit of closures a round may have, and
one that waits is then over it.  *redis*: a second request waits while the
first is answered, or times out and its reply comes late; the messages take every
branch of the parser, with a carriage return inside a string, a negative
number, an array in an array, a nil array in an array, a line
that is longer than the buffer (`SIZE_TMP_BUFF` of 2), and no reply at all.
*log*: each entry may rotate the file, the last of
three may come after the log thread's last look, and `DaySeconds` of 1 lets the
day change at any moment; with `PidReused` the second process opens the files
of the first.  *packet*: a packet of 3 or 5 bytes with its header needs a second
chunk, two packets share a chunk of the receiver, a read may end in the middle of
a header, and five operations reach every fault named below; a header of two
digits in base 4 has the lengths 14 and 15, which wrap to totals of 0 and 1.
*packet_fields*: numbers at
both sides of each width of the small base (`Base` 4), empty strings, a table
that contains the other, itself, and one that is shared.

Deadlock is checked only in *session*; the other systems may really stop: a
finalized timer manager, a freed socket, a room whose timer has ended, a loop
that is gone, a process that was the last.  *arena* stops also where a ball
would be made and all the objects of the instance are in use.

Symmetry is used for objects that are only compared (thorns, balls, the buffers
of scripts), and never in a run with a liveness property.

## Fairness

* `TimerWheel!FairSpec`: the loop's timerfd wakes it every millisecond and it
  does not stop in the middle of a tick, and callbacks return (weak fairness of
  the clock and of the steps of a tick, never of `Register` or `Unregister`).
* `Session!FairSpec`: a room's timer fires while it is armed, so `GameOver`
  comes.  A tick that raises a Lua error ends the timer for good
  (`luabind/timer.h:28`) and nothing in the source repairs such a room, so
  `EveryBattleEnds` allows for a battle whose room has lost its timer.
* `StreamSocket!FairSpec`: the loop polls and serves what it found; a close
  timer that keeps being due fires; a connection the peer ended or reset is in
  the end read to its end (user data in front of it is finite).  Only
  `PendingIsSent` also assumes, as part of the property (`PeerReads`), that the
  peer reads, since no code can bring about room in a full connection.
* `Handles!FairSpec`: a loop that runs goes on, callbacks return, epoll reports
  the descriptor of the timers again and again (strong fairness, because a round
  in between makes it not reportable), and a timeout that stays due is called,
  which is what `TimerWheel` shows of timers.  That the program enters the loop
  again after it has left it is not assumed: both properties end with
  `LoopLeft`.
* `RedisClient!FairSpec`: callbacks return, received bytes are parsed, time
  passes a deadline, and `timeout_cb`, a repeating timer, is called again and
  again (strong, since callbacks disable it meanwhile).  Nothing is assumed of
  the server: `RequestEnds` holds because of the deadline.
* `Log!FairSpec`: the threads that were started run, a signaller gets to its
  signal, the join is executed once exit was called.  A wait with a time limit
  ends by itself; nothing is assumed of the threads that log, nor that a process
  does not crash: `EntryWritten` is stated of entries of a process that lives.

`QuadTree` and `Arena` promise nothing live: a room whose timer has ended stays
as it is.
`Packet` and `PacketFields` are about data.

## Proofs

Every theorem holds for all values of the constants that satisfy the named
assumptions: any set of connections and accounts, any wheel sizes and number of
timers, buffers of any size and number, any number of objects, levels and
places, any number of blocks, balls, users and robots, any number of handles,
requests, threads, files and processes, any limit.  The shape is always the
same: an inductive invariant, one lemma per action that it is kept, `PTL` for
the temporal step, and the properties as its consequences.

* `GameProofs`, of `Session`: the invariant adds to the properties where each object may
  be referred to from (so that a freshly allocated one is referred to from
  nowhere) and that a registered user's connection leads back to it.
  `AccountsNeverStale` assumes `LoginOnce`: a peer that
  logs in twice makes it false (see below).  The others hold for any peer.
* `TickProofs`, of `TimerWheel`: the invariant says, for a timer in any slot of any wheel,
  how the ticks until the hand reaches that slot relate to the ticks until it
  expires; with the hands as numbers this is arithmetic modulo the wheel sizes,
  in lemmas about `Wrap` and `Carry`.  It assumes a loop less than one turn of
  the hour wheel late.  `WheelKeepsPromise` is the refinement of `Timers`.
* `StreamSocketProofs`: the invariant describes the lists (whole buffers, at
  most one of them started, and which of the two lists it is in), and the flags
  of a freed, a closing and a lingering socket.  That the two lists implement
  the one line of `Outbox` follows from lemmas about concatenation and
  subsequences.
* `GameProofs`, of `QuadTree`: lemmas about the operators first (`StoredNearly`,
  `MovedGood`, `SplitGood`, `InsertGood`, `RemovedGood`): each takes a tree in
  order to one in order, where in the middle of `insert` one node may hold one
  object too many.  "In order" needs the counter besides the properties, since
  it is the counter that decides on a split: it never falls behind the table.
  The invariant adds that only objects that have entered are in the tree.
  `OverlapsFound` is geometry: a node is a square on the map, a rectangle a
  square that only the border cuts, and then looking at corners is enough;
  with rectangles that are no squares it would not be.
* `TickProofs`, of `Arena`: `VisionSafe` is kept by each operation of `Vision`; the heart is
  `CountsKeeps` and `UserVisionKeeps`, where `SizeAfter` counts the blocks that a
  view port and an area share after either has moved, and `EntryAfter` follows
  an entry of `viewObjs`.  The invariant (`ArenaInv`) adds who owns what at each
  place of a tick (`OwnersOK`, `RoomOK`, `RunOK`), for instance that the pieces
  still to come (`left`) fit below `MaxBalls`, and that whoever has been told has
  no entry with `ref` 0.  Both theorems assume `~ReEnter`: the finding shows that
  they are false without it.
* `HandlesProofs`: the invariant says where a handle may be in each stage of its
  life: what is ready is live and watched (`ReadyLive`), who runs a callback is
  live, what Lua or the registry holds is live (`NothingOutlives`), a connector that is
  watched and not live has timed out (`DanglingTimedOut`, `Timed`), a connector
  with a timer has not answered (`Once`).  All of it holds until a fault; after
  one the model stops, so it needs no weakening.
* `LogProofs`: the invariant counts: entries that were pushed are, in order,
  those written, the one the thread holds, those in the private and in the
  shared queue (`Counts`); at each place of the log thread it says what the
  thread holds (`Holds`), for the start of the thread who has signalled
  (`Begins`), and that an open file is on the disk under a name of its own
  (`OpenFiles`), from which `DiskOnlyGrows` follows step by step.
* `FoldFacts`: the theorems of the library about induction take a predicate for
  a parameter, which the provers cannot instantiate.  `NatSetInduction` says the
  same of a set of numbers, and follows from a least element.  With it the
  definition of `FoldLeft` is taken apart once, for a constant operator `op`:
  one element more is one step more (`FoldOfPrefix`, `FoldOfAppend`).  Each fold
  of the redis models gets an instance of the module.
* `RedisProofs`, of `RedisReply`: what the parser does with any message of the protocol, cut
  anywhere.  `Read` says what the node of a message is after some of its bytes,
  with one lemma per kind of message for the next byte (`StepOfLine` ...
  `StepOfArray`).  Elements may be nested to any depth; there is no induction
  over depth, but the invariant of the parser is the whole `Path`: each node but
  the last is an array that waits for the element the next node belongs to, and
  the bytes agree (`Inner`).  `ByteStep` takes a path to the next byte, through
  all the levels that one byte may complete (`AscendAll`), `ChunkRead` does for
  the bytes of a read, and `Carried` says what a client has left to read of
  several messages.  The cases the code does not get right are part of the
  statements: a nil array is `Stuck`, a lost sign is excluded by `SignLost`, a line
  that leaves its buffer by `Overruns`.
* `RedisProofs`, of `RedisClient`: requests are numbered as they are made, the list holds
  exactly those that wait (`Numbered`), and each place in the code knows whether
  the client may be closed, collected or freed there (`Stages`).  Each step makes
  or answers at most one request (`OneRequest`), which gives the refinement of
  `RequestQueue`; up to here what the parser makes of a byte is left arbitrary.
  The second invariant (`Wire`) is about the bytes: the requests made are, in
  order, those that were answered, as many as `timeout_count` says that timed out,
  and those on the list, while the last of them are still with the server
  (`Due`); and the tree, the data being parsed and the stream together are the
  messages of the ones between (`Flow`).  The lemmas say that each step moves
  one of the borders, and `ParseWires` uses `CarriedParsed` for a read.
  `RequestGetsItsReply` and, that no reply comes unasked, `RedisClientSafe`
  follow.
* `PacketProofs`: a heap is `Owned` when each counter is the number of links to
  the chunk and of references that somebody holds, which are given as a function
  from chunks to numbers.  Every function gets a lemma: it takes a heap owned by
  its caller and all the others to one that they own, with one reference more or
  less, and the heap is `Kept` for the others: where they read, they read the
  same places.  That is what a release must not destroy, which goes down the list
  as long as it has the last reference (`LetGoStep`), nor a drain, which cuts the
  list (`DrainStep`: nobody else is there).  The invariant (`Good`) names the
  holders (slots, send list, lost references, callback, socket, decoder) and what
  each counts on: the bytes of a buffer are in its list (`BufferOk`), and the
  bytes the decoder has to look at end where those end that the socket has read (`Meet`), which is why neither
  of them runs off the list when it goes on.  `ReferencesCounted` assumes that the
  model stops at the faults `append`, `freed`, `cut` and `drain` (`Ends`): after
  an append at a wrong position or to a chunk that is gone, or with a list cut
  for somebody else, the code does read and write where it should not.  At the
  other faults of the model (a wrong copy, an uninitialised position of a
  rewrite, a header written for a clone or beside the bytes it is for, an empty
  packet that comes for ever) the bytes may be wrong but the counters are right,
  so there it may go on.  The thirteen loops of the code are `Repeated` in
  the model, each with a round of its own; that the function exists which gives
  the state after each round is shown once, for `Round`, which has the name of
  the loop as a parameter (`RoundByRound`), and each loop then has a lemma of its
  own (`DoubledRounds` ...) and an invariant for its rounds (`LetGoStep`,
  `AppendStep` ...), carried up to the last by `CountUp`.

Only model-checked: `EveryBattleEnds`, `EveryTimerEnds`, `ClosedIsReleased`,
`WriteErrorReported`, `PendingIsSent`, `RoundEnds`, `DialAnswered`, `RequestEnds`,
`EntryWritten`, which are liveness under fairness and out of the prover's reach;
`CommandReceived`, which is about the decimal digits of the lengths in a command
and is checked over bounded ones; `BuffersKeep`, `StreamAsSent` and `Decoded`,
which are about the bytes in the chunks, not only about the chunks; `FieldsKept`,
whose tables are recursive (the prover loses its arithmetic in a module that
declares a recursive operator).

## Where code and documentation disagree

One is shown by a violation run and listed under "findings" in `PROJECT.json`.
Others were met while modelling.  The models follow the code in
them, and stop where it uses memory that is gone.

Game:

* `battle.lua:164` (the finding): a user that comes back gets a new `viewPort` and
  `viewObjs`, but the blocks it observed keep it as an observer.  A ball that
  enters one of them before the next tick is counted there and again when the
  view port observes the block; a block outside the new view port goes on
  reporting its balls.  Either way the client is never told that such a ball is
  out of sight, which `battleuser.lua:130` says it is.
* `vision.lua:347`, 356: `in_range` gets its corners in the wrong order, so it is
  false of every block, and a view port that moves leaves all its blocks and
  comes into all the new ones, while lines 346 and 355 speak of those that are
  in only one of the two.  The counts come out the same.  Were a view port ever a
  single block they would not: `ArenaAssumption` says that none is, as the code
  makes it at least 1000 units wide and a block has 80.
* `vision.lua:293`: `math.max` in place of `math.min` makes every view port reach
  the upper right corner of the map.  `calUserVisionBlocks` (154) reads a
  variable that does not exist; nothing calls it.
* `ball.lua:488`: `spit` reads the velocity of a ball that may have none.  In a
  message the error leaves a ball that collides and is counted but is in no
  block; the tick after it fails in `UpdateVisionObj` and ends the room's timer.
* `ball.lua:252` adds balls to the table that `battleuser.lua:93` iterates over,
  while lines 264-268 take care of the same in the collision index.
* `QuadTree.lua:173`: a split moves every object by the rectangle of the arriving
  one, so it may leave an object in no node; nothing finds the object again.
* `util.lua:186` divides by the elapsed time, which is 0 in the second of two
  ticks that a late loop makes up for in one millisecond.
* `star.js:41` tests `1 << j` and not the bits that it was sent, so a client that
  enters shows every star as living.
* `user.lua:98`: a peer that logs in twice on one connection takes the
  connection from its first account, which stays registered and is refused
  afterwards.  The client in `agar.html` logs in once, which is `LoginOnce`.
* `battle.lua:180`: the search that line 177 describes, for a room that is free,
  finds none, since nothing puts a room into `M.battles`: each account that
  enters gets a room of its own.
* If an iteration eats an object that one of its own splits has lost, `Leave`
  calls a method of nil (`collisionQuadTree.lua:52`) and the room freezes.
  `QuadSafe` and `CalledAlive` are proved across that error.
* `ball.lua:43` enters a thorn into the table that `rectCall` iterates over, for
  which lines 265-267 of the same file take care to collect first.

Loop, timers and handles:

* A callback's return value is not limited to the maximum of `config.h:20`
  (`chk_timer.c:153`).  `TimerSafe` is stated for callbacks that stay below.
* A loop that was stopped in a round with a notification cannot be run again
  (`chk_event_loop_epoll.h:166`: INLOOP stays set), which `chk_event_loop.h:45`
  allows; what was ready stays linked into a list on the stack.
* Closures over the limit of a round wait for the next event
  (`chk_event_loop_epoll.h:155`, 157), and one that is posted while others are
  drained relies on the next round's notification (`chk_event_loop.c:135`).
* The timeout of a connector frees it while it is watched (`chk_connector.c:22`),
  and `chk_async_connect` ignores that the loop refused it (line 107): a dial
  without an answer.
* Finalization calls `chk_unwatch_handle` for handles that their `LOOPCLOSE`
  callback has freed (`chk_event_loop_epoll.h:131`), and unregisters the idle
  timer after its manager is gone (`chk_event_loop.c:22`).  `chk_loop_del` in a
  callback outside of INLOOP frees the loop that runs (`chk_event_loop.c:124`).
* An acceptor closed in its own callback is used after that
  (`chk_acceptor.c:67`).
* A signal handler that the loop refuses is released with its reference, which
  is then released again (`luabind/event_loop.h:135`); and a signal that arrives
  while its lock is held by the thread it interrupts spins for ever.
* A second `SetCloseCallBack` is ignored by the socket, but its reference stays
  in the registry (`luabind/socket.h:440`); a socket that has left the loop and
  is started again overwrites the reference of its first callback (222, 587).
  `lost` keeps both, and nothing ever releases them.

Stream socket:

* `close(0)` in the read callback: a write event of the same round is still
  served (`chk_stream_socket.c:537`), so data may leave after the close, while
  the header (line 37) says that what is left is discarded.
* A half close followed by a delayed close drops what waits
  (`chk_stream_socket.c:293`), while the header (line 38) promises to send it.
  `LingersUntilSent` says of every delayed close that it lingers, and names this
  exception (`halved`).
* When the peer has ended the stream, the flush of the last byte leaves the
  write event enabled (`chk_stream_socket.c:374`), although line 372 says that
  with nothing to send there is no listening for writing; and a half close that
  waited for the data sends no end of stream.  `SocketSafe` and `EndOfStream`
  are stated for a peer that has not ended.

Redis client (the faults of `RedisClient`):

* "sent": a send that writes everything at once returns an error
  (`chk_stream_socket.c:496`), so the request is dropped, but its reply comes.
* "sign": an integer cut after its `-` loses the sign (`chk_client.c:290`).
  "nilarray": the elements of the nil array are still to come for the parser,
  which takes the next replies for them.
* "overrun": a status or an error line of 512 bytes or more runs over the end of
  `tmp_buff` (`chk_client.c:86`, 96), of which line 22 says that its size is
  enough.  `ChunkRead` and `RequestGetsItsReply` are about any message up to such
  a line.
* "userdata": the userdata is used after the collection of the client in its own
  callback (`luabind/redis.h:25`).  "unsolicited" would be a reply that nobody
  asked for, which `RedisClientSafe` excludes for a server that answers each
  request once.

Log (the faults of `Log`):

* Files are opened with "w+": a process with a reused pid, or a second rotation
  in one second, overwrites a file (`chk_log.c:226`, 247).
* The child of `chk_thread_new` signals a condition that the parent may have
  destroyed (`chk_thread.c:47`); an entry that could not be allocated is pushed
  as NULL (`chk_log.c:310`, left out of the model).

Packets (the faults of `Packet` and `PacketFields`):

* `do_copy` ignores the starting position (`chk_bytechunk.c:201`) and loses the
  old head (198); a buffer made of chunks appends at position 0 (131); a rewrite
  starts with an uninitialised offset (432); a drain that reads to the end of a
  chunk unlinks it for all who share it (377), so that the decoder's next packet
  is cut short, and leaves `tail` behind (383).
* The header is rewritten in a chunk that a clone shares ("shared"), and always
  at the beginning of the first chunk, also when the bytes of the buffer begin
  behind it ("header", `luabind/packet.h:347`).  A Writer does not look whether
  its buffer has room for a header, or holds something else already.
* The total of a packet wraps (`chk_decoder.c:32`): a length within four of the
  largest makes a total of 0 to 3, which passes the maximum check.  With 0 the
  loop of `process_read` never ends ("endless", `chk_stream_socket.c:418`); with 1
  to 3 the script gets a packet that is shorter than its header, and what a
  Reader has left to read is computed below zero (`packet.h:745`).
* A Reader and a Writer keep a plain pointer to the
  buffer (732, 744).
* Packing `false` writes no byte (538); integers that are not positive go into
  one byte (595); numbers from 2^53 on are rounded; a table that is met twice is
  refused as a cycle (60), and half of it stays in the packet.

## Not modelled, and why

Floating point physics, drawing, texts and vendored code are out of reach or not
worth a model.  Throughout: failing allocations.  In `StreamSocket`: the return
values and the high water mark.  In `TimerWheel`: the debugging build
`TEST_REWINDING`.  In `Arena` and `Vision`: positions, radii, scores and
velocities, which are floating point and for which every outcome is allowed; an
entry message that arrives while the user is in the room; the end of the game,
which is in `Session`; thorns that a split of the index has lost, which are in
`QuadTree`.  In `QuadTree`: balls that are moved within an iteration without an update
of their rectangle (`ball.lua:346`), which is about positions and not about the
index.  In `EventLoop`: the kqueue variant, and how long a round may take.  In
`Handles`: addresses, and the pipe of a signal.  In `RedisClient`: `redis.lua`,
which wraps it in coroutines.  In `RedisCommand`: `append_number`'s `%f`
into 64 bytes.  In `Log`: the text of entries, and two log objects of one name; an
entry counts as `written` also when its file could not be created, since the log
thread passes over it.  In `Packet`:
`chk_buffer_reader`, which the bindings do not use.  The game's stars, the
promises, coroutines, rpc and event handlers of the Lua libraries, the gateway
and the browser client have no model yet; `PROJECT.json`
lists every component with its status and the reason.

Four of the hazards have no property: `rpc.lua:193`, whose module is planned,
and three where the code is as described above and no property of the model can
hold: `user.lua:87`, `chk_stream_socket.c:374`, `chk_client.c:290`.  At others
the properties hold up to a fault at which the model stops, or beside a case that
the code gets wrong; the note of the hazard says so.

## Plan

Done: the runtime below Lua, and of the game its sessions, the room in play and
the index.  Next, in this order:

1. `Stars`: bits, heap, notifications; abstract specification: the client's
   stars.  `MinHeap` as operators against a reference definition.
2. `Rpc` and `Promise`, with the coroutines of `redis.lua` on `RedisClient`: one
   answer per call, late answers.
3. `Gateway`: framing in a buffer of fixed size, relaying goroutines.
4. `Arena` and `Session` composed: the end of a game while a user is on its way
   back.
