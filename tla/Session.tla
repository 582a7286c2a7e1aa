------------------------------- MODULE Session -------------------------------
(***************************************************************************)
(* Accounts, connections, battle users and rooms of the game server:       *)
(* agar/server/user.lua, server.lua and the room bookkeeping of battle.lua *)
(* and battleuser.lua.  The server is one thread: a message callback, a    *)
(* disconnect callback or a room timer runs to its end before the next, so *)
(* each of them is one action.                                             *)
(*                                                                         *)
(* Lua objects are members of User, BattleUser and Room; an object nothing *)
(* reaches any more (the garbage collector's condition) may be allocated   *)
(* again, so a finite pool stands for arbitrarily long runs.               *)
(***************************************************************************)
EXTENDS Naturals

CONSTANTS
  Conn,         \* client connections
  UserID,       \* account numbers a Login may carry, the robots' included
  User,         \* objects made by newUser
  BattleUser,   \* objects made by battleuser.new for a player
  Room,         \* objects made by battle.new
  Nil,          \* Lua's nil
  Robot,        \* any battle user made by ai.new
  MinUserID,    \* 1000: the first number of a real account
  AICount,      \* 20: robots have the numbers 1..AICount
  LoginOnce,    \* TRUE: a peer sends Login once per connection, as agar.html does
  TickMayFail   \* TRUE: a Lua error may escape battle:Update

ASSUME IDAssumption ==
  /\ UserID \subseteq Nat
  /\ MinUserID \in Nat /\ AICount \in Nat /\ AICount < MinUserID
ASSUME ObjectAssumption ==
  /\ Nil \notin Conn \cup User \cup BattleUser \cup Room \cup {Robot}
  /\ Robot \notin BattleUser
ASSUME ModeAssumption == LoginOnce \in BOOLEAN /\ TickMayFail \in BOOLEAN

VARIABLES
  link,               \* "open" while the server holds the connection
  sentLogin,          \* open connections on which the peer has sent a Login
  conn2User,          \* M.conn2User of user.lua
  userID2User,        \* M.userID2User of user.lua
  conn,               \* user.conn
  userID,             \* user.userID
  battleUser,         \* user.battleUser
  userID2BattleUser,  \* M.userID2BattleUser of battle.lua
  player,             \* battleUser.player
  account,            \* battleUser.userID
  battle,             \* battleUser.battle
  battles,            \* M.battles of battle.lua
  users,              \* battle.users of each room
  timer               \* the room's timer: "none", "armed", or "lost" after an error

connVars == <<link, sentLogin, conn2User, userID2User>>
roomVars == <<battles, users, timer>>
avatarVars == <<userID2BattleUser, account, battle>>
vars == <<connVars, conn, userID, battleUser, player, avatarVars, roomVars>>

-----------------------------------------------------------------------------
(* Reachability of the Lua objects. *)

Registered ==
  {u \in User : \/ \E c \in Conn : conn2User[c] = u
                \/ \E i \in UserID : userID2User[i] = u}

LiveBattleUsers ==
  {b \in BattleUser : \/ \E i \in UserID : userID2BattleUser[i] = b
                      \/ \E r \in Room, i \in UserID : users[r][i] = b
                      \/ \E u \in Registered : battleUser[u] = b}

LiveUser(u) ==
  \/ u \in Registered
  \/ \E b \in LiveBattleUsers : player[b] = u

LiveConn(c) ==
  link[c] = "open" \/ conn2User[c] # Nil \/ \E u \in User : LiveUser(u) /\ conn[u] = c

LiveRoom(r) ==
  timer[r] = "armed" \/ \E b \in LiveBattleUsers : battle[b] = r

IsAI(i) == i \in 1 .. AICount

-----------------------------------------------------------------------------
(* What the handlers test and build; each Bug operator is the form of the one *)
(* after it that a slip in that code would give.                              *)


(* Numbers below 1000 are not accounts. *)
LegalNumber(i) == i >= MinUserID


(* The registered user still holds a connection. *)
IsDuplicate(u) == conn[u] # Nil

BugAccountStays(u) == userID2User

(* userID2User without the user that disconnects. *)
ForgetAccount(u) == [userID2User EXCEPT ![userID[u]] = Nil]

BugPlayerStays(u) == player

(* The battle user of a user that disconnects loses its player. *)
DropPlayer(u) ==
  IF battleUser[u] # Nil
  THEN [player EXCEPT ![battleUser[u]] = Nil]
  ELSE player

BugAlwaysNew(i) == Nil

(* The battle user EnterRoom finds for an account. *)
FindBattleUser(i) == userID2BattleUser[i]


(* Who is in the room a player enters: a new room has only its robots. *)
Occupants(r) ==
  IF r \in battles THEN users[r] ELSE [i \in UserID |-> IF IsAI(i) THEN Robot ELSE Nil]

(* The battle users in a room. *)
Members(r) == {users[r][i] : i \in UserID} \cap BattleUser

(* The players of a room that ends are in no battle. *)
ReleasePlayers(r) ==
  LET Players == {player[b] : b \in Members(r)}
  IN [u \in User |-> IF u \in Players THEN Nil ELSE battleUser[u]]

BugAccountsStay(r) == userID2BattleUser

(* The accounts of a room that ends have no battle user. *)
ReleaseAccounts(r) ==
  [i \in UserID |-> IF i \in {account[b] : b \in Members(r)} \/ users[r][i] = Robot
                    THEN Nil ELSE userID2BattleUser[i]]

-----------------------------------------------------------------------------
Init ==
  /\ link = [c \in Conn |-> "closed"]
  /\ sentLogin = {}
  /\ conn2User = [c \in Conn |-> Nil]
  /\ userID2User = [i \in UserID |-> Nil]
  /\ conn = [u \in User |-> Nil]
  /\ userID = [u \in User |-> Nil]
  /\ battleUser = [u \in User |-> Nil]
  /\ userID2BattleUser = [i \in UserID |-> Nil]
  /\ player = [b \in BattleUser |-> Nil]
  /\ account = [b \in BattleUser |-> Nil]
  /\ battle = [b \in BattleUser |-> Nil]
  /\ battles = {}
  /\ users = [r \in Room |-> [i \in UserID |-> Nil]]
  /\ timer = [r \in Room |-> "none"]

(* The listener hands a new connection to the message callback. *)
Accept(c) ==
  /\ ~LiveConn(c)
  /\ link' = [link EXCEPT ![c] = "open"]
  /\ UNCHANGED <<sentLogin, conn2User, userID2User, conn, userID, battleUser, player>>
  /\ UNCHANGED <<avatarVars, roomVars>>

ReceiveLogin(c) ==
  /\ link[c] = "open"
  /\ LoginOnce => c \notin sentLogin
  /\ UNCHANGED <<player, avatarVars, roomVars>>

LoginIllegal(c, i) ==
  /\ ReceiveLogin(c)
  /\ ~LegalNumber(i)
  /\ sentLogin' = sentLogin \cup {c}
  /\ UNCHANGED <<link, conn2User, userID2User, conn, userID, battleUser>>

(* The first login of an account. *)
LoginNew(c, i) ==
  /\ ReceiveLogin(c)
  /\ LegalNumber(i)
  /\ userID2User[i] = Nil
  /\ sentLogin' = sentLogin \cup {c}
  /\ \E u \in User :
       /\ ~LiveUser(u)
       /\ conn' = [conn EXCEPT ![u] = c]
       /\ userID' = [userID EXCEPT ![u] = i]
       /\ battleUser' = [battleUser EXCEPT ![u] = Nil]
       /\ conn2User' = [conn2User EXCEPT ![c] = u]
       /\ userID2User' = [userID2User EXCEPT ![i] = u]
  /\ UNCHANGED link

(* The account is registered: its connection wins and the new one is closed. *)
(* conn:Close() drops the callback first, so no disconnect follows.  The     *)
(* other branch needs a registered user without a connection.                *)
LoginAgain(c, i) ==
  /\ ReceiveLogin(c)
  /\ LegalNumber(i)
  /\ userID2User[i] # Nil
  /\ LET u == userID2User[i] IN
       IF IsDuplicate(u)
       THEN /\ link' = [link EXCEPT ![c] = "closed"]
            /\ sentLogin' = sentLogin \ {c}
            /\ UNCHANGED <<conn2User, conn>>
       ELSE /\ conn' = [conn EXCEPT ![u] = c]
            /\ conn2User' = [conn2User EXCEPT ![c] = u]
            /\ sentLogin' = sentLogin \cup {c}
            /\ UNCHANGED link
  /\ UNCHANGED <<userID2User, userID, battleUser>>

(* EnterBattle of an account whose battle is still on: the same battle user *)
(* gets the new player.                                                      *)
ReEnterRoom(c) ==
  LET u == conn2User[c]
      b == FindBattleUser(userID[u])
  IN /\ link[c] = "open" /\ u # Nil /\ b # Nil
     /\ player' = [player EXCEPT ![b] = u]
     /\ battleUser' = [battleUser EXCEPT ![u] = b]
     /\ UNCHANGED <<connVars, conn, userID, avatarVars, roomVars>>

(* A room of M.battles, or a new one, which nothing adds to M.battles. *)
getFreeRoom(r) ==
  IF battles # {}
  THEN r \in battles /\ UNCHANGED timer
  ELSE ~LiveRoom(r) /\ timer' = [timer EXCEPT ![r] = "armed"]

(* EnterBattle of an account without a battle user. *)
EnterRoom(c) ==
  LET u == conn2User[c]
      i == userID[u]
  IN /\ link[c] = "open" /\ u # Nil /\ FindBattleUser(i) = Nil
     /\ \E b \in BattleUser, r \in Room :
          /\ b \notin LiveBattleUsers
          /\ getFreeRoom(r)
          /\ player' = [player EXCEPT ![b] = u]
          /\ account' = [account EXCEPT ![b] = i]
          /\ battle' = [battle EXCEPT ![b] = r]
          /\ battleUser' = [battleUser EXCEPT ![u] = b]
          /\ userID2BattleUser' = [userID2BattleUser EXCEPT ![i] = b]
          /\ users' = [users EXCEPT ![r] = [Occupants(r) EXCEPT ![i] = b]]
     /\ UNCHANGED <<connVars, conn, userID, battles>>

(* The peer goes away: the account is forgotten, its battle user stays. *)
Disconnect(c) ==
  LET u == conn2User[c]
  IN /\ link[c] = "open"
     /\ link' = [link EXCEPT ![c] = "closed"]
     /\ sentLogin' = sentLogin \ {c}
     /\ IF u # Nil
        THEN /\ conn2User' = [conn2User EXCEPT ![c] = Nil]
             /\ userID2User' = ForgetAccount(u)
             /\ player' = DropPlayer(u)
        ELSE UNCHANGED <<conn2User, userID2User, player>>
     /\ UNCHANGED <<conn, userID, battleUser, avatarVars, roomVars>>

(* battle:Update once the game time is over: every player leaves, the room *)
(* forgets its users and the timer is unregistered.                        *)
GameOver(r) ==
  /\ timer[r] = "armed"
  /\ timer' = [timer EXCEPT ![r] = "none"]
  /\ battleUser' = ReleasePlayers(r)
  /\ player' = [b \in BattleUser |-> IF b \in Members(r) THEN Nil ELSE player[b]]
  /\ userID2BattleUser' = ReleaseAccounts(r)
  /\ users' = [users EXCEPT ![r] = [i \in UserID |-> Nil]]
  /\ battles' = battles \ {r}
  /\ UNCHANGED <<connVars, conn, userID, account, battle>>

(* A Lua error leaves battle:Update: lua_timeout_cb answers -1 and the room *)
(* never ticks again.                                                       *)
TickError(r) ==
  /\ TickMayFail
  /\ timer[r] = "armed"
  /\ timer' = [timer EXCEPT ![r] = "lost"]
  /\ UNCHANGED <<connVars, conn, userID, battleUser, player, avatarVars, battles, users>>

Next ==
  \/ \E c \in Conn : Accept(c)
  \/ \E c \in Conn, i \in UserID : LoginIllegal(c, i)
  \/ \E c \in Conn, i \in UserID : LoginNew(c, i)
  \/ \E c \in Conn, i \in UserID : LoginAgain(c, i)
  \/ \E c \in Conn : ReEnterRoom(c)
  \/ \E c \in Conn : EnterRoom(c)
  \/ \E c \in Conn : Disconnect(c)
  \/ \E r \in Room : GameOver(r)
  \/ \E r \in Room : TickError(r)

Spec == Init /\ [][Next]_vars

(* The event loop runs every timer that is due, so a room whose timer is *)
(* armed reaches its game time.                                          *)
Fairness == \A r \in Room : WF_vars(GameOver(r))
FairSpec == Spec /\ Fairness

-----------------------------------------------------------------------------
(* Types: user.conn is never nil, so the last branch of the login handler *)
(* (user.lua 101-104) is never taken.                                     *)
TypeOK ==
  /\ link \in [Conn -> {"open", "closed"}]
  /\ sentLogin \subseteq Conn
  /\ conn2User \in [Conn -> User \cup {Nil}]
  /\ userID2User \in [UserID -> User \cup {Nil}]
  /\ conn \in [User -> Conn \cup {Nil}]
  /\ userID \in [User -> UserID \cup {Nil}]
  /\ battleUser \in [User -> BattleUser \cup {Nil}]
  /\ userID2BattleUser \in [UserID -> BattleUser \cup {Nil}]
  /\ player \in [BattleUser -> User \cup {Nil}]
  /\ account \in [BattleUser -> UserID \cup {Nil}]
  /\ battle \in [BattleUser -> Room \cup {Nil}]
  /\ battles \subseteq Room
  /\ users \in [Room -> [UserID -> BattleUser \cup {Nil, Robot}]]
  /\ timer \in [Room -> {"none", "armed", "lost"}]

(* A user found by its connection is found by its number too, and holds both: *)
(* a disconnect (user.lua 115-124) removes the entry of that account and of   *)
(* no other.                                                                  *)
ConnOwnsUser ==
  \A c \in Conn : conn2User[c] # Nil =>
    LET u == conn2User[c] IN
      /\ conn[u] = c
      /\ userID[u] \in UserID
      /\ userID2User[userID[u]] = u

(* A registered account is on an open connection that leads back to it, so  *)
(* the account cannot be refused for ever (user.lua 97-100).                *)
NoStaleAccount ==
  \A i \in UserID : userID2User[i] # Nil =>
    LET u == userID2User[i] IN
      /\ userID[u] = i
      /\ conn[u] \in Conn
      /\ conn2User[conn[u]] = u
      /\ link[conn[u]] = "open"

(* The two pointers of a player and its battle user stay inverse through    *)
(* re-entry, disconnect and game over: no room sends to a player that left  *)
(* it, and no player drives a battle user that serves another.              *)
PlayerLink ==
  /\ \A u \in Registered : battleUser[u] # Nil =>
       LET b == battleUser[u] IN
         /\ player[b] = u
         /\ account[b] = userID[u]
         /\ userID2BattleUser[userID[u]] = b
  /\ \A b \in LiveBattleUsers : player[b] # Nil =>
       LET u == player[b] IN u \in Registered /\ battleUser[u] = b

(* An account has one battle user in one room, the one a reconnect finds. *)
OneBattleUser ==
  \A i \in UserID, r \in Room : users[r][i] \in BattleUser =>
    LET b == users[r][i] IN
      /\ userID2BattleUser[i] = b
      /\ account[b] = i
      /\ battle[b] = r

(* A player never takes the place of a robot of its room: real accounts and *)
(* robots share battle.users (battle.lua 155, ai.lua 17).                   *)
RobotsKept ==
  \A r \in Room, i \in UserID : timer[r] = "armed" /\ IsAI(i) => users[r][i] = Robot

(* What a connection, an account, a player and a battle user say of each    *)
(* other agrees, whatever connects, disconnects, enters again or ends.      *)
SessionSafe == TypeOK /\ ConnOwnsUser /\ PlayerLink /\ OneBattleUser /\ RobotsKept

(* A battle user is never dropped or replaced while its room still runs: a   *)
(* lost connection, a relogin and a second EnterBattle keep the player's     *)
(* balls (battle.lua 200-203).                                               *)
BattleUserKept ==
  [][\A i \in UserID : userID2BattleUser[i] # Nil /\ userID2BattleUser'[i] # userID2BattleUser[i]
       => \E r \in Room : timer[r] = "armed" /\ timer'[r] = "none"
                          /\ battle[userID2BattleUser[i]] = r]_vars

(* No account stays in a battle for ever, unless a Lua error ends the ticks *)
(* of its room.                                                             *)
EveryBattleEnds ==
  \A i \in UserID :
    userID2BattleUser[i] # Nil
      ~> \/ userID2BattleUser[i] = Nil
         \/ \E r \in Room : battle[userID2BattleUser[i]] = r /\ timer[r] = "lost"
=============================================================================
