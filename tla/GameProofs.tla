----------------------------- MODULE GameProofs -----------------------------
(***************************************************************************)
(* Proofs about the game: who plays where, for any number of connections,  *)
(* accounts, objects and rooms, and the index that finds what a ball       *)
(* touches, for any number of objects and levels, any limit and any places *)
(* on the map.                                                             *)
(***************************************************************************)
EXTENDS Session, QuadTree, FiniteSetTheorems, TLAPS

(* A registered object carries the number it is registered under, a real one. *)
Numbers ==
  /\ \A i \in UserID : userID2User[i] # Nil =>
       userID[userID2User[i]] = i /\ LegalNumber(i)
  /\ \A i \in UserID : userID2BattleUser[i] # Nil => LegalNumber(i)

(* Robots sit at their own numbers only, and M.battles is never filled. *)
Places ==
  /\ battles = {}
  /\ \A r \in Room, i \in UserID : users[r][i] = Robot => IsAI(i)

(* A registered object holds a connection: user.conn is never cleared. *)
HasConn == \A u \in Registered : conn[u] \in Conn

(* The battle user found by an account is that account's. *)
Owners ==
  \A i \in UserID : userID2BattleUser[i] # Nil => account[userID2BattleUser[i]] = i

IInv == TypeOK /\ Owners /\ HasConn /\ ConnOwnsUser /\ Numbers /\ Places /\ PlayerLink /\ OneBattleUser /\ RobotsKept

-----------------------------------------------------------------------------
LEMMA InitIInv == Init => IInv
BY ObjectAssumption DEF ObjectAssumption, Init, IInv, TypeOK, Owners, HasConn, ConnOwnsUser, Numbers, Places,
  PlayerLink, OneBattleUser, RobotsKept, Registered, LiveBattleUsers

(* The live objects are objects. *)
LEMMA LiveSets ==
  /\ Registered \subseteq User /\ Registered' \subseteq User
  /\ LiveBattleUsers \subseteq BattleUser /\ LiveBattleUsers' \subseteq BattleUser
BY DEF Registered, LiveBattleUsers

(* A registered object is the one of its number, and not a robot's number. *)
LEMMA RegisteredByNumber ==
  ASSUME IInv, NEW u \in Registered
  PROVE  /\ userID[u] \in UserID
         /\ userID2User[userID[u]] = u
         /\ LegalNumber(userID[u])
         /\ ~IsAI(userID[u])
<1>1. u \in User /\ u # Nil
  BY LiveSets, ObjectAssumption DEF ObjectAssumption
<1>2. userID[u] \in UserID /\ userID2User[userID[u]] = u
  <2>1. CASE \E c \in Conn : conn2User[c] = u
    BY <1>1, <2>1 DEF IInv, ConnOwnsUser
  <2>2. CASE \E i \in UserID : userID2User[i] = u
    BY <1>1, <2>2 DEF IInv, Numbers
  <2>3. QED
    BY <2>1, <2>2 DEF Registered
<1>3. LegalNumber(userID[u])
  BY <1>1, <1>2 DEF IInv, Numbers
<1>4. ~IsAI(userID[u])
  BY <1>2, <1>3, IDAssumption DEF IDAssumption, LegalNumber, IsAI
<1>5. QED
  BY <1>2, <1>3, <1>4

-----------------------------------------------------------------------------
(* Types. *)

LEMMA TypeStep == ASSUME IInv, [Next]_vars PROVE TypeOK'
<1> USE DEF TypeOK, connVars, roomVars, avatarVars
<1> TypeOK
  BY DEF IInv
<1>1. ASSUME NEW c \in Conn, Accept(c) PROVE TypeOK'
  BY <1>1 DEF Accept
<1>2. ASSUME NEW c \in Conn, NEW i \in UserID, LoginIllegal(c, i) PROVE TypeOK'
  BY <1>2 DEF LoginIllegal, ReceiveLogin
<1>3. ASSUME NEW c \in Conn, NEW i \in UserID, LoginNew(c, i) PROVE TypeOK'
  <2> PICK u \in User :
        /\ conn' = [conn EXCEPT ![u] = c]
        /\ userID' = [userID EXCEPT ![u] = i]
        /\ battleUser' = [battleUser EXCEPT ![u] = Nil]
        /\ conn2User' = [conn2User EXCEPT ![c] = u]
        /\ userID2User' = [userID2User EXCEPT ![i] = u]
    BY <1>3 DEF LoginNew
  <2> QED
    BY <1>3 DEF LoginNew, ReceiveLogin
<1>4. ASSUME NEW c \in Conn, NEW i \in UserID, LoginAgain(c, i) PROVE TypeOK'
  <2> userID2User[i] \in User
    BY <1>4 DEF LoginAgain
  <2> QED
    BY <1>4 DEF LoginAgain, ReceiveLogin
<1>5. ASSUME NEW c \in Conn, ReEnterRoom(c) PROVE TypeOK'
  <2> DEFINE u == conn2User[c]
             b == userID2BattleUser[userID[u]]
  <2>1. u \in User /\ b # Nil
    BY <1>5 DEF ReEnterRoom, FindBattleUser
  <2>2. userID[u] \in UserID
    BY <2>1, RegisteredByNumber DEF Registered
  <2>3. b \in BattleUser
    BY <2>1, <2>2
  <2>4. /\ player' = [player EXCEPT ![b] = u]
        /\ battleUser' = [battleUser EXCEPT ![u] = b]
        /\ UNCHANGED <<connVars, conn, userID, avatarVars, roomVars>>
    BY <1>5 DEF ReEnterRoom, FindBattleUser
  <2> HIDE DEF u, b
  <2>5. QED
    BY <2>1, <2>3, <2>4
<1>6. ASSUME NEW c \in Conn, EnterRoom(c) PROVE TypeOK'
  <2> DEFINE u == conn2User[c]
             i == userID[u]
  <2>1. u \in User
    BY <1>6 DEF EnterRoom
  <2>2. i \in UserID
    BY <2>1, RegisteredByNumber DEF Registered
  <2>3. PICK b \in BattleUser, r \in Room :
          /\ getFreeRoom(r)
          /\ player' = [player EXCEPT ![b] = u]
          /\ account' = [account EXCEPT ![b] = i]
          /\ battle' = [battle EXCEPT ![b] = r]
          /\ battleUser' = [battleUser EXCEPT ![u] = b]
          /\ userID2BattleUser' = [userID2BattleUser EXCEPT ![i] = b]
          /\ users' = [users EXCEPT ![r] = [Occupants(r) EXCEPT ![i] = b]]
    BY <1>6 DEF EnterRoom
  <2>4. Occupants(r) \in [UserID -> BattleUser \cup {Nil, Robot}]
    BY DEF Occupants
  <2>5. UNCHANGED <<connVars, conn, userID, battles>>
    BY <1>6 DEF EnterRoom
  <2> HIDE DEF u, i
  <2>6. timer' \in [Room -> {"none", "armed", "lost"}]
    BY <2>3 DEF getFreeRoom
  <2>7. QED
    BY <2>1, <2>2, <2>3, <2>4, <2>5, <2>6
<1>7. ASSUME NEW c \in Conn, Disconnect(c) PROVE TypeOK'
  BY <1>7 DEF Disconnect, ForgetAccount, DropPlayer
<1>8. ASSUME NEW r \in Room, GameOver(r) PROVE TypeOK'
  BY <1>8 DEF GameOver, ReleasePlayers, ReleaseAccounts
<1>9. ASSUME NEW r \in Room, TickError(r) PROVE TypeOK'
  BY <1>9 DEF TickError
<1>10. CASE UNCHANGED vars
  BY <1>10 DEF vars
<1>11. QED
  BY <1>1, <1>2, <1>3, <1>4, <1>5, <1>6, <1>7, <1>8, <1>9, <1>10 DEF Next

-----------------------------------------------------------------------------
(* The inductive invariant, action by action. *)

LEMMA QuietStep ==
  ASSUME IInv, UNCHANGED <<conn2User, userID2User, conn, userID, battleUser, player, avatarVars,
                           battles, users>>,
         \A r \in Room : timer'[r] = "armed" => timer[r] = "armed"
  PROVE  TypeOK' => IInv'
BY DEF IInv, Owners, HasConn, ConnOwnsUser, Numbers, Places, PlayerLink, OneBattleUser, RobotsKept,
       Registered, LiveBattleUsers, avatarVars, LegalNumber, IsAI

LEMMA LoginNewStep ==
  ASSUME IInv, TypeOK', NEW c \in Conn, NEW i \in UserID, LoginNew(c, i)
  PROVE  IInv'
<1> PICK u \in User :
      /\ ~LiveUser(u)
      /\ conn' = [conn EXCEPT ![u] = c]
      /\ userID' = [userID EXCEPT ![u] = i]
      /\ battleUser' = [battleUser EXCEPT ![u] = Nil]
      /\ conn2User' = [conn2User EXCEPT ![c] = u]
      /\ userID2User' = [userID2User EXCEPT ![i] = u]
  BY DEF LoginNew
<1> LegalNumber(i) /\ userID2User[i] = Nil
    /\ UNCHANGED <<player, userID2BattleUser, account, battle, battles, users, timer>>
  BY DEF LoginNew, ReceiveLogin, avatarVars, roomVars
<1> TypeOK /\ u # Nil
  BY ObjectAssumption DEF IInv, ObjectAssumption
<1>1. u \notin Registered /\ \A b \in LiveBattleUsers : player[b] # u
  BY DEF LiveUser
<1>2. \A v \in User : v # u => (v \in Registered' => v \in Registered)
  BY DEF Registered, TypeOK
<1>3. LiveBattleUsers' \subseteq LiveBattleUsers
  <2> SUFFICES ASSUME NEW b \in BattleUser, NEW v \in Registered', battleUser'[v] = b
               PROVE  v \in Registered /\ battleUser[v] = b
    BY DEF LiveBattleUsers
  <2>1. v \in User /\ b # Nil
    BY LiveSets, ObjectAssumption DEF ObjectAssumption
  <2>2. v # u
    BY <2>1 DEF TypeOK
  <2>3. QED
    BY <1>2, <2>1, <2>2 DEF TypeOK
<1>4. ConnOwnsUser'
  BY <1>1 DEF IInv, ConnOwnsUser, Registered, TypeOK
<1>5. Numbers'
  BY <1>1 DEF IInv, Numbers, Registered, TypeOK, LegalNumber
<1>6. PlayerLink'
  <2>1. ASSUME NEW v \in Registered', battleUser'[v] # Nil
        PROVE  /\ player'[battleUser'[v]] = v
               /\ account'[battleUser'[v]] = userID'[v]
               /\ userID2BattleUser'[userID'[v]] = battleUser'[v]
    BY <1>2, <2>1, LiveSets DEF IInv, PlayerLink, TypeOK
  <2>2. ASSUME NEW b \in LiveBattleUsers', player'[b] # Nil
        PROVE  player'[b] \in Registered' /\ battleUser'[player'[b]] = b
    <3>1. b \in LiveBattleUsers /\ player[b] \in User /\ player[b] # u
      BY <1>1, <1>3, <2>2, LiveSets DEF TypeOK
    <3>2. player[b] \in Registered /\ battleUser[player[b]] = b
      BY <2>2, <3>1 DEF IInv, PlayerLink
    <3>3. player[b] \in Registered'
      <4>1. userID[player[b]] \in UserID /\ userID2User[userID[player[b]]] = player[b]
        BY <3>1, <3>2, RegisteredByNumber
      <4>2. userID2User'[userID[player[b]]] = player[b]
        BY <2>2, <3>1, <4>1 DEF TypeOK
      <4>3. QED
        BY <3>1, <4>1, <4>2 DEF Registered
    <3>4. QED
      BY <3>1, <3>2, <3>3 DEF TypeOK
  <2>3. QED
    BY <2>1, <2>2 DEF PlayerLink
<1>7. Places' /\ Owners' /\ OneBattleUser' /\ RobotsKept'
  BY DEF IInv, Places, Owners, OneBattleUser, RobotsKept, IsAI
<1>8. HasConn'
  BY <1>2, LiveSets DEF IInv, HasConn, TypeOK
<1>9. QED
  BY <1>4, <1>5, <1>6, <1>7, <1>8 DEF IInv

LEMMA LoginAgainStep ==
  ASSUME IInv, TypeOK', NEW c \in Conn, NEW i \in UserID, LoginAgain(c, i)
  PROVE  IInv'
<1> DEFINE u == userID2User[i]
<1>1. u \in User /\ u \in Registered
  BY DEF LoginAgain, Registered, IInv, TypeOK
<1>2. IsDuplicate(u)
  BY <1>1, ObjectAssumption DEF IInv, HasConn, IsDuplicate, ObjectAssumption
<1>3. UNCHANGED <<conn2User, userID2User, conn, userID, battleUser, player, avatarVars, battles,
                  users, timer>>
  BY <1>1, <1>2 DEF LoginAgain, ReceiveLogin, roomVars
<1>4. QED
  BY <1>3, QuietStep

LEMMA ReEnterRoomStep ==
  ASSUME IInv, TypeOK', NEW c \in Conn, ReEnterRoom(c)
  PROVE  IInv'
<1>1. PICK u \in User : conn2User[c] = u
  BY DEF ReEnterRoom, IInv, TypeOK
<1>2. u \in Registered
  BY <1>1 DEF Registered
<1>3. PICK i \in UserID : i = userID[u]
  BY <1>2, RegisteredByNumber
<1>4. userID2User[i] = u
  BY <1>2, <1>3, RegisteredByNumber
<1>5. PICK b \in BattleUser : b = userID2BattleUser[i]
  BY <1>1, <1>3 DEF ReEnterRoom, FindBattleUser, IInv, TypeOK
<1>6. /\ player' = [player EXCEPT ![b] = u]
      /\ battleUser' = [battleUser EXCEPT ![u] = b]
      /\ UNCHANGED <<conn2User, userID2User, conn, userID, userID2BattleUser, account, battle,
                     battles, users, timer>>
  BY <1>1, <1>3, <1>5 DEF ReEnterRoom, FindBattleUser, connVars, avatarVars, roomVars
<1> USE ObjectAssumption DEF ObjectAssumption
<1> TypeOK
  BY DEF IInv
<1>7. b \in LiveBattleUsers
  BY <1>5 DEF LiveBattleUsers
<1>8. Registered' = Registered /\ LiveBattleUsers' \subseteq LiveBattleUsers
  <2>1. Registered' = Registered
    BY <1>6 DEF Registered
  <2>2. QED
    BY <1>6, <1>7, <2>1, LiveSets DEF LiveBattleUsers, TypeOK
<1>9. account[b] = i
  BY <1>5 DEF IInv, Owners
<1>10. player[b] \in {u, Nil}
  <2> SUFFICES ASSUME player[b] # Nil PROVE player[b] = u
    OBVIOUS
  <2> DEFINE v == player[b]
  <2>1. v \in Registered /\ battleUser[v] = b
    BY <1>7 DEF IInv, PlayerLink
  <2>2. account[b] = userID[v]
    BY <2>1 DEF IInv, PlayerLink
  <2>3. QED
    BY <1>4, <1>9, <2>1, <2>2, RegisteredByNumber
<1>11. battleUser[u] \in {b, Nil}
  BY <1>2, <1>3, <1>5 DEF IInv, PlayerLink
<1>12. PlayerLink'
  <2>1. ASSUME NEW v \in Registered', battleUser'[v] # Nil
        PROVE  /\ player'[battleUser'[v]] = v
               /\ account'[battleUser'[v]] = userID'[v]
               /\ userID2BattleUser'[userID'[v]] = battleUser'[v]
    <3>1. CASE v = u
      BY <3>1, <1>3, <1>5, <1>6, <1>9 DEF TypeOK
    <3>2. CASE v # u
      <4>1. v \in Registered /\ battleUser'[v] = battleUser[v]
        BY <1>6, <1>8, <3>2
      <4>2. player[battleUser[v]] = v /\ battleUser[v] # b
        BY <1>10, <2>1, <3>2, <4>1, LiveSets DEF IInv, PlayerLink
      <4>3. QED
        BY <1>6, <2>1, <4>1, <4>2 DEF IInv, PlayerLink
    <3>3. QED
      BY <3>1, <3>2
  <2>2. ASSUME NEW d \in LiveBattleUsers', player'[d] # Nil
        PROVE  player'[d] \in Registered' /\ battleUser'[player'[d]] = d
    <3>1. CASE d = b
      BY <3>1, <1>2, <1>6, <1>8 DEF TypeOK
    <3>2. CASE d # b
      <4>1. d \in LiveBattleUsers /\ player'[d] = player[d]
        BY <1>6, <1>8, <3>2
      <4>2. player[d] \in Registered /\ battleUser[player[d]] = d
        BY <2>2, <4>1 DEF IInv, PlayerLink
      <4>3. player[d] # u
        BY <1>11, <3>2, <4>1, <4>2, LiveSets
      <4>4. QED
        BY <1>6, <1>8, <4>1, <4>2, <4>3
    <3>3. QED
      BY <3>1, <3>2
  <2>3. QED
    BY <2>1, <2>2 DEF PlayerLink
<1>13. HasConn' /\ ConnOwnsUser' /\ Numbers' /\ Places' /\ Owners' /\ OneBattleUser' /\ RobotsKept'
  BY <1>6, <1>8 DEF IInv, HasConn, ConnOwnsUser, Numbers, Places, Owners, OneBattleUser, RobotsKept
<1>14. QED
  BY <1>12, <1>13 DEF IInv

LEMMA EnterRoomStep ==
  ASSUME IInv, TypeOK', NEW c \in Conn, EnterRoom(c)
  PROVE  IInv'
<1>1. PICK u \in User : conn2User[c] = u
  BY DEF EnterRoom, IInv, TypeOK
<1>2. u \in Registered
  BY <1>1 DEF Registered
<1>3. PICK i \in UserID : i = userID[u]
  BY <1>2, RegisteredByNumber
<1>4. LegalNumber(i) /\ ~IsAI(i)
  BY <1>2, <1>3, RegisteredByNumber
<1>5. userID2BattleUser[i] = Nil
  BY <1>1, <1>3 DEF EnterRoom, FindBattleUser
<1>6. PICK b \in BattleUser, r \in Room :
        /\ b \notin LiveBattleUsers
        /\ getFreeRoom(r)
        /\ player' = [player EXCEPT ![b] = u]
        /\ account' = [account EXCEPT ![b] = i]
        /\ battle' = [battle EXCEPT ![b] = r]
        /\ battleUser' = [battleUser EXCEPT ![u] = b]
        /\ userID2BattleUser' = [userID2BattleUser EXCEPT ![i] = b]
        /\ users' = [users EXCEPT ![r] = [Occupants(r) EXCEPT ![i] = b]]
  BY <1>1, <1>3 DEF EnterRoom
<1>7. UNCHANGED <<conn2User, userID2User, conn, userID, battles>>
  BY DEF EnterRoom, connVars
<1> USE ObjectAssumption DEF ObjectAssumption
<1> TypeOK
  BY DEF IInv
<1>8. Registered' = Registered
  BY <1>7 DEF Registered
<1>9. users'[r] = [j \in UserID |-> IF j = i THEN b ELSE IF IsAI(j) THEN Robot ELSE Nil]
      /\ \A q \in Room : q # r => users'[q] = users[q]
  <2>1. Occupants(r) = [j \in UserID |-> IF IsAI(j) THEN Robot ELSE Nil]
    BY DEF IInv, Places, Occupants
  <2>2. users'[r] = [Occupants(r) EXCEPT ![i] = b]
    BY <1>6 DEF TypeOK
  <2>3. \A q \in Room : q # r => users'[q] = users[q]
    BY <1>6 DEF TypeOK
  <2>4. QED
    BY <2>1, <2>2, <2>3
<1>10. \A d \in LiveBattleUsers' : d # b => d \in LiveBattleUsers
  <2> SUFFICES ASSUME NEW d \in BattleUser, d \in LiveBattleUsers', d # b
               PROVE  d \in LiveBattleUsers
    BY LiveSets
  <2>1. CASE \E j \in UserID : userID2BattleUser'[j] = d
    BY <1>6, <2>1 DEF LiveBattleUsers, TypeOK
  <2>2. CASE \E q \in Room, j \in UserID : users'[q][j] = d
    BY <1>9, <2>2 DEF LiveBattleUsers
  <2>3. CASE \E v \in Registered' : battleUser'[v] = d
    BY <1>6, <1>8, <2>3, LiveSets DEF LiveBattleUsers, TypeOK
  <2>4. QED
    BY <2>1, <2>2, <2>3 DEF LiveBattleUsers
<1>11. \A j \in UserID : userID2BattleUser[j] # Nil => userID2BattleUser[j] \in LiveBattleUsers
  BY DEF LiveBattleUsers, TypeOK
<1>12. battleUser[u] = Nil
  BY <1>2, <1>3, <1>5, LiveSets DEF IInv, PlayerLink
<1>13. PlayerLink'
  <2>1. ASSUME NEW v \in Registered', battleUser'[v] # Nil
        PROVE  /\ player'[battleUser'[v]] = v
               /\ account'[battleUser'[v]] = userID'[v]
               /\ userID2BattleUser'[userID'[v]] = battleUser'[v]
    <3>1. CASE v = u
      BY <3>1, <1>3, <1>6, <1>7 DEF TypeOK
    <3>2. CASE v # u
      <4>1. v \in Registered /\ battleUser'[v] = battleUser[v]
        BY <1>6, <1>8, <3>2
      <4>2. /\ player[battleUser[v]] = v
            /\ account[battleUser[v]] = userID[v]
            /\ userID2BattleUser[userID[v]] = battleUser[v]
        BY <2>1, <4>1 DEF IInv, PlayerLink
      <4>3. userID[v] \in UserID /\ userID[v] # i /\ battleUser[v] # b
        BY <1>5, <1>6, <1>11, <2>1, <4>1, <4>2, RegisteredByNumber
      <4>4. QED
        BY <1>6, <1>7, <4>1, <4>2, <4>3
    <3>3. QED
      BY <3>1, <3>2
  <2>2. ASSUME NEW d \in LiveBattleUsers', player'[d] # Nil
        PROVE  player'[d] \in Registered' /\ battleUser'[player'[d]] = d
    <3>1. CASE d = b
      BY <3>1, <1>2, <1>6, <1>8 DEF TypeOK
    <3>2. CASE d # b
      <4>1. d \in LiveBattleUsers /\ player'[d] = player[d]
        BY <1>6, <1>10, <3>2
      <4>2. player[d] \in Registered /\ battleUser[player[d]] = d
        BY <2>2, <4>1 DEF IInv, PlayerLink
      <4>3. player[d] # u
        BY <1>12, <4>1, <4>2, LiveSets
      <4>4. QED
        BY <1>6, <1>8, <4>1, <4>2, <4>3
    <3>3. QED
      BY <3>1, <3>2
  <2>3. QED
    BY <2>1, <2>2 DEF PlayerLink
<1>14. OneBattleUser'
  <2> SUFFICES ASSUME NEW j \in UserID, NEW q \in Room, users'[q][j] \in BattleUser
               PROVE  /\ userID2BattleUser'[j] = users'[q][j]
                      /\ account'[users'[q][j]] = j
                      /\ battle'[users'[q][j]] = q
    BY DEF OneBattleUser
  <2>1. CASE q = r
    <3>1. j = i /\ users'[q][j] = b
      BY <2>1, <1>9
    <3>2. QED
      BY <2>1, <3>1, <1>6 DEF TypeOK
  <2>2. CASE q # r
    <3>1. users'[q][j] = users[q][j]
      BY <1>9, <2>2
    <3>2. /\ userID2BattleUser[j] = users[q][j]
          /\ account[users[q][j]] = j
          /\ battle[users[q][j]] = q
      BY <3>1 DEF IInv, OneBattleUser
    <3>3. j # i /\ users[q][j] # b
      BY <1>5, <1>6, <1>11, <3>1, <3>2
    <3>4. QED
      BY <1>6, <3>1, <3>2, <3>3
  <2>3. QED
    BY <2>1, <2>2
<1>15. RobotsKept'
  <2>1. \A q \in Room : q # r => (timer'[q] = "armed" => timer[q] = "armed")
    BY <1>6 DEF getFreeRoom, TypeOK
  <2>2. QED
    BY <1>4, <1>9, <2>1 DEF IInv, RobotsKept, IsAI
<1>16. Places'
  BY <1>7, <1>9 DEF IInv, Places, IsAI
<1>17. Owners'
  <2> SUFFICES ASSUME NEW j \in UserID, userID2BattleUser'[j] # Nil
               PROVE  account'[userID2BattleUser'[j]] = j
    BY DEF Owners
  <2>1. CASE j = i
    BY <1>6, <2>1 DEF TypeOK
  <2>2. CASE j # i
    <3>1. userID2BattleUser'[j] = userID2BattleUser[j] /\ userID2BattleUser[j] # b
      BY <1>6, <1>11, <2>2 DEF TypeOK
    <3>2. QED
      BY <1>6, <3>1 DEF IInv, Owners, TypeOK
  <2>3. QED
    BY <2>1, <2>2
<1>18. Numbers'
  <2>1. \A j \in UserID : userID2BattleUser'[j] # Nil => LegalNumber(j)
    BY <1>4, <1>6 DEF IInv, Numbers, TypeOK
  <2>2. QED
    BY <1>7, <2>1 DEF IInv, Numbers, LegalNumber
<1>19. HasConn' /\ ConnOwnsUser'
  BY <1>7, <1>8 DEF IInv, HasConn, ConnOwnsUser
<1>20. QED
  BY <1>13, <1>14, <1>15, <1>16, <1>17, <1>18, <1>19 DEF IInv

LEMMA DisconnectStep ==
  ASSUME IInv, TypeOK', NEW c \in Conn, Disconnect(c)
  PROVE  IInv'
<1>1. CASE conn2User[c] = Nil
  <2>1. UNCHANGED <<conn2User, userID2User, conn, userID, battleUser, player, avatarVars, battles,
                    users, timer>>
    BY <1>1 DEF Disconnect, roomVars
  <2>2. QED
    BY <2>1, QuietStep
<1>2. CASE conn2User[c] # Nil
  <2> USE ObjectAssumption DEF ObjectAssumption
  <2> TypeOK
    BY DEF IInv
  <2>1. PICK u \in User : conn2User[c] = u
    BY <1>2 DEF TypeOK
  <2>2. u \in Registered
    BY <2>1 DEF Registered
  <2>3. conn[u] = c
    BY <1>2, <2>1 DEF IInv, ConnOwnsUser
  <2>4. PICK i \in UserID : i = userID[u]
    BY <2>2, RegisteredByNumber
  <2>5. /\ conn2User' = [conn2User EXCEPT ![c] = Nil]
        /\ userID2User' = [userID2User EXCEPT ![i] = Nil]
        /\ player' = DropPlayer(u)
        /\ UNCHANGED <<conn, userID, battleUser, userID2BattleUser, account, battle, battles,
                       users, timer>>
    BY <1>2, <2>1, <2>4 DEF Disconnect, ForgetAccount, avatarVars, roomVars
  <2>6. \A v \in User : v \in Registered' <=> v \in Registered /\ v # u
    <3> SUFFICES ASSUME NEW v \in User PROVE v \in Registered' <=> v \in Registered /\ v # u
      OBVIOUS
    <3>1. ASSUME v \in Registered' PROVE v \in Registered /\ v # u
      <4>1. CASE \E d \in Conn : conn2User'[d] = v
        BY <2>3, <2>5, <4>1 DEF Registered, TypeOK, IInv, ConnOwnsUser
      <4>2. CASE \E j \in UserID : userID2User'[j] = v
        BY <2>4, <2>5, <4>2 DEF Registered, TypeOK, IInv, Numbers
      <4>3. QED
        BY <3>1, <4>1, <4>2 DEF Registered
    <3>2. ASSUME v \in Registered, v # u PROVE v \in Registered'
      <4>1. userID[v] \in UserID /\ userID2User[userID[v]] = v /\ userID2User[i] = u
        BY <2>2, <2>4, <3>2, RegisteredByNumber
      <4>2. userID2User'[userID[v]] = v
        BY <2>5, <3>2, <4>1 DEF TypeOK
      <4>3. QED
        BY <4>1, <4>2 DEF Registered
    <3>3. QED
      BY <3>1, <3>2
  <2>7. LiveBattleUsers' \subseteq LiveBattleUsers
    BY <2>5, <2>6, LiveSets DEF LiveBattleUsers
  <2>8. \A b \in BattleUser :
           player'[b] = IF b = battleUser[u] THEN Nil ELSE player[b]
    BY <2>5 DEF DropPlayer, TypeOK
  <2>9. ConnOwnsUser'
    <3> SUFFICES ASSUME NEW d \in Conn, conn2User'[d] # Nil
                 PROVE  /\ conn'[conn2User'[d]] = d
                        /\ userID'[conn2User'[d]] \in UserID
                        /\ userID2User'[userID'[conn2User'[d]]] = conn2User'[d]
      BY DEF ConnOwnsUser
    <3>1. d # c /\ conn2User'[d] = conn2User[d] /\ conn2User[d] \in User
      BY <2>5 DEF TypeOK
    <3>2. /\ conn[conn2User[d]] = d
          /\ userID[conn2User[d]] \in UserID
          /\ userID2User[userID[conn2User[d]]] = conn2User[d]
      BY <3>1 DEF IInv, ConnOwnsUser
    <3>3. userID[conn2User[d]] # i
      BY <2>2, <2>3, <2>4, <3>1, <3>2, RegisteredByNumber
    <3>4. QED
      BY <2>5, <3>1, <3>2, <3>3
  <2>10. PlayerLink'
    <3>1. ASSUME NEW v \in Registered', battleUser'[v] # Nil
          PROVE  /\ player'[battleUser'[v]] = v
                 /\ account'[battleUser'[v]] = userID'[v]
                 /\ userID2BattleUser'[userID'[v]] = battleUser'[v]
      <4>1. v \in Registered /\ v # u
        BY <2>6, LiveSets
      <4>2. battleUser[v] \in BattleUser /\ player[battleUser[v]] = v
        BY <2>5, <3>1, <4>1, LiveSets DEF IInv, PlayerLink, TypeOK
      <4>3. battleUser[v] # battleUser[u]
        BY <2>2, <4>1, <4>2, LiveSets DEF IInv, PlayerLink
      <4>4. QED
        BY <2>5, <2>8, <3>1, <4>1, <4>2, <4>3 DEF IInv, PlayerLink
    <3>2. ASSUME NEW d \in LiveBattleUsers', player'[d] # Nil
          PROVE  player'[d] \in Registered' /\ battleUser'[player'[d]] = d
      <4>1. d \in LiveBattleUsers /\ d \in BattleUser /\ d # battleUser[u] /\ player'[d] = player[d]
        BY <2>7, <2>8, <3>2, LiveSets
      <4>2. player[d] \in Registered /\ battleUser[player[d]] = d
        BY <3>2, <4>1 DEF IInv, PlayerLink
      <4>3. QED
        BY <2>5, <2>6, <4>1, <4>2, LiveSets
    <3>3. QED
      BY <3>1, <3>2 DEF PlayerLink
  <2>11. HasConn' /\ Numbers' /\ Places' /\ Owners' /\ OneBattleUser' /\ RobotsKept'
    BY <2>5, <2>6, LiveSets
    DEF IInv, HasConn, Numbers, Places, Owners, OneBattleUser, RobotsKept, TypeOK, LegalNumber
  <2>12. QED
    BY <2>9, <2>10, <2>11 DEF IInv
<1>3. QED
  BY <1>1, <1>2

LEMMA GameOverStep ==
  ASSUME IInv, TypeOK', NEW r \in Room, GameOver(r)
  PROVE  IInv'
<1> USE ObjectAssumption DEF ObjectAssumption
<1> TypeOK
  BY DEF IInv
<1>1. /\ timer' = [timer EXCEPT ![r] = "none"]
      /\ users' = [users EXCEPT ![r] = [i \in UserID |-> Nil]]
      /\ battles' = battles \ {r}
      /\ UNCHANGED <<conn2User, userID2User, conn, userID, account, battle>>
  BY DEF GameOver, connVars
<1>2. \A b \in BattleUser : player'[b] = IF b \in Members(r) THEN Nil ELSE player[b]
  BY DEF GameOver
<1>3. \A u \in User :
        battleUser'[u] = IF \E b \in Members(r) : player[b] = u THEN Nil ELSE battleUser[u]
  BY DEF GameOver, ReleasePlayers
<1>4. \A b \in Members(r) :
        b \in LiveBattleUsers /\ account[b] \in UserID /\ userID2BattleUser[account[b]] = b
  BY DEF Members, LiveBattleUsers, IInv, OneBattleUser
<1>5. \A i \in UserID : userID2BattleUser'[i] \in {userID2BattleUser[i], Nil}
  BY DEF GameOver, ReleaseAccounts
<1>6. \A i \in UserID : userID2BattleUser[i] # Nil /\ userID2BattleUser[i] \notin Members(r)
        => userID2BattleUser'[i] = userID2BattleUser[i]
  <2> SUFFICES ASSUME NEW i \in UserID, userID2BattleUser[i] # Nil,
                      userID2BattleUser[i] \notin Members(r)
               PROVE  userID2BattleUser'[i] = userID2BattleUser[i]
    OBVIOUS
  <2>1. users[r][i] # Robot
    BY IDAssumption DEF IDAssumption, IInv, Numbers, Places, IsAI, LegalNumber
  <2>2. \A b \in Members(r) : account[b] # i
    BY <1>4
  <2>3. QED
    BY <2>1, <2>2 DEF GameOver, ReleaseAccounts
<1>7. Registered' = Registered
  BY <1>1 DEF Registered
<1>8. LiveBattleUsers' \subseteq LiveBattleUsers
  <2> SUFFICES ASSUME NEW b \in BattleUser, b \in LiveBattleUsers' PROVE b \in LiveBattleUsers
    BY LiveSets
  <2>1. CASE \E i \in UserID : userID2BattleUser'[i] = b
    BY <1>5, <2>1 DEF LiveBattleUsers
  <2>2. CASE \E q \in Room, i \in UserID : users'[q][i] = b
    BY <1>1, <2>2 DEF LiveBattleUsers, TypeOK
  <2>3. CASE \E u \in Registered' : battleUser'[u] = b
    BY <1>3, <1>7, <2>3, LiveSets DEF LiveBattleUsers
  <2>4. QED
    BY <2>1, <2>2, <2>3 DEF LiveBattleUsers
<1>9. PlayerLink'
  <2>1. ASSUME NEW u \in Registered', battleUser'[u] # Nil
        PROVE  /\ player'[battleUser'[u]] = u
               /\ account'[battleUser'[u]] = userID'[u]
               /\ userID2BattleUser'[userID'[u]] = battleUser'[u]
    <3>1. u \in Registered /\ u \in User
      BY <1>7, LiveSets
    <3>2. battleUser'[u] = battleUser[u] /\ \A b \in Members(r) : player[b] # u
      BY <1>3, <2>1, <3>1
    <3>3. /\ battleUser[u] \in BattleUser
          /\ player[battleUser[u]] = u
          /\ account[battleUser[u]] = userID[u]
          /\ userID2BattleUser[userID[u]] = battleUser[u]
      BY <2>1, <3>1, <3>2 DEF IInv, PlayerLink, TypeOK
    <3>4. battleUser[u] \notin Members(r) /\ userID[u] \in UserID
      BY <3>1, <3>2, <3>3, RegisteredByNumber
    <3>5. QED
      BY <1>1, <1>2, <1>6, <3>2, <3>3, <3>4
  <2>2. ASSUME NEW b \in LiveBattleUsers', player'[b] # Nil
        PROVE  player'[b] \in Registered' /\ battleUser'[player'[b]] = b
    <3>1. b \in LiveBattleUsers /\ b \in BattleUser /\ b \notin Members(r) /\ player'[b] = player[b]
      BY <1>2, <1>8, <2>2, LiveSets
    <3>2. player[b] \in Registered /\ battleUser[player[b]] = b
      BY <2>2, <3>1 DEF IInv, PlayerLink
    <3>3. \A d \in Members(r) : player[d] # player[b]
      BY <1>4, <3>1, <3>2, <2>2 DEF IInv, PlayerLink
    <3>4. QED
      BY <1>3, <1>7, <3>1, <3>2, <3>3, LiveSets
  <2>3. QED
    BY <2>1, <2>2 DEF PlayerLink
<1>10. OneBattleUser'
  <2> SUFFICES ASSUME NEW i \in UserID, NEW q \in Room, users'[q][i] \in BattleUser
               PROVE  /\ userID2BattleUser'[i] = users'[q][i]
                      /\ account'[users'[q][i]] = i
                      /\ battle'[users'[q][i]] = q
    BY DEF OneBattleUser
  <2>1. q # r /\ users'[q][i] = users[q][i]
    BY <1>1 DEF TypeOK
  <2>2. userID2BattleUser[i] = users[q][i] /\ account[users[q][i]] = i /\ battle[users[q][i]] = q
    BY <2>1 DEF IInv, OneBattleUser
  <2>3. users[q][i] \notin Members(r)
    BY <2>1, <2>2 DEF Members, IInv, OneBattleUser
  <2>4. QED
    BY <1>1, <1>6, <2>1, <2>2, <2>3
<1>11. RobotsKept' /\ Places'
  BY <1>1 DEF IInv, RobotsKept, Places, TypeOK, IsAI
<1>12. Numbers' /\ Owners'
  BY <1>1, <1>5 DEF IInv, Numbers, Owners, LegalNumber
<1>13. HasConn' /\ ConnOwnsUser'
  BY <1>1, <1>7 DEF IInv, HasConn, ConnOwnsUser
<1>14. QED
  BY <1>9, <1>10, <1>11, <1>12, <1>13 DEF IInv

LEMMA NextIInv == ASSUME IInv, [Next]_vars PROVE IInv'
<1> TypeOK'
  BY TypeStep
<1>1. ASSUME NEW c \in Conn, Accept(c) PROVE IInv'
  BY <1>1, QuietStep DEF Accept, roomVars
<1>2. ASSUME NEW c \in Conn, NEW i \in UserID, LoginIllegal(c, i) PROVE IInv'
  BY <1>2, QuietStep DEF LoginIllegal, ReceiveLogin, roomVars
<1>3. ASSUME NEW c \in Conn, NEW i \in UserID, LoginNew(c, i) PROVE IInv'
  BY <1>3, LoginNewStep
<1>4. ASSUME NEW c \in Conn, NEW i \in UserID, LoginAgain(c, i) PROVE IInv'
  BY <1>4, LoginAgainStep
<1>5. ASSUME NEW c \in Conn, ReEnterRoom(c) PROVE IInv'
  BY <1>5, ReEnterRoomStep
<1>6. ASSUME NEW c \in Conn, EnterRoom(c) PROVE IInv'
  BY <1>6, EnterRoomStep
<1>7. ASSUME NEW c \in Conn, Disconnect(c) PROVE IInv'
  BY <1>7, DisconnectStep
<1>8. ASSUME NEW r \in Room, GameOver(r) PROVE IInv'
  BY <1>8, GameOverStep
<1>9. ASSUME NEW r \in Room, TickError(r) PROVE IInv'
  <2>1. \A q \in Room : timer'[q] = "armed" => timer[q] = "armed"
    BY <1>9 DEF TickError, IInv, TypeOK
  <2>2. QED
    BY <1>9, <2>1, QuietStep DEF TickError, connVars
<1>10. CASE UNCHANGED vars
  BY <1>10, QuietStep DEF vars, connVars, roomVars
<1>11. QED
  BY <1>1, <1>2, <1>3, <1>4, <1>5, <1>6, <1>7, <1>8, <1>9, <1>10 DEF Next

-----------------------------------------------------------------------------
(* The strengthened invariant holds in every reachable state, whatever the *)
(* peers send and whether or not ticks fail.                               *)
THEOREM SessionInvariant == Spec => []IInv
BY InitIInv, NextIInv, PTL DEF Spec

(* Every variable keeps its type; a registered user always has a connection. *)
THEOREM SessionTypes == Spec => []TypeOK
<1>1. IInv => TypeOK
  BY DEF IInv
<1>2. QED
  BY <1>1, SessionInvariant, PTL

(* A disconnect forgets exactly the account of that connection. *)
THEOREM DisconnectForgetsItsUser == Spec => []ConnOwnsUser
<1>1. IInv => ConnOwnsUser
  BY DEF IInv
<1>2. QED
  BY <1>1, SessionInvariant, PTL

(* Players and battle users stay paired through re-entry, disconnect and game over. *)
THEOREM PlayersPaired == Spec => []PlayerLink
<1>1. IInv => PlayerLink
  BY DEF IInv
<1>2. QED
  BY <1>1, SessionInvariant, PTL

(* An account has at most one battle user, in the room a reconnect returns to. *)
THEOREM OneBattleUserPerAccount == Spec => []OneBattleUser
<1>1. IInv => OneBattleUser
  BY DEF IInv
<1>2. QED
  BY <1>1, SessionInvariant, PTL

(* No player takes a robot's place. *)
THEOREM RobotsKeepTheirPlace == Spec => []RobotsKept
<1>1. IInv => RobotsKept
  BY DEF IInv
<1>2. QED
  BY <1>1, SessionInvariant, PTL

(* Connections, accounts, players and battle users agree, whatever happens. *)
THEOREM SessionsSafe == Spec => []SessionSafe
<1>1. IInv => SessionSafe
  BY DEF IInv, SessionSafe
<1>2. QED
  BY <1>1, SessionInvariant, PTL

-----------------------------------------------------------------------------
(* A battle user is dropped only when its room's game is over. *)
THEOREM BattleUserKeptUntilGameOver == Spec => BattleUserKept
<1> DEFINE ObjectsKept == \A i \in UserID :
               userID2BattleUser[i] # Nil /\ userID2BattleUser'[i] # userID2BattleUser[i]
                 => \E r \in Room : timer[r] = "armed" /\ timer'[r] = "none"
                                    /\ battle[userID2BattleUser[i]] = r
<1>1. ASSUME IInv, [Next]_vars PROVE [ObjectsKept]_vars
  <2> SUFFICES ASSUME NEW i \in UserID, userID2BattleUser[i] # Nil,
                      userID2BattleUser'[i] # userID2BattleUser[i], Next
               PROVE  \E r \in Room : timer[r] = "armed" /\ timer'[r] = "none"
                                      /\ battle[userID2BattleUser[i]] = r
    BY <1>1 DEF vars, avatarVars
  <2> IInv /\ TypeOK
    BY <1>1 DEF IInv
  <2>1. ASSUME NEW c \in Conn, EnterRoom(c) PROVE FALSE
    <3>1. conn2User[c] \in Registered
      BY <2>1 DEF EnterRoom, Registered, TypeOK
    <3>2. userID[conn2User[c]] \in UserID /\ userID2BattleUser[userID[conn2User[c]]] = Nil
      BY <2>1, <3>1, RegisteredByNumber DEF EnterRoom, FindBattleUser
    <3>3. userID2BattleUser'[i] = userID2BattleUser[i]
      BY <2>1, <3>2 DEF EnterRoom, TypeOK
    <3>4. QED
      BY <3>3
  <2>2. PICK r \in Room : GameOver(r)
    BY <2>1 DEF Next, Accept, LoginIllegal, LoginNew, LoginAgain, ReceiveLogin, ReEnterRoom,
                Disconnect, TickError, avatarVars
  <2>3. timer[r] = "armed" /\ timer'[r] = "none"
    BY <2>2 DEF GameOver, TypeOK
  <2>4. i \in {account[b] : b \in Members(r)} \/ users[r][i] = Robot
    BY <2>2 DEF GameOver, ReleaseAccounts
  <2>5. users[r][i] # Robot
    BY IDAssumption DEF IDAssumption, IInv, Numbers, Places, IsAI, LegalNumber
  <2>6. PICK b \in Members(r) : i = account[b]
    BY <2>4, <2>5
  <2>7. userID2BattleUser[i] = b /\ battle[b] = r
    BY <2>6 DEF Members, IInv, OneBattleUser
  <2>8. QED
    BY <2>3, <2>7
<1>2. QED
  BY <1>1, SessionInvariant, PTL DEF Spec, BattleUserKept, ObjectsKept

-----------------------------------------------------------------------------
(* With peers that log in once per connection, as agar.html does. *)

(* A connection that leads to an account is open and has logged in. *)
ConnInUse == \A c \in Conn : conn2User[c] # Nil => link[c] = "open" /\ c \in sentLogin

OnceInv == IInv /\ ConnInUse /\ NoStaleAccount

LEMMA NextOnceInv == ASSUME OnceInv, LoginOnce, [Next]_vars PROVE OnceInv'
<1> USE ObjectAssumption DEF ObjectAssumption
<1> IInv /\ TypeOK
  BY DEF OnceInv, IInv
<1>1. IInv' /\ TypeOK'
  BY NextIInv, TypeStep
<1>2. ASSUME NEW c \in Conn, Accept(c) PROVE ConnInUse' /\ NoStaleAccount'
  BY <1>2 DEF Accept, LiveConn, OnceInv, ConnInUse, NoStaleAccount, TypeOK
<1>3. ASSUME NEW c \in Conn, NEW i \in UserID, LoginIllegal(c, i)
      PROVE  ConnInUse' /\ NoStaleAccount'
  BY <1>3 DEF LoginIllegal, OnceInv, ConnInUse, NoStaleAccount, TypeOK
<1>4. ASSUME NEW c \in Conn, NEW i \in UserID, LoginNew(c, i)
      PROVE  ConnInUse' /\ NoStaleAccount'
  <2>1. PICK u \in User :
          /\ ~LiveUser(u)
          /\ conn' = [conn EXCEPT ![u] = c]
          /\ userID' = [userID EXCEPT ![u] = i]
          /\ conn2User' = [conn2User EXCEPT ![c] = u]
          /\ userID2User' = [userID2User EXCEPT ![i] = u]
    BY <1>4 DEF LoginNew
  <2>2. conn2User[c] = Nil /\ link[c] = "open" /\ link' = link /\ sentLogin' = sentLogin \cup {c}
    BY <1>4 DEF LoginNew, ReceiveLogin, OnceInv, ConnInUse
  <2>3. \A j \in UserID : userID2User[j] # u
    BY <2>1 DEF LiveUser, Registered
  <2>4. ConnInUse'
    BY <2>1, <2>2 DEF OnceInv, ConnInUse, TypeOK
  <2>5. NoStaleAccount'
    <3> SUFFICES ASSUME NEW j \in UserID, userID2User'[j] # Nil
                 PROVE  /\ userID'[userID2User'[j]] = j
                        /\ conn'[userID2User'[j]] \in Conn
                        /\ conn2User'[conn'[userID2User'[j]]] = userID2User'[j]
                        /\ link'[conn'[userID2User'[j]]] = "open"
      BY DEF NoStaleAccount
    <3>1. CASE j = i
      BY <2>1, <2>2, <3>1 DEF TypeOK
    <3>2. CASE j # i
      <4>1. userID2User'[j] = userID2User[j] /\ userID2User[j] \in User /\ userID2User[j] # u
        BY <2>1, <2>3, <3>2 DEF TypeOK
      <4>2. QED
        BY <2>1, <2>2, <4>1 DEF OnceInv, NoStaleAccount, TypeOK
    <3>3. QED
      BY <3>1, <3>2
  <2>6. QED
    BY <2>4, <2>5
<1>5. ASSUME NEW c \in Conn, NEW i \in UserID, LoginAgain(c, i)
      PROVE  ConnInUse' /\ NoStaleAccount'
  <2>1. userID2User[i] \in Registered
    BY <1>5 DEF LoginAgain, Registered, TypeOK
  <2>2. IsDuplicate(userID2User[i])
    BY <2>1 DEF IInv, HasConn, IsDuplicate
  <2>3. /\ link' = [link EXCEPT ![c] = "closed"] /\ sentLogin' = sentLogin \ {c}
        /\ UNCHANGED <<conn2User, userID2User, conn, userID>>
    BY <1>5, <2>2 DEF LoginAgain
  <2>4. conn2User[c] = Nil
    BY <1>5 DEF LoginAgain, ReceiveLogin, OnceInv, ConnInUse
  <2>5. QED
    BY <2>3, <2>4 DEF OnceInv, ConnInUse, NoStaleAccount, TypeOK
<1>6. ASSUME NEW c \in Conn, ReEnterRoom(c) \/ EnterRoom(c) PROVE ConnInUse' /\ NoStaleAccount'
  BY <1>6 DEF ReEnterRoom, EnterRoom, connVars, OnceInv, ConnInUse, NoStaleAccount
<1>7. ASSUME NEW c \in Conn, Disconnect(c) PROVE ConnInUse' /\ NoStaleAccount'
  <2>1. link' = [link EXCEPT ![c] = "closed"] /\ sentLogin' = sentLogin \ {c}
        /\ UNCHANGED <<conn, userID>>
    BY <1>7 DEF Disconnect
  <2>2. CASE conn2User[c] = Nil
    <3>1. UNCHANGED <<conn2User, userID2User>>
      BY <1>7, <2>2 DEF Disconnect
    <3>2. QED
      BY <2>1, <2>2, <3>1 DEF OnceInv, ConnInUse, NoStaleAccount, TypeOK
  <2>3. CASE conn2User[c] # Nil
    <3>1. PICK u \in User : conn2User[c] = u
      BY <2>3 DEF TypeOK
    <3>2. conn2User' = [conn2User EXCEPT ![c] = Nil]
          /\ userID2User' = [userID2User EXCEPT ![userID[u]] = Nil]
      BY <1>7, <2>3, <3>1 DEF Disconnect, ForgetAccount
    <3>3. conn[u] = c /\ userID[u] \in UserID
      BY <2>3, <3>1 DEF IInv, ConnOwnsUser
    <3>4. ConnInUse'
      BY <2>1, <3>2 DEF OnceInv, ConnInUse, TypeOK
    <3>5. NoStaleAccount'
      <4> SUFFICES ASSUME NEW j \in UserID, userID2User'[j] # Nil
                   PROVE  /\ userID'[userID2User'[j]] = j
                          /\ conn'[userID2User'[j]] \in Conn
                          /\ conn2User'[conn'[userID2User'[j]]] = userID2User'[j]
                          /\ link'[conn'[userID2User'[j]]] = "open"
        BY DEF NoStaleAccount
      <4>1. j # userID[u] /\ userID2User'[j] = userID2User[j] /\ userID2User[j] \in User
        BY <3>2 DEF TypeOK
      <4>2. /\ userID[userID2User[j]] = j
            /\ conn[userID2User[j]] \in Conn
            /\ conn2User[conn[userID2User[j]]] = userID2User[j]
            /\ link[conn[userID2User[j]]] = "open"
        BY <4>1 DEF OnceInv, NoStaleAccount
      <4>3. conn[userID2User[j]] # c
        BY <3>1, <4>1, <4>2
      <4>4. QED
        BY <2>1, <3>2, <4>1, <4>2, <4>3
    <3>6. QED
      BY <3>4, <3>5
  <2>4. QED
    BY <2>2, <2>3
<1>8. ASSUME NEW r \in Room, GameOver(r) \/ TickError(r) PROVE ConnInUse' /\ NoStaleAccount'
  <2>1. UNCHANGED <<link, sentLogin, conn2User, userID2User, conn, userID>>
    BY <1>8 DEF GameOver, TickError, connVars
  <2>2. ConnInUse'
    BY <2>1 DEF OnceInv, ConnInUse
  <2>3. NoStaleAccount'
    BY <2>1 DEF OnceInv, NoStaleAccount
  <2>4. QED
    BY <2>2, <2>3
<1>9. CASE UNCHANGED vars
  <2>1. UNCHANGED <<link, sentLogin, conn2User, userID2User, conn, userID>>
    BY <1>9 DEF vars, connVars
  <2>2. ConnInUse'
    BY <2>1 DEF OnceInv, ConnInUse
  <2>3. NoStaleAccount'
    BY <2>1 DEF OnceInv, NoStaleAccount
  <2>4. QED
    BY <1>1, <2>2, <2>3 DEF OnceInv
<1>10. QED
  BY <1>1, <1>2, <1>3, <1>4, <1>5, <1>6, <1>7, <1>8, <1>9 DEF Next, OnceInv

(* A registered account is online: its connection is open and leads to it. *)
THEOREM AccountsNeverStale == ASSUME LoginOnce PROVE Spec => []NoStaleAccount
<1>1. Init => OnceInv
  BY InitIInv DEF Init, OnceInv, ConnInUse, NoStaleAccount
<1>2. OnceInv /\ [Next]_vars => OnceInv'
  BY NextOnceInv
<1>3. OnceInv => NoStaleAccount
  BY DEF OnceInv
<1>4. QED
  BY <1>1, <1>2, <1>3, PTL DEF Spec

-----------------------------------------------------------------------------
(* The collision index. *)

LEMMA Sides ==
  /\ MaxLevel \in Nat \ {0} /\ MaxObjs \in Nat /\ MapWidth \in Nat \ {0}
  /\ MapWidth = Side[1] /\ 1 \in 1 .. MaxLevel
  /\ \A l \in 1 .. MaxLevel : Side[l] \in Nat \ {0}
BY TreeAssumption DEF TreeAssumption, MapWidth

LEMMA Halves ==
  ASSUME NEW l \in 1 .. MaxLevel, l # MaxLevel
  PROVE  /\ l + 1 \in 1 .. MaxLevel /\ Side[l + 1] \in Nat \ {0}
         /\ Side[l] = 2 * Side[l + 1]
BY TreeAssumption DEF TreeAssumption

-----------------------------------------------------------------------------
(* Nodes. *)

LEMMA NodeType ==
  ASSUME NEW n \in Node
  PROVE  /\ n.level \in 1 .. MaxLevel /\ n.x \in 0 .. MapWidth /\ n.y \in 0 .. MapWidth
         /\ Side[n.level] \in Nat \ {0}
         /\ n.x + Side[n.level] <= MapWidth /\ n.y + Side[n.level] <= MapWidth
BY Sides DEF Node, Aligned

LEMMA RootNode == Root \in Node /\ Root # None
<1>1. 1 \in 1 .. MaxLevel /\ MapWidth \in Nat /\ Side[1] = MapWidth
  BY Sides
<1>2. 0 = 0 * Side[1]
  BY <1>1
<1>3. Aligned(0, 1)
  BY <1>1, <1>2 DEF Aligned
<1>4. Root \in Node
  BY <1>1, <1>3 DEF Root, Node
<1> QED BY <1>4, NoneAssumption

(* Half a node starts at a multiple of its width. *)
LEMMA HalfAligned ==
  ASSUME NEW l \in 1 .. MaxLevel, l # MaxLevel, NEW z \in 0 .. MapWidth,
         Aligned(z, l), NEW i \in {0, Side[l + 1]}
  PROVE  Aligned(z + i, l + 1) /\ z + i \in 0 .. MapWidth
<1> DEFINE h == Side[l + 1]
<1>1. h \in Nat \ {0} /\ Side[l] = 2 * h /\ MapWidth \in Nat
  BY Sides, Halves
<1>2. PICK k \in 0 .. MapWidth : z = k * Side[l]
  BY DEF Aligned
<1>3. z + 2 * h <= MapWidth /\ z \in Nat /\ i \in {0, h}
  BY <1>1 DEF Aligned
<1> HIDE DEF h
<1>4. z + i + h <= MapWidth /\ z + i \in 0 .. MapWidth
  BY <1>1, <1>3
<1>5. \E j \in Nat : z + i = j * h
  <2>1. z = (2 * k) * h
    BY <1>1, <1>2, Z3
  <2>2. CASE i = 0
    <3>1. z + i = (2 * k) * h /\ 2 * k \in Nat
      BY <2>1, <2>2, <1>3
    <3> QED BY <3>1
  <2>3. CASE i = h
    <3>1. z + i = (2 * k + 1) * h
      BY <2>1, <2>3, <1>1, Z3
    <3> QED BY <3>1
  <2> QED BY <1>3, <2>2, <2>3
<1>6. PICK j \in Nat : z + i = j * h
  BY <1>5
<1>7. j <= j * h
  BY <1>1, Z3
<1>8. j \in 0 .. MapWidth
  <2>1. j * h <= MapWidth /\ j * h \in Nat
    BY <1>1, <1>4, <1>6
  <2> QED BY <1>1, <1>7, <2>1
<1> QED BY <1>4, <1>6, <1>8 DEF Aligned, h

LEMMA ChildBelow ==
  ASSUME NEW n \in Node, NEW s \in Children(n)
  PROVE  /\ s \in Node /\ s \in Below(n)
         /\ s.level = n.level + 1
<1>1. n.level # MaxLevel
  BY DEF Children
<1>2. n.level \in 1 .. MaxLevel /\ n.x \in 0 .. MapWidth /\ n.y \in 0 .. MapWidth
      /\ Aligned(n.x, n.level) /\ Aligned(n.y, n.level)
  BY DEF Node
<1> DEFINE h == Side[n.level + 1]
<1>3. PICK i \in {0, h}, j \in {0, h} :
        s = [level |-> n.level + 1, x |-> n.x + i, y |-> n.y + j]
  BY <1>1 DEF Children
<1>4. Aligned(n.x + i, n.level + 1) /\ n.x + i \in 0 .. MapWidth
  BY <1>1, <1>2, HalfAligned
<1>5. Aligned(n.y + j, n.level + 1) /\ n.y + j \in 0 .. MapWidth
  BY <1>1, <1>2, HalfAligned
<1>6. s \in Node
  BY <1>1, <1>2, <1>3, <1>4, <1>5, Halves DEF Node
<1>7. h \in Nat /\ Side[n.level] = 2 * h /\ s.level = n.level + 1
  BY <1>1, <1>2, <1>3, Halves
<1>8. Within(s, n)
  <2>1. /\ s.x = n.x + i /\ s.y = n.y + j /\ Side[s.level] = h
        /\ n.x \in Nat /\ n.y \in Nat /\ n.level \in Nat
    BY <1>2, <1>3
  <2>2. i \in 0 .. h /\ j \in 0 .. h
    BY <1>7
  <2> HIDE DEF h
  <2> QED BY <1>7, <2>1, <2>2 DEF Within
<1> QED BY <1>2, <1>6, <1>7, <1>8 DEF Below

LEMMA BelowBelow ==
  ASSUME NEW n \in Node, NEW c \in Below(n), NEW s \in Below(c)
  PROVE  s \in Below(n)
<1>1. c \in Node /\ s \in Node
  BY DEF Below
<1>2. /\ c.level > n.level /\ s.level > c.level
      /\ Within(c, n) /\ Within(s, c)
  BY DEF Below
<1>3. /\ n.level \in Nat /\ c.level \in Nat /\ s.level \in Nat
      /\ n.x \in Nat /\ c.x \in Nat /\ s.x \in Nat
      /\ n.y \in Nat /\ c.y \in Nat /\ s.y \in Nat
      /\ Side[n.level] \in Nat /\ Side[c.level] \in Nat /\ Side[s.level] \in Nat
  BY <1>1, NodeType
<1>4. Within(s, n)
  BY <1>2, <1>3 DEF Within
<1> QED BY <1>1, <1>2, <1>3, <1>4 DEF Below

LEMMA HasChildren ==
  ASSUME NEW n \in Node, n.level < MaxLevel
  PROVE  Children(n) # {}
<1>1. [level |-> n.level + 1, x |-> n.x + 0, y |-> n.y + 0] \in Children(n)
  BY NodeType DEF Children
<1> QED BY <1>1

-----------------------------------------------------------------------------
(* What holds of a tree t for objects that have entered with rectangles rc. *)

TreeType(t) ==
  /\ Nodes(t) \subseteq Node /\ Root \in Nodes(t)
  /\ t.objs \in [Nodes(t) -> SUBSET Obj]
  /\ t.count \in [Nodes(t) -> 0 .. MaxObjs + 1]
  /\ t.tree \in [Obj -> Nodes(t) \cup {None}]

Agrees(t, rc) ==
  /\ \A n \in Nodes(t), o \in Obj : o \in t.objs[n] <=> t.tree[o] = n
  /\ \A o \in Obj : t.tree[o] # None => Includes(t.tree[o], rc[o])

(* The counter never falls behind the table. *)
Counts(t) ==
  \A n \in Nodes(t) : Counted(Cardinality(t.objs[n])) <= t.count[n]

Bounded(t) ==
  \A n \in Nodes(t) : Splits(t, n) => Cardinality(t.objs[n]) <= MaxObjs

Good(t, rc) == TreeType(t) /\ Agrees(t, rc) /\ Counts(t) /\ Bounded(t)

(* In the middle of insert the node n may hold one object too many. *)
Nearly(t, rc, n) ==
  /\ TreeType(t) /\ Agrees(t, rc) /\ Counts(t)
  /\ \A m \in Nodes(t) \ {n} : Splits(t, m) => Cardinality(t.objs[m]) <= MaxObjs
  /\ Splits(t, n) => Cardinality(t.objs[n]) <= MaxObjs + 1

(* u has the nodes of t and no object that is in no node of t. *)
Grown(u, t) ==
  /\ Nodes(t) \subseteq Nodes(u)
  /\ \A v \in Obj : u.tree[v] # None => t.tree[v] # None

LEMMA FiniteTable ==
  ASSUME NEW S \in SUBSET Obj
  PROVE  IsFiniteSet(S) /\ Cardinality(S) \in Nat
BY ObjAssumption, FS_Subset, FS_CardinalityType DEF ObjAssumption

LEMMA CountedType ==
  ASSUME NEW k \in Nat
  PROVE  /\ Counted(k) \in 0 .. MaxObjs + 1
         /\ k <= MaxObjs + 1 => Counted(k) = k
         /\ Counted(k) <= MaxObjs => Counted(k) = k
BY Sides DEF Counted, Lower

(* One more in the table, one more in the counter. *)
LEMMA CountedStep ==
  ASSUME NEW k \in Nat, NEW j \in Nat, j <= k + 1, NEW c \in 0 .. MaxObjs + 1,
         Counted(k) <= c
  PROVE  Counted(j) <= Counted(c + 1)
BY Sides DEF Counted, Lower

LEMMA StoredNearly ==
  ASSUME NEW t, NEW rc, Good(t, rc), NEW o \in Obj, t.tree[o] = None,
         NEW n \in Nodes(t), Includes(n, rc[o])
  PROVE  /\ Nearly(Stored(t, n, o), rc, n)
         /\ Nodes(Stored(t, n, o)) = Nodes(t)
         /\ n \in Node /\ Stored(t, n, o).tree[o] = n
         /\ ~Overfull(Stored(t, n, o), n) => Good(Stored(t, n, o), rc)
<1> DEFINE u == Stored(t, n, o)
<1>1. /\ Nodes(t) \subseteq Node /\ Root \in Nodes(t)
      /\ t.objs \in [Nodes(t) -> SUBSET Obj]
      /\ t.count \in [Nodes(t) -> 0 .. MaxObjs + 1]
      /\ t.tree \in [Obj -> Nodes(t) \cup {None}]
  BY DEF Good, TreeType
<1>2. n \in Node /\ n # None
  BY <1>1, NoneAssumption
<1>3. /\ u.objs = [t.objs EXCEPT ![n] = @ \cup {o}]
      /\ u.count = [t.count EXCEPT ![n] = Counted(@ + 1)]
      /\ u.tree = [t.tree EXCEPT ![o] = n]
  BY DEF Stored
<1> HIDE DEF u
<1>4. Nodes(u) = Nodes(t)
  BY <1>1, <1>3 DEF Nodes
<1>5. t.count[n] + 1 \in Nat
  BY <1>1
<1>6. TreeType(u)
  <2>1. u.objs \in [Nodes(t) -> SUBSET Obj]
    BY <1>1, <1>3
  <2>2. u.count \in [Nodes(t) -> 0 .. MaxObjs + 1]
    <3>1. Counted(t.count[n] + 1) \in 0 .. MaxObjs + 1
      BY <1>5, CountedType
    <3> QED BY <1>1, <1>3, <3>1
  <2>3. u.tree \in [Obj -> Nodes(t) \cup {None}]
    BY <1>1, <1>3
  <2> QED BY <1>1, <1>4, <2>1, <2>2, <2>3 DEF TreeType
<1>7. Agrees(u, rc)
  <2>1. ASSUME NEW m \in Nodes(t), NEW v \in Obj
        PROVE  v \in u.objs[m] <=> u.tree[v] = m
    <3>1. v \in t.objs[m] <=> t.tree[v] = m
      BY DEF Good, Agrees
    <3>2. CASE v = o
      <4>1. u.tree[v] = n /\ v \notin t.objs[m]
        BY <1>1, <1>3, <3>1, <3>2, NoneAssumption
      <4> QED BY <1>1, <1>3, <3>2, <4>1
    <3>3. CASE v # o
      <4>1. u.tree[v] = t.tree[v]
        BY <1>1, <1>3, <3>3
      <4>2. v \in u.objs[m] <=> v \in t.objs[m]
        BY <1>1, <1>3, <3>3
      <4> QED BY <3>1, <4>1, <4>2
    <3> QED BY <3>2, <3>3
  <2>2. ASSUME NEW v \in Obj, u.tree[v] # None
        PROVE  Includes(u.tree[v], rc[v])
    <3>1. CASE v = o
      BY <1>1, <1>3, <3>1
    <3>2. CASE v # o
      <4>1. u.tree[v] = t.tree[v]
        BY <1>1, <1>3, <3>2
      <4> QED BY <2>2, <4>1 DEF Good, Agrees
    <3> QED BY <3>1, <3>2
  <2> QED BY <1>4, <2>1, <2>2 DEF Agrees
<1>8. /\ Cardinality(u.objs[n]) \in Nat /\ Cardinality(t.objs[n]) \in Nat
      /\ Cardinality(u.objs[n]) <= Cardinality(t.objs[n]) + 1
  <2>1. t.objs[n] \in SUBSET Obj /\ u.objs[n] = t.objs[n] \cup {o}
    BY <1>1, <1>3
  <2>2. IsFiniteSet(t.objs[n]) /\ Cardinality(t.objs[n]) \in Nat
    BY <2>1, FiniteTable
  <2>3. Cardinality(t.objs[n] \cup {o}) =
          IF o \in t.objs[n] THEN Cardinality(t.objs[n]) ELSE Cardinality(t.objs[n]) + 1
    BY <2>2, FS_AddElement
  <2> QED BY <2>1, <2>2, <2>3
<1>9. \A m \in Nodes(t) \ {n} : u.objs[m] = t.objs[m] /\ u.count[m] = t.count[m]
  BY <1>1, <1>3
<1>10. Counts(u)
  <2>1. Counted(Cardinality(u.objs[n])) <= u.count[n]
    <3>1. Counted(Cardinality(t.objs[n])) <= t.count[n] /\ t.count[n] \in 0 .. MaxObjs + 1
      BY <1>1 DEF Good, Counts
    <3>2. Counted(Cardinality(u.objs[n])) <= Counted(t.count[n] + 1)
      BY <1>8, <3>1, CountedStep
    <3> QED BY <1>1, <1>3, <3>2
  <2> QED BY <1>4, <1>9, <2>1 DEF Counts, Good
<1>11. \A m \in Nodes(t) : Splits(u, m) <=> Splits(t, m)
  BY <1>4 DEF Splits
<1>12. Nearly(u, rc, n)
  <2>1. \A m \in Nodes(u) \ {n} : Splits(u, m) => Cardinality(u.objs[m]) <= MaxObjs
    BY <1>4, <1>9, <1>11 DEF Good, Bounded
  <2>2. Splits(u, n) => Cardinality(u.objs[n]) <= MaxObjs + 1
    BY <1>8, <1>11, Sides DEF Good, Bounded
  <2> QED BY <1>6, <1>7, <1>10, <2>1, <2>2 DEF Nearly
<1>13. ASSUME ~Overfull(u, n)
       PROVE  Good(u, rc)
  <2>1. ASSUME Splits(u, n)
        PROVE  Cardinality(u.objs[n]) <= MaxObjs
    <3>1. u.count[n] <= MaxObjs
      BY <1>4, <1>6, <1>13, <2>1, Sides DEF Overfull, TreeType
    <3>2. Counted(Cardinality(u.objs[n])) <= u.count[n] /\ u.count[n] \in Nat
      BY <1>4, <1>6, <1>10 DEF Counts, TreeType
    <3>3. Counted(Cardinality(u.objs[n])) \in Nat
      BY <1>8, CountedType
    <3>4. Counted(Cardinality(u.objs[n])) <= MaxObjs
      BY <3>1, <3>2, <3>3, Sides
    <3> QED BY <1>8, <3>4, CountedType
  <2>2. Bounded(u)
    BY <1>4, <1>12, <2>1 DEF Nearly, Bounded
  <2> QED BY <1>6, <1>7, <1>10, <2>2 DEF Good
<1>14. u.tree[o] = n
  BY <1>1, <1>3
<1> QED BY <1>2, <1>4, <1>12, <1>13, <1>14 DEF u

(* The cascade of splits leaves every table, pointer and counter in order, *)
(* with what was kept in one node and the rest in none.                    *)
LEMMA MovedGood ==
  ASSUME NEW t, NEW rc, NEW n \in Nodes(t), Nearly(t, rc, n), Splits(t, n),
         NEW c \in {n} \cup Below(n), c.level < MaxLevel,
         NEW d \in {c} \cup Children(c),
         NEW kept \in SUBSET t.objs[n],
         \A v \in kept : Includes(d, rc[v]),
         d = c \/ d.level = MaxLevel \/ Cardinality(kept) <= MaxObjs
  PROVE  Good(Moved(t, n, c, d, kept), rc) /\ Grown(Moved(t, n, c, d, kept), t)
<1> DEFINE u == Moved(t, n, c, d, kept)
           split == Chain(n, c)
           all == Nodes(t) \cup split \cup UNION {Children(m) : m \in split}
<1>1. /\ Nodes(t) \subseteq Node /\ Root \in Nodes(t)
      /\ t.objs \in [Nodes(t) -> SUBSET Obj]
      /\ t.count \in [Nodes(t) -> 0 .. MaxObjs + 1]
      /\ t.tree \in [Obj -> Nodes(t) \cup {None}]
  BY DEF Nearly, TreeType
<1>2. n \in Node /\ c \in Node
  BY <1>1 DEF Below
<1>3. split \subseteq Node /\ c \in split
  <2>1. Within(c, c)
    BY <1>2, NodeType DEF Within
  <2> QED BY <1>2, <2>1 DEF Chain, Below
<1>4. all \subseteq Node
  BY <1>1, <1>3, ChildBelow
<1>5. d \in all /\ (d = n \/ d \notin Nodes(t)) /\ d \in Node
  <2>1. CASE d = c
    BY <1>2, <1>3, <2>1 DEF Splits
  <2>2. CASE d \in Children(c)
    <3>1. d \in Below(c) /\ d \in all
      BY <1>2, <1>3, <2>2, ChildBelow
    <3>2. d \in Below(n)
      BY <1>2, <3>1, BelowBelow
    <3> QED BY <1>4, <3>1, <3>2 DEF Splits
  <2> QED BY <2>1, <2>2
<1>6. c \in all /\ (d = c => Below(c) \cap all # {})
  <2>1. Children(c) \subseteq all /\ Children(c) # {}
    BY <1>2, <1>3, HasChildren
  <2>2. Children(c) \subseteq Below(c)
    BY <1>2, ChildBelow
  <2> QED BY <1>3, <2>1, <2>2
<1> HIDE DEF split
<1>7. /\ u.objs = [m \in all |-> IF m = d THEN kept
                                 ELSE IF m \in Nodes(t) \ {n} THEN t.objs[m] ELSE {}]
      /\ u.count = [m \in all |-> IF m = d THEN Cardinality(kept)
                                  ELSE IF m \in Nodes(t) \ {n} THEN t.count[m] ELSE 0]
      /\ u.tree = [v \in Obj |-> IF v \in kept THEN d
                                 ELSE IF v \in t.objs[n] THEN None ELSE t.tree[v]]
  BY DEF Moved, split
<1>8. Nodes(t) \subseteq all
  OBVIOUS
<1> HIDE DEF u, all
<1>9. Nodes(u) = all
  BY <1>7 DEF Nodes
<1>10. /\ t.objs[n] \in SUBSET Obj /\ IsFiniteSet(kept) /\ Cardinality(kept) \in Nat
       /\ Cardinality(kept) <= MaxObjs + 1
  <2>1. t.objs[n] \in SUBSET Obj /\ kept \in SUBSET Obj
    BY <1>1
  <2>2. IsFiniteSet(t.objs[n]) /\ Cardinality(t.objs[n]) \in Nat /\ IsFiniteSet(kept)
        /\ Cardinality(kept) \in Nat
    BY <2>1, FiniteTable
  <2>3. Cardinality(kept) <= Cardinality(t.objs[n])
    BY <2>2, FS_Subset
  <2>4. Cardinality(t.objs[n]) <= MaxObjs + 1
    BY DEF Nearly
  <2> QED BY <2>1, <2>2, <2>3, <2>4, Sides
<1>11. TreeType(u)
  <2>1. u.objs \in [all -> SUBSET Obj]
    BY <1>1, <1>7, <1>10
  <2>2. u.count \in [all -> 0 .. MaxObjs + 1]
    <3>1. Cardinality(kept) \in 0 .. MaxObjs + 1 /\ 0 \in 0 .. MaxObjs + 1
      BY <1>10, Sides
    <3>2. \A m \in Nodes(t) : t.count[m] \in 0 .. MaxObjs + 1
      BY <1>1
    <3> QED BY <1>7, <3>1, <3>2
  <2>3. u.tree \in [Obj -> all \cup {None}]
    BY <1>1, <1>5, <1>7, <1>8
  <2> QED BY <1>1, <1>4, <1>8, <1>9, <2>1, <2>2, <2>3 DEF TreeType
<1>12. Agrees(u, rc)
  <2>1. ASSUME NEW m \in all, NEW v \in Obj
        PROVE  v \in u.objs[m] <=> u.tree[v] = m
    <3>1. \A k \in Nodes(t) : v \in t.objs[k] <=> t.tree[v] = k
      BY DEF Nearly, Agrees
    <3>2. m # None /\ d # None
      BY <1>4, <1>5, NoneAssumption
    <3>3. CASE v \in kept
      <4>1. u.tree[v] = d
        BY <1>7, <3>3
      <4>2. CASE m = d
        BY <1>7, <3>3, <4>1, <4>2
      <4>3. CASE m # d
        <5>1. v \in t.objs[n] /\ t.tree[v] = n
          BY <3>1, <3>3
        <5>2. v \notin u.objs[m]
          BY <1>7, <3>1, <4>3, <5>1
        <5> QED BY <4>1, <4>3, <5>2
      <4> QED BY <4>2, <4>3
    <3>4. CASE v \notin kept /\ v \in t.objs[n]
      <4>1. u.tree[v] = None /\ t.tree[v] = n
        BY <1>7, <3>1, <3>4
      <4>2. v \notin u.objs[m]
        BY <1>7, <3>1, <3>4, <4>1
      <4> QED BY <3>2, <4>1, <4>2
    <3>5. CASE v \notin kept /\ v \notin t.objs[n]
      <4>1. u.tree[v] = t.tree[v] /\ t.tree[v] # n
        BY <1>7, <3>1, <3>5
      <4>2. CASE m \in Nodes(t) \ {n}
        <5>1. m # d
          BY <1>5, <4>2
        <5> QED BY <1>7, <3>1, <4>1, <4>2, <5>1
      <4>3. CASE m \notin Nodes(t) \ {n}
        <5>1. v \notin u.objs[m]
          BY <1>7, <3>5, <4>3
        <5>2. t.tree[v] # m
          BY <1>1, <3>2, <4>1, <4>3
        <5> QED BY <4>1, <5>1, <5>2
      <4> QED BY <4>2, <4>3
    <3> QED BY <3>3, <3>4, <3>5
  <2>2. ASSUME NEW v \in Obj, u.tree[v] # None
        PROVE  Includes(u.tree[v], rc[v])
    <3>1. CASE v \in kept
      BY <1>7, <3>1
    <3>2. CASE v \notin kept
      <4>1. u.tree[v] = t.tree[v]
        BY <1>7, <2>2, <3>2
      <4> QED BY <2>2, <4>1 DEF Nearly, Agrees
    <3> QED BY <3>1, <3>2
  <2> QED BY <1>9, <2>1, <2>2 DEF Agrees
<1>13. Counts(u)
  <2> SUFFICES ASSUME NEW m \in all
               PROVE  Counted(Cardinality(u.objs[m])) <= u.count[m]
    BY <1>9 DEF Counts
  <2>1. CASE m = d
    <3>1. Counted(Cardinality(kept)) = Cardinality(kept)
      BY <1>10, CountedType
    <3> QED BY <1>7, <1>10, <2>1, <3>1
  <2>2. CASE m # d /\ m \in Nodes(t) \ {n}
    BY <1>7, <2>2 DEF Nearly, Counts
  <2>3. CASE m # d /\ m \notin Nodes(t) \ {n}
    <3>1. u.objs[m] = {} /\ u.count[m] = 0
      BY <1>7, <2>3
    <3>2. Counted(0) = 0
      BY CountedType, Sides
    <3> QED BY <3>1, <3>2, FS_EmptySet
  <2> QED BY <2>1, <2>2, <2>3
<1>14. Bounded(u)
  <2> SUFFICES ASSUME NEW m \in all, Splits(u, m)
               PROVE  Cardinality(u.objs[m]) <= MaxObjs
    BY <1>9 DEF Bounded
  <2>1. m.level < MaxLevel /\ Below(m) \cap all = {}
    BY <1>9 DEF Splits
  <2>2. CASE m = d
    <3>1. Cardinality(kept) <= MaxObjs
      <4>1. m.level \in Nat
        BY <1>4, NodeType
      <4> QED BY <1>6, <2>1, <2>2, <4>1, Sides
    <3> QED BY <1>7, <2>2, <3>1
  <2>3. CASE m # d /\ m \in Nodes(t) \ {n}
    <3>1. Splits(t, m)
      BY <1>8, <2>1 DEF Splits
    <3> QED BY <1>7, <2>3, <3>1 DEF Nearly
  <2>4. CASE m # d /\ m \notin Nodes(t) \ {n}
    <3>1. u.objs[m] = {}
      BY <1>7, <2>4
    <3> QED BY <3>1, FS_EmptySet, Sides
  <2> QED BY <2>2, <2>3, <2>4
<1>15. Grown(u, t)
  <2>1. ASSUME NEW v \in Obj, u.tree[v] # None
        PROVE  t.tree[v] # None
    <3>1. CASE v \in kept
      <4>1. t.tree[v] = n
        BY <3>1 DEF Nearly, Agrees
      <4> QED BY <1>2, <4>1, NoneAssumption
    <3>2. CASE v \notin kept
      BY <1>7, <2>1, <3>2
    <3> QED BY <3>1, <3>2
  <2> QED BY <1>8, <1>9, <2>1 DEF Grown
<1> QED BY <1>11, <1>12, <1>13, <1>14, <1>15 DEF Good, u

LEMMA SplitGood ==
  ASSUME NEW t, NEW rc, NEW n \in Nodes(t), Nearly(t, rc, n), Overfull(t, n),
         NEW o \in Obj, t.tree[o] = n, NEW u \in Split(t, rc, n, o)
  PROVE  Good(u, rc) /\ Grown(u, t)
<1> DEFINE Through(c) == /\ Kept(t, rc, n, c) = t.objs[n]
                         /\ Cardinality(t.objs[n]) > MaxObjs /\ c.level < MaxLevel
           Quadrant(c, v) == {s \in Children(c) : Includes(s, rc[v])}
           Result(c, v) ==
             IF Quadrant(c, v) = {}
             THEN {Moved(t, n, c, c, t.objs[n])}
             ELSE {Moved(t, n, c, s, Kept(t, rc, n, s)) :
                     s \in {q \in Quadrant(c, v) : ~Through(q)}}
<1>1. PICK c \in {n} \cup {b \in Below(n) : Through(b)},
           v \in Obj \cup t.objs[n] : u \in Result(c, v)
  BY DEF Split
<1>2. /\ Nodes(t) \subseteq Node /\ n \in Node /\ Splits(t, n)
      /\ t.objs[n] \in SUBSET Obj
  BY DEF Nearly, TreeType, Overfull
<1>3. /\ c \in {n} \cup Below(n) /\ c \in Node
      /\ c.level < MaxLevel
      /\ \A w \in t.objs[n] : Includes(c, rc[w])
  <2>1. CASE c = n
    <3>1. \A w \in t.objs[n] : t.tree[w] = n /\ n # None
      BY <1>2, NoneAssumption DEF Nearly, Agrees
    <3>2. \A w \in t.objs[n] : Includes(n, rc[w])
      BY <1>2, <3>1 DEF Nearly, Agrees
    <3> QED BY <1>2, <2>1, <3>2 DEF Splits
  <2>2. CASE c \in Below(n) /\ Through(c)
    BY <2>2 DEF Kept, Below
  <2> QED BY <1>1, <2>1, <2>2
<1>4. Cardinality(t.objs[n]) \in Nat /\ Cardinality(t.objs[n]) <= MaxObjs + 1
      /\ IsFiniteSet(t.objs[n])
  BY <1>2, FiniteTable DEF Nearly
<1>5. CASE u = Moved(t, n, c, c, t.objs[n])
  BY <1>2, <1>3, <1>5, MovedGood
<1>6. ASSUME NEW s \in Children(c), ~Through(s),
             u = Moved(t, n, c, s, Kept(t, rc, n, s))
      PROVE  Good(u, rc) /\ Grown(u, t)
  <2> DEFINE kept == Kept(t, rc, n, s)
  <2>1. kept \in SUBSET t.objs[n] /\ \A w \in kept : Includes(s, rc[w])
    BY DEF Kept
  <2>2. s \in Node /\ s.level \in 1 .. MaxLevel
    BY <1>3, ChildBelow, NodeType
  <2>3. s.level = MaxLevel \/ Cardinality(kept) <= MaxObjs
    <3>1. CASE s.level < MaxLevel
      <4>1. IsFiniteSet(kept) /\ Cardinality(kept) <= Cardinality(t.objs[n])
            /\ (Cardinality(kept) = Cardinality(t.objs[n]) => kept = t.objs[n])
            /\ Cardinality(kept) \in Nat
        BY <1>4, <2>1, FS_Subset, FS_CardinalityType
      <4>2. kept # t.objs[n] \/ ~(Cardinality(t.objs[n]) > MaxObjs)
        BY <1>6, <3>1
      <4> HIDE DEF kept
      <4> QED BY <1>4, <4>1, <4>2, Sides
    <3> QED BY <2>2, <3>1, Sides
  <2> HIDE DEF kept
  <2>4. Good(Moved(t, n, c, s, kept), rc)
        /\ Grown(Moved(t, n, c, s, kept), t)
    BY <1>2, <1>3, <2>1, <2>3, MovedGood
  <2> QED BY <1>6, <2>4 DEF kept
<1> QED BY <1>1, <1>5, <1>6

LEMMA InsertGood ==
  ASSUME NEW t, NEW rc, Good(t, rc), NEW o \in Obj, t.tree[o] = None,
         NEW u \in Insert(t, rc, o)
  PROVE  /\ Good(u, rc) /\ Nodes(t) \subseteq Nodes(u)
         /\ \A v \in Obj \ {o} : u.tree[v] # None => t.tree[v] # None
<1>1. CASE u = t
  BY <1>1
<1>2. ASSUME NEW n \in Home(t, rc[o]),
             u \in IF Overfull(Stored(t, n, o), n)
                   THEN Split(Stored(t, n, o), rc, n, o) ELSE {Stored(t, n, o)}
      PROVE  /\ Good(u, rc) /\ Nodes(t) \subseteq Nodes(u)
             /\ \A v \in Obj \ {o} : u.tree[v] # None => t.tree[v] # None
  <2> DEFINE w == Stored(t, n, o)
  <2>1. n \in Nodes(t) /\ Includes(n, rc[o])
    BY DEF Home
  <2>2. /\ Nearly(w, rc, n) /\ Nodes(w) = Nodes(t) /\ w.tree[o] = n
        /\ ~Overfull(w, n) => Good(w, rc)
    BY <2>1, StoredNearly
  <2>5. \A v \in Obj \ {o} : w.tree[v] = t.tree[v]
    BY DEF Stored, Good, TreeType
  <2> HIDE DEF w
  <2>3. CASE Overfull(w, n)
    <3>1. u \in Split(w, rc, n, o)
      BY <1>2, <2>3 DEF w
    <3> QED BY <2>1, <2>2, <2>3, <2>5, <3>1, SplitGood DEF Grown
  <2>4. CASE ~Overfull(w, n)
    <3>1. u = w
      BY <1>2, <2>4 DEF w
    <3> QED BY <2>2, <2>4, <2>5, <3>1
  <2> QED BY <2>3, <2>4
<1> QED BY <1>1, <1>2 DEF Insert

LEMMA RemovedGood ==
  ASSUME NEW t, NEW rc, Good(t, rc), NEW o \in Obj, t.tree[o] # None
  PROVE  /\ Good(Removed(t, o), rc)
         /\ Removed(t, o).tree[o] = None /\ Nodes(Removed(t, o)) = Nodes(t)
         /\ \A v \in Obj \ {o} : Removed(t, o).tree[v] = t.tree[v]
<1> DEFINE u == Removed(t, o)
           n == t.tree[o]
<1>1. /\ Nodes(t) \subseteq Node /\ Root \in Nodes(t)
      /\ t.objs \in [Nodes(t) -> SUBSET Obj]
      /\ t.count \in [Nodes(t) -> 0 .. MaxObjs + 1]
      /\ t.tree \in [Obj -> Nodes(t) \cup {None}]
  BY DEF Good, TreeType
<1>2. n \in Nodes(t) /\ n \in Node
  BY <1>1
<1>3. /\ u.objs = [t.objs EXCEPT ![n] = @ \ {o}]
      /\ u.count = [t.count EXCEPT ![n] = Counted(@ + 1)]
      /\ u.tree = [t.tree EXCEPT ![o] = None]
  BY DEF Removed
<1>0. n = t.tree[o]
  OBVIOUS
<1> HIDE DEF u, n
<1>4. Nodes(u) = Nodes(t)
  BY <1>1, <1>3 DEF Nodes
<1>5. TreeType(u)
  <2>1. Counted(t.count[n] + 1) \in 0 .. MaxObjs + 1
    <3>1. t.count[n] + 1 \in Nat
      BY <1>1, <1>2
    <3> QED BY <3>1, CountedType
  <2>2. u.objs \in [Nodes(t) -> SUBSET Obj]
    <3>1. t.objs[n] \ {o} \in SUBSET Obj
      BY <1>1, <1>2
    <3> QED BY <1>1, <1>2, <1>3, <3>1
  <2>3. u.count \in [Nodes(t) -> 0 .. MaxObjs + 1]
    BY <1>1, <1>2, <1>3, <2>1
  <2>4. u.tree \in [Obj -> Nodes(t) \cup {None}]
    BY <1>1, <1>3
  <2> QED BY <1>1, <1>4, <2>2, <2>3, <2>4 DEF TreeType
<1>6. Agrees(u, rc)
  <2>1. ASSUME NEW m \in Nodes(t), NEW v \in Obj
        PROVE  v \in u.objs[m] <=> u.tree[v] = m
    <3>1. /\ v \in t.objs[m] <=> t.tree[v] = m
          /\ m # None
      BY <1>1, NoneAssumption DEF Good, Agrees
    <3>2. CASE v = o
      <4>1. u.tree[v] = None
        BY <1>1, <1>3, <3>2
      <4>2. v \notin u.objs[m]
        BY <1>0, <1>1, <1>3, <3>1, <3>2
      <4> QED BY <3>1, <4>1, <4>2
    <3>3. CASE v # o
      <4>1. u.tree[v] = t.tree[v]
        BY <1>1, <1>3, <3>3
      <4>2. v \in u.objs[m] <=> v \in t.objs[m]
        BY <1>1, <1>3, <3>3
      <4> QED BY <3>1, <4>1, <4>2
    <3> QED BY <3>2, <3>3
  <2>2. ASSUME NEW v \in Obj, u.tree[v] # None
        PROVE  Includes(u.tree[v], rc[v])
    <3>1. u.tree[v] = t.tree[v]
      BY <1>1, <1>3, <2>2
    <3> QED BY <2>2, <3>1 DEF Good, Agrees
  <2> QED BY <1>4, <2>1, <2>2 DEF Agrees
<1>7. /\ Cardinality(u.objs[n]) \in Nat /\ Cardinality(t.objs[n]) \in Nat
      /\ Cardinality(u.objs[n]) <= Cardinality(t.objs[n])
  <2>1. t.objs[n] \in SUBSET Obj /\ u.objs[n] = t.objs[n] \ {o}
    BY <1>1, <1>2, <1>3
  <2>2. IsFiniteSet(t.objs[n])
    BY <2>1, FiniteTable
  <2>3. u.objs[n] \in SUBSET t.objs[n] /\ u.objs[n] \in SUBSET Obj
    BY <2>1
  <2> QED BY <2>1, <2>2, <2>3, FiniteTable, FS_Subset
<1>8. \A m \in Nodes(t) \ {n} : u.objs[m] = t.objs[m] /\ u.count[m] = t.count[m]
  BY <1>1, <1>3
<1>9. Counts(u)
  <2>1. Counted(Cardinality(u.objs[n])) <= u.count[n]
    <3>1. Counted(Cardinality(t.objs[n])) <= t.count[n] /\ t.count[n] \in 0 .. MaxObjs + 1
      BY <1>1, <1>2 DEF Good, Counts
    <3>2. Cardinality(u.objs[n]) <= Cardinality(t.objs[n]) + 1
      BY <1>7
    <3>3. Counted(Cardinality(u.objs[n])) <= Counted(t.count[n] + 1)
      BY <1>7, <3>1, <3>2, CountedStep
    <3> QED BY <1>1, <1>2, <1>3, <3>3
  <2> QED BY <1>4, <1>8, <2>1 DEF Counts, Good
<1>10. Bounded(u)
  <2> SUFFICES ASSUME NEW m \in Nodes(t), Splits(u, m)
               PROVE  Cardinality(u.objs[m]) <= MaxObjs
    BY <1>4 DEF Bounded
  <2>1. Cardinality(t.objs[m]) <= MaxObjs
    BY <1>4 DEF Splits, Good, Bounded
  <2>2. CASE m = n
    BY <1>7, <2>1, <2>2, Sides
  <2>3. CASE m # n
    BY <1>8, <2>1, <2>3
  <2> QED BY <2>2, <2>3
<1>11. u.tree[o] = None /\ \A v \in Obj \ {o} : u.tree[v] = t.tree[v]
  BY <1>1, <1>3
<1> QED BY <1>4, <1>5, <1>6, <1>9, <1>10, <1>11 DEF Good, u

(* The rectangle of an object that is in no node does not matter. *)
LEMMA OtherRectangle ==
  ASSUME NEW t, NEW rc, NEW rd, Good(t, rc), NEW o \in Obj, t.tree[o] = None,
         \A v \in Obj \ {o} : rd[v] = rc[v]
  PROVE  Good(t, rd)
BY DEF Good, Agrees

-----------------------------------------------------------------------------
(* The index: a good tree for the objects that have entered.               *)

TreeInv(t, rc, present) ==
  /\ present \in [Obj -> BOOLEAN] /\ rc \in [Obj -> Rect]
  /\ Good(t, rc)
  /\ \A v \in Obj : t.tree[v] # None => present[v]
  /\ \A v \in Obj : present[v] => \E p \in Place : rc[v] = RectOf(p)

LEMMA Rectangles ==
  /\ NoRect \in Rect
  /\ \A p \in Place : RectOf(p) \in Rect
<1>1. MapWidth \in Nat \ {0}
  BY Sides
<1>2. NoRect \in Rect
  BY <1>1 DEF NoRect, Rect, Coordinate
<1>3. ASSUME NEW p \in Place
      PROVE  RectOf(p) \in Rect
  <2>1. p.x \in 0 .. MapWidth /\ p.y \in 0 .. MapWidth /\ p.r \in Nat \ {0}
    BY PlaceAssumption DEF PlaceAssumption
  <2>2. /\ Higher(p.x - p.r, 0) \in 0 .. MapWidth /\ Higher(p.y - p.r, 0) \in 0 .. MapWidth
        /\ Lower(p.x + p.r, MapWidth) \in 0 .. MapWidth
        /\ Lower(p.y + p.r, MapWidth) \in 0 .. MapWidth
    BY <1>1, <2>1 DEF Higher, Lower
  <2> QED BY <2>2 DEF RectOf, Rect, Coordinate
<1> QED BY <1>2, <1>3

LEMMA EnterKeeps ==
  ASSUME NEW t, NEW rc, NEW present, TreeInv(t, rc, present),
         NEW o \in Obj, ~present[o], NEW p \in Place,
         NEW u \in Insert(t, [rc EXCEPT ![o] = RectOf(p)], o)
  PROVE  /\ TreeInv(u, [rc EXCEPT ![o] = RectOf(p)], [present EXCEPT ![o] = TRUE])
         /\ Nodes(t) \subseteq Nodes(u)
<1> DEFINE rd == [rc EXCEPT ![o] = RectOf(p)]
           now == [present EXCEPT ![o] = TRUE]
<1>1. present \in [Obj -> BOOLEAN] /\ rc \in [Obj -> Rect] /\ t.tree[o] = None
  BY DEF TreeInv
<1>2. /\ rd \in [Obj -> Rect] /\ now \in [Obj -> BOOLEAN]
      /\ rd[o] = RectOf(p) /\ now[o] /\ u \in Insert(t, rd, o)
      /\ \A v \in Obj \ {o} : rd[v] = rc[v] /\ now[v] = present[v]
  BY <1>1, Rectangles
<1> HIDE DEF rd, now
<1>3. Good(t, rd)
  BY <1>1, <1>2, OtherRectangle DEF TreeInv
<1>4. /\ Good(u, rd) /\ Nodes(t) \subseteq Nodes(u)
      /\ \A v \in Obj \ {o} : u.tree[v] # None => t.tree[v] # None
  BY <1>1, <1>2, <1>3, InsertGood
<1>5. \A v \in Obj : u.tree[v] # None => now[v]
  BY <1>2, <1>4 DEF TreeInv
<1>6. \A v \in Obj : now[v] => \E q \in Place : rd[v] = RectOf(q)
  BY <1>2 DEF TreeInv
<1>7. TreeInv(u, rd, now)
  BY <1>2, <1>4, <1>5, <1>6 DEF TreeInv
<1> QED BY <1>4, <1>7 DEF rd, now

LEMMA LeaveKeeps ==
  ASSUME NEW t, NEW rc, NEW present, TreeInv(t, rc, present),
         NEW o \in Obj, t.tree[o] # None
  PROVE  /\ TreeInv(Removed(t, o), [rc EXCEPT ![o] = NoRect], [present EXCEPT ![o] = FALSE])
         /\ Nodes(Removed(t, o)) = Nodes(t)
<1> DEFINE rd == [rc EXCEPT ![o] = NoRect]
           now == [present EXCEPT ![o] = FALSE]
           u == Removed(t, o)
<1>1. present \in [Obj -> BOOLEAN] /\ rc \in [Obj -> Rect] /\ Good(t, rc)
  BY DEF TreeInv
<1>2. /\ rd \in [Obj -> Rect] /\ now \in [Obj -> BOOLEAN] /\ ~now[o]
      /\ \A v \in Obj \ {o} : rd[v] = rc[v] /\ now[v] = present[v]
  BY <1>1, Rectangles
<1>3. /\ Good(u, rc) /\ u.tree[o] = None /\ Nodes(u) = Nodes(t)
      /\ \A v \in Obj \ {o} : u.tree[v] = t.tree[v]
  BY <1>1, RemovedGood
<1> HIDE DEF rd, now, u
<1>4. Good(u, rd)
  BY <1>2, <1>3, OtherRectangle
<1>5. \A v \in Obj : u.tree[v] # None => now[v]
  BY <1>2, <1>3 DEF TreeInv
<1>6. \A v \in Obj : now[v] => \E q \in Place : rd[v] = RectOf(q)
  BY <1>2 DEF TreeInv
<1>7. TreeInv(u, rd, now)
  BY <1>2, <1>4, <1>5, <1>6 DEF TreeInv
<1> QED BY <1>3, <1>7 DEF rd, now, u

LEMMA UpdateKeeps ==
  ASSUME NEW t, NEW rc, NEW present, TreeInv(t, rc, present),
         NEW o \in Obj, present[o], NEW p \in Place, NEW u,
         LET rd == [rc EXCEPT ![o] = RectOf(p)]
         IN  IF t.tree[o] = None \/ InPlace(t, rd, o) THEN u = t
             ELSE u \in Insert(Removed(t, o), rd, o)
  PROVE  /\ TreeInv(u, [rc EXCEPT ![o] = RectOf(p)], present)
         /\ Nodes(t) \subseteq Nodes(u)
<1> DEFINE rd == [rc EXCEPT ![o] = RectOf(p)]
<1>1. present \in [Obj -> BOOLEAN] /\ rc \in [Obj -> Rect] /\ Good(t, rc)
  BY DEF TreeInv
<1>2. /\ rd \in [Obj -> Rect] /\ rd[o] = RectOf(p)
      /\ \A v \in Obj \ {o} : rd[v] = rc[v]
  BY <1>1, Rectangles
<1>3. IF t.tree[o] = None \/ InPlace(t, rd, o) THEN u = t
      ELSE u \in Insert(Removed(t, o), rd, o)
  OBVIOUS
<1> HIDE DEF rd
<1>4. \A v \in Obj : present[v] => \E q \in Place : rd[v] = RectOf(q)
  BY <1>2 DEF TreeInv
<1>5. CASE t.tree[o] = None
  <2>1. Good(t, rd)
    BY <1>1, <1>2, <1>5, OtherRectangle
  <2>2. u = t
    BY <1>3, <1>5
  <2> QED BY <1>1, <1>2, <1>4, <2>1, <2>2 DEF TreeInv, rd
<1>6. CASE t.tree[o] # None /\ InPlace(t, rd, o)
  <2>1. Good(t, rd)
    BY <1>1, <1>2, <1>6 DEF Good, Agrees, InPlace
  <2>2. u = t
    BY <1>3, <1>6
  <2> QED BY <1>1, <1>2, <1>4, <2>1, <2>2 DEF TreeInv, rd
<1>7. CASE t.tree[o] # None /\ ~InPlace(t, rd, o)
  <2> DEFINE w == Removed(t, o)
  <2>1. /\ Good(w, rc) /\ w.tree[o] = None /\ Nodes(w) = Nodes(t)
        /\ \A v \in Obj \ {o} : w.tree[v] = t.tree[v]
    BY <1>1, <1>7, RemovedGood
  <2>2. u \in Insert(w, rd, o)
    BY <1>3, <1>7
  <2> HIDE DEF w
  <2>3. Good(w, rd)
    BY <1>2, <2>1, OtherRectangle
  <2>4. /\ Good(u, rd) /\ Nodes(t) \subseteq Nodes(u)
        /\ \A v \in Obj \ {o} : u.tree[v] # None => w.tree[v] # None
    BY <2>1, <2>2, <2>3, InsertGood
  <2>5. \A v \in Obj : u.tree[v] # None => present[v]
    BY <2>1, <2>4 DEF TreeInv
  <2> QED BY <1>1, <1>2, <1>4, <2>4, <2>5 DEF TreeInv, rd
<1> QED BY <1>5, <1>6, <1>7

-----------------------------------------------------------------------------
(* The inductive invariant.  Whatever rectCall still has to visit is in    *)
(* the index: an object that func takes out of it is never visited again.  *)

ScanType ==
  /\ room \in {"new", "ticking", "ended"} /\ who \in Ball \cup {None} /\ walked \subseteq Nodes(quad)
  /\ cur \in Nodes(quad) \cup {None} /\ left \subseteq Obj /\ attached \in BOOLEAN

TreeIInv == TreeInv(quad, rect, entered) /\ ScanType /\ CalledAlive

LEMMA InitInvariant == TreeInit => TreeIInv
<1> SUFFICES ASSUME TreeInit PROVE TreeIInv
  OBVIOUS
<1> USE DEF TreeInit
<1>1. /\ quad.objs = [n \in {Root} |-> {}] /\ quad.count = [n \in {Root} |-> 0]
      /\ quad.tree = [o \in Obj |-> None] /\ Nodes(quad) = {Root}
  BY DEF Nodes
<1>2. Root \in Node /\ Root # None /\ MaxObjs \in Nat
  BY RootNode, Sides
<1> HIDE DEF TreeInit
<1>3. TreeType(quad)
  <2>1. quad.objs \in [{Root} -> SUBSET Obj] /\ quad.tree \in [Obj -> {Root} \cup {None}]
    BY <1>1
  <2>2. quad.count \in [{Root} -> 0 .. MaxObjs + 1]
    <3>1. 0 \in 0 .. MaxObjs + 1
      BY <1>2
    <3> HIDE DEF Root
    <3> QED BY <1>1, <3>1
  <2> QED BY <1>1, <1>2, <2>1, <2>2 DEF TreeType
<1>4. Agrees(quad, rect)
  BY <1>1, <1>2 DEF Agrees
<1>5. Counts(quad) /\ Bounded(quad)
  <2>1. Counted(0) = 0
    BY CountedType, Sides
  <2>2. \A n \in Nodes(quad) : Cardinality(quad.objs[n]) = 0 /\ quad.count[n] = 0
    BY <1>1, FS_EmptySet
  <2> QED BY <1>2, <2>1, <2>2 DEF Counts, Bounded
<1>6. TreeInv(quad, rect, entered)
  BY <1>1, <1>3, <1>4, <1>5, Rectangles DEF TreeInv, Good, TreeInit
<1> QED BY <1>6 DEF TreeIInv, ScanType, CalledAlive, TreeInit

LEMMA EnterStep ==
  ASSUME TreeIInv, NEW o \in Obj, NEW p \in Place, Enter(o, p)
  PROVE  TreeIInv'
<1> USE DEF TreeIInv, Enter, scan
<1>1. TreeInv(quad', rect', entered') /\ Nodes(quad) \subseteq Nodes(quad')
  BY EnterKeeps
<1>2. ScanType'
  BY <1>1 DEF ScanType
<1>3. CalledAlive'
  BY DEF CalledAlive, TreeInv, ScanType
<1> QED BY <1>1, <1>2, <1>3

LEMMA UpdateStep ==
  ASSUME TreeIInv, NEW o \in Obj, NEW p \in Place, Update(o, p)
  PROVE  TreeIInv'
<1>1. /\ entered[o] /\ rect' = [rect EXCEPT ![o] = RectOf(p)]
      /\ TreeInv(quad, rect, entered)
      /\ UNCHANGED <<entered, room, who, walked, cur, left, attached>>
  BY DEF TreeIInv, Update, scan
<1>2. IF quad.tree[o] = None \/ InPlace(quad, rect', o) THEN quad' = quad
      ELSE quad' \in Insert(Removed(quad, o), rect', o)
  BY DEF Update
<1>3. TreeInv(quad', rect', entered) /\ Nodes(quad) \subseteq Nodes(quad')
  BY <1>1, <1>2, UpdateKeeps
<1>4. ScanType'
  BY <1>1, <1>3 DEF ScanType, TreeIInv
<1>5. CalledAlive'
  BY <1>1 DEF CalledAlive, TreeIInv
<1> QED BY <1>1, <1>3, <1>4, <1>5 DEF TreeIInv

(* Every entry of the table is in the index. *)
LEMMA WalkStep ==
  ASSUME TreeIInv, NEW n \in Nodes(quad), Walk(n)
  PROVE  TreeIInv'
<1>1. /\ cur' = n /\ left' = quad.objs[n] /\ attached' = TRUE
      /\ UNCHANGED <<entered, rect, quad, room, who, walked>>
      /\ TreeInv(quad, rect, entered)
  BY DEF TreeIInv, Walk
<1>2. n \in Node /\ quad.objs[n] \in SUBSET Obj
  BY <1>1 DEF TreeInv, Good, TreeType
<1>3. \A v \in quad.objs[n] : entered[v]
  <2> TAKE v \in quad.objs[n]
  <2>1. quad.tree[v] = n /\ v \in Obj
    BY <1>1, <1>2 DEF TreeInv, Good, Agrees
  <2>2. quad.tree[v] # None
    BY <1>2, <2>1, NoneAssumption
  <2> QED BY <1>1, <2>1, <2>2 DEF TreeInv
<1>4. TreeInv(quad', rect', entered')
  BY <1>1
<1>5. ScanType'
  BY <1>1, <1>2 DEF ScanType, TreeIInv
<1>6. CalledAlive'
  BY <1>1, <1>3 DEF CalledAlive
<1> QED BY <1>4, <1>5, <1>6 DEF TreeIInv

(* Leave of an object in the iteration, whatever remains to be visited. *)
LEMMA LeaveStep ==
  ASSUME NEW t, NEW rc, NEW present, TreeInv(t, rc, present), ScanType,
         Nodes(quad) \subseteq Nodes(t), NEW v \in Obj,
         Leave(t, v, present, rc),
         t.tree[v] # None => /\ left' \subseteq {w \in Obj \ {v} : present[w]}
                             /\ attached' \in BOOLEAN
  PROVE  TreeIInv'
<1>1. CASE t.tree[v] = None
  <2>1. quad' = t /\ entered' = present /\ rect' = rc /\ Abort
    BY <1>1 DEF Leave
  <2> QED BY <2>1 DEF TreeIInv, Abort, ScanType, CalledAlive
<1>2. CASE t.tree[v] # None
  <2>1. /\ quad' = Removed(t, v) /\ entered' = [present EXCEPT ![v] = FALSE]
        /\ rect' = [rc EXCEPT ![v] = NoRect] /\ UNCHANGED <<room, who, walked, cur>>
    BY <1>2 DEF Leave
  <2>2. TreeInv(quad', rect', entered') /\ Nodes(quad') = Nodes(t)
    BY <1>2, <2>1, LeaveKeeps
  <2>3. ScanType'
    BY <1>2, <2>1, <2>2 DEF ScanType
  <2>4. CalledAlive'
    BY <1>2, <2>1 DEF CalledAlive, TreeInv
  <2> QED BY <2>2, <2>3, <2>4 DEF TreeIInv
<1> QED BY <1>1, <1>2

LEMMA EatStep ==
  ASSUME TreeIInv, NEW v \in left, Eat(v)
  PROVE  TreeIInv'
<1>1. TreeInv(quad, rect, entered) /\ ScanType /\ v \in Obj
  BY DEF TreeIInv, ScanType
<1>2. \A w \in left : w \in Obj /\ entered[w]
  BY <1>1 DEF TreeIInv, ScanType, CalledAlive
<1>3. /\ Leave(quad, v, entered, rect)
      /\ quad.tree[v] # None => left' = left \ {v} /\ attached' = attached
  BY DEF Eat
<1>4. attached \in BOOLEAN
  BY <1>1 DEF ScanType
<1>5. quad.tree[v] # None => /\ left' \subseteq {w \in Obj \ {v} : entered[w]}
                             /\ attached' \in BOOLEAN
  BY <1>2, <1>3, <1>4
<1> QED BY <1>1, <1>3, <1>5, LeaveStep

LEMMA EatThornStep ==
  ASSUME TreeIInv, NEW v \in left, NEW new \in Thorn, NEW p \in Place,
         EatThorn(v, new, p)
  PROVE  TreeIInv'
<1> DEFINE present == [entered EXCEPT ![new] = TRUE]
           rc == [rect EXCEPT ![new] = RectOf(p)]
           home == Home(quad, rc[new])
<1>1. TreeInv(quad, rect, entered) /\ ScanType /\ v \in Obj /\ new \in Obj
      /\ attached \in BOOLEAN /\ ~entered[new]
  BY DEF TreeIInv, ScanType, EatThorn, Obj
<1>2. PICK t \in Insert(quad, rc, new) :
        \/ /\ Leave(t, v, present, rc)
           /\ t.tree[v] # None => GoOn(t, v, new, home)
        \/ /\ t.tree[v] # None /\ Disturbed(home)
           /\ quad' = Removed(t, v)
           /\ entered' = [present EXCEPT ![v] = FALSE]
           /\ rect' = [rc EXCEPT ![v] = NoRect]
           /\ Abort
  BY DEF EatThorn
<1>3. TreeInv(t, rc, present) /\ Nodes(quad) \subseteq Nodes(t)
  BY <1>1, <1>2, EnterKeeps
<1>4. \A w \in Obj : entered[w] \/ w = new => present[w]
  BY <1>1 DEF TreeInv
<1>5. \A w \in left : w \in Obj /\ present[w]
  BY <1>1, <1>4 DEF TreeIInv, ScanType, CalledAlive
<1>6. home \subseteq Nodes(quad)
  BY DEF Home
<1> HIDE DEF present, rc, home
<1>7. ASSUME Disturbed(home)
      PROVE  \A w \in quad.objs[cur] \cup {new} : w \in Obj /\ present[w]
  <2>1. cur \in Nodes(quad)
    BY <1>6, <1>7 DEF Disturbed
  <2>2. cur \in Node /\ quad.objs[cur] \in SUBSET Obj
    BY <1>1, <2>1 DEF TreeInv, Good, TreeType
  <2>3. \A w \in quad.objs[cur] : quad.tree[w] = cur /\ cur # None
    BY <1>1, <2>1, <2>2, NoneAssumption DEF TreeInv, Good, Agrees
  <2>4. \A w \in quad.objs[cur] : entered[w]
    BY <1>1, <2>2, <2>3 DEF TreeInv
  <2> QED BY <1>1, <1>4, <2>2, <2>4
<1>8. CASE Leave(t, v, present, rc) /\ (t.tree[v] # None => GoOn(t, v, new, home))
  <2>1. ASSUME GoOn(t, v, new, home)
        PROVE  /\ left' \subseteq {w \in Obj \ {v} : present[w]}
               /\ attached' \in BOOLEAN
    <3>1. CASE Disturbed(home)
      BY <1>7, <2>1, <3>1 DEF GoOn
    <3>2. CASE ~Disturbed(home)
      BY <1>1, <1>5, <2>1, <3>2 DEF GoOn
    <3> QED BY <3>1, <3>2
  <2> QED BY <1>1, <1>3, <1>8, <2>1, LeaveStep
<1>9. CASE /\ t.tree[v] # None /\ quad' = Removed(t, v)
           /\ entered' = [present EXCEPT ![v] = FALSE]
           /\ rect' = [rc EXCEPT ![v] = NoRect] /\ Abort
  <2>1. TreeInv(quad', rect', entered')
    BY <1>1, <1>3, <1>9, LeaveKeeps
  <2> QED BY <2>1, <1>9 DEF TreeIInv, Abort, ScanType, CalledAlive
<1> QED BY <1>2, <1>8, <1>9

LEMMA StepInvariant == TreeIInv /\ [TreeNext]_treeVars => TreeIInv'
<1> SUFFICES ASSUME TreeIInv, [TreeNext]_treeVars PROVE TreeIInv'
  OBVIOUS
<1>1. ASSUME NEW o \in Obj, NEW p \in Place, Enter(o, p) PROVE TreeIInv'
  BY <1>1, EnterStep
<1>2. ASSUME NEW o \in Obj \ Thorn, NEW p \in Place, Update(o, p) PROVE TreeIInv'
  BY <1>2, UpdateStep
<1>3. ASSUME NEW o \in Ball, CheckCollision(o) PROVE TreeIInv'
  BY <1>3 DEF CheckCollision, TreeIInv, ScanType, CalledAlive
<1>4. ASSUME NEW n \in Nodes(quad), Walk(n) PROVE TreeIInv'
  BY <1>4, WalkStep
<1>5. ASSUME NEW v \in left, Pass(v) PROVE TreeIInv'
  BY <1>5 DEF Pass, TreeIInv, ScanType, CalledAlive
<1>6. ASSUME NEW v \in left, Eat(v) PROVE TreeIInv'
  BY <1>6, EatStep
<1>7. ASSUME NEW v \in left, NEW new \in Thorn, NEW p \in Place, EatThorn(v, new, p)
      PROVE  TreeIInv'
  BY <1>7, EatThornStep
<1>8. CASE Return
  BY <1>8 DEF Return, TreeIInv, ScanType, CalledAlive
<1>9. CASE EndScan
  BY <1>9 DEF EndScan, TreeIInv, ScanType, CalledAlive
<1>10. CASE AddTimer
  BY <1>10 DEF AddTimer, TreeIInv, ScanType, CalledAlive, scan
<1>11. CASE UNCHANGED treeVars
  BY <1>11 DEF treeVars, TreeIInv, ScanType, CalledAlive
<1> QED BY <1>1, <1>2, <1>3, <1>4, <1>5, <1>6, <1>7, <1>8, <1>9, <1>10, <1>11
        DEF TreeNext

(* The tree stays in order through every enter, move, split and leave, and *)
(* whatever rectCall still visits is in the index.                         *)
THEOREM TreeInvariant == TreeSpec => []TreeIInv
BY InitInvariant, StepInvariant, PTL DEF TreeSpec

-----------------------------------------------------------------------------
(* The variables keep their types. *)
THEOREM QuadTreeTypes == TreeSpec => []TreeTypeOK
<1>1. TreeIInv => TreeTypeOK
  BY DEF TreeIInv, TreeInv, Good, TreeType, ScanType, TreeTypeOK
<1> QED BY <1>1, TreeInvariant, PTL

(* o.tree, the tables of the nodes and the rectangles agree. *)
THEOREM TreesAgree == TreeSpec => []TreeAgrees
<1>1. TreeIInv => TreeAgrees
  BY DEF TreeIInv, TreeInv, Good, Agrees, TreeAgrees
<1> QED BY <1>1, TreeInvariant, PTL

(* A node that may still split holds no more than maxObjs. *)
THEOREM LeavesBounded == TreeSpec => []LeafBounded
<1>1. TreeIInv => LeafBounded
  BY DEF TreeIInv, TreeInv, Good, Bounded, LeafBounded
<1> QED BY <1>1, TreeInvariant, PTL

(* The tree, for any objects, places, levels and capacity. *)
THEOREM QuadTreeSafe == TreeSpec => []QuadSafe
<1>1. QuadSafe <=> TreeTypeOK /\ TreeAgrees /\ LeafBounded
  BY DEF QuadSafe
<1> QED BY <1>1, QuadTreeTypes, TreesAgree, LeavesBounded, PTL

(* Whatever rectCall visits has entered and not left. *)
THEOREM VisitedAlive == TreeSpec => []CalledAlive
<1>1. TreeIInv => CalledAlive
  BY DEF TreeIInv
<1> QED BY <1>1, TreeInvariant, PTL

-----------------------------------------------------------------------------
(* Corners are enough: of two rectangles that overlap, one has a corner in *)
(* the other, if the first is a square on the map and the second a square  *)
(* that is cut only by the border of the map.                              *)

EndIn(a1, a2, b1, b2) == (a1 <= b1 /\ b1 <= a2) \/ (a1 <= b2 /\ b2 <= a2)

LEMMA Corners ==
  ASSUME NEW a, NEW b, EndIn(a.x1, a.x2, b.x1, b.x2), EndIn(a.y1, a.y2, b.y1, b.y2)
  PROVE  HasCorner(a, b)
BY DEF EndIn, HasCorner, Inside

(* Along an axis: a side of the node, and the cut extent of the object. *)
LEMMA Extents ==
  ASSUME NEW a \in 0 .. MapWidth, NEW s \in Nat \ {0}, a + s <= MapWidth,
         NEW c \in 0 .. MapWidth, NEW r \in Nat \ {0}, NEW lo, NEW hi,
         lo = Higher(c - r, 0), hi = Lower(c + r, MapWidth),
         a <= hi, lo <= a + s
  PROVE  /\ EndIn(a, a + s, lo, hi) \/ EndIn(lo, hi, a, a + s)
         /\ ~EndIn(a, a + s, lo, hi) => s < 2 * r
         /\ ~EndIn(lo, hi, a, a + s) => 2 * r < s
BY Sides DEF EndIn, Higher, Lower

LEMMA CornersEnough ==
  ASSUME NEW n \in Node, NEW p \in Place, Overlap(RectOf(p), Area(n))
  PROVE  intersect(Area(n), RectOf(p))
<1> DEFINE a == Area(n)
           b == RectOf(p)
           s == Side[n.level]
<1>1. /\ n.x \in 0 .. MapWidth /\ n.y \in 0 .. MapWidth /\ s \in Nat \ {0}
      /\ n.x + s <= MapWidth /\ n.y + s <= MapWidth
  BY NodeType
<1>2. /\ a.x1 = n.x /\ a.x2 = n.x + s /\ a.y1 = n.y /\ a.y2 = n.y + s
      /\ b.x1 = Higher(p.x - p.r, 0) /\ b.x2 = Lower(p.x + p.r, MapWidth)
      /\ b.y1 = Higher(p.y - p.r, 0) /\ b.y2 = Lower(p.y + p.r, MapWidth)
  BY DEF Area, RectOf
<1>3. p.x \in 0 .. MapWidth /\ p.y \in 0 .. MapWidth /\ p.r \in Nat \ {0}
  BY PlaceAssumption DEF PlaceAssumption
<1>4. /\ b.x1 <= a.x2 /\ a.x1 <= b.x2 /\ b.y1 <= a.y2 /\ a.y1 <= b.y2
  BY DEF Overlap
<1> HIDE DEF a, b, s
<1>5. /\ EndIn(a.x1, a.x2, b.x1, b.x2) \/ EndIn(b.x1, b.x2, a.x1, a.x2)
      /\ ~EndIn(a.x1, a.x2, b.x1, b.x2) => s < 2 * p.r
      /\ ~EndIn(b.x1, b.x2, a.x1, a.x2) => 2 * p.r < s
  BY <1>1, <1>2, <1>3, <1>4, Extents
<1>6. /\ EndIn(a.y1, a.y2, b.y1, b.y2) \/ EndIn(b.y1, b.y2, a.y1, a.y2)
      /\ ~EndIn(a.y1, a.y2, b.y1, b.y2) => s < 2 * p.r
      /\ ~EndIn(b.y1, b.y2, a.y1, a.y2) => 2 * p.r < s
  BY <1>1, <1>2, <1>3, <1>4, Extents
<1>7. \/ EndIn(a.x1, a.x2, b.x1, b.x2) /\ EndIn(a.y1, a.y2, b.y1, b.y2)
      \/ EndIn(b.x1, b.x2, a.x1, a.x2) /\ EndIn(b.y1, b.y2, a.y1, a.y2)
  <2>1. ~(s < 2 * p.r /\ 2 * p.r < s)
    BY <1>1, <1>3
  <2> QED BY <1>5, <1>6, <2>1
<1> QED BY <1>7, Corners DEF intersect, a, b

(* What overlaps a rectangle in a node overlaps every node around that.    *)
LEMMA OverlapsAbove ==
  ASSUME NEW n \in Node, NEW m \in Node, Within(n, m),
         NEW q \in Rect, NEW r \in Rect, Includes(n, r), Overlap(q, r)
  PROVE  Overlap(q, Area(m))
<1>1. /\ n.x \in Nat /\ n.y \in Nat /\ Side[n.level] \in Nat
      /\ m.x \in Nat /\ m.y \in Nat /\ Side[m.level] \in Nat
  BY NodeType
<1>2. /\ m.x <= n.x /\ n.x + Side[n.level] <= m.x + Side[m.level]
      /\ m.y <= n.y /\ n.y + Side[n.level] <= m.y + Side[m.level]
  BY DEF Within
<1>3. /\ n.x <= r.x1 /\ r.x2 <= n.x + Side[n.level]
      /\ n.y <= r.y1 /\ r.y2 <= n.y + Side[n.level]
  BY DEF Includes, include, Inside, Area
<1>4. /\ q.x1 \in Nat /\ q.x2 \in Nat /\ q.y1 \in Nat /\ q.y2 \in Nat
      /\ r.x1 \in Nat /\ r.x2 \in Nat /\ r.y1 \in Nat /\ r.y2 \in Nat
  BY Sides DEF Rect, Coordinate
<1>5. q.x1 <= r.x2 /\ r.x1 <= q.x2 /\ q.y1 <= r.y2 /\ r.y1 <= q.y2
  BY DEF Overlap
<1>6. /\ q.x1 <= m.x + Side[m.level] /\ m.x <= q.x2
      /\ q.y1 <= m.y + Side[m.level] /\ m.y <= q.y2
  BY <1>1, <1>2, <1>3, <1>4, <1>5
<1> QED BY <1>6 DEF Overlap, Area

(* rectCall reaches the node of every object of the tree that overlaps the *)
(* ball, although it looks at corners only.                                *)
THEOREM OverlapsFound == TreeSpec => []Findable
<1>1. TreeIInv => Findable
  <2> SUFFICES ASSUME TreeIInv, NEW b \in Ball, NEW o \in Obj,
                      entered[b], quad.tree[o] # None, Overlap(rect[b], rect[o]),
                      NEW m \in Nodes(quad), Within(quad.tree[o], m)
               PROVE  intersect(Area(m), rect[b])
    BY DEF Findable, Reached
  <2>1. TreeInv(quad, rect, entered) /\ b \in Obj
    BY DEF TreeIInv, Obj
  <2>2. PICK p \in Place : rect[b] = RectOf(p)
    BY <2>1 DEF TreeInv
  <2>3. /\ m \in Node /\ quad.tree[o] \in Node /\ Includes(quad.tree[o], rect[o])
        /\ rect[b] \in Rect /\ rect[o] \in Rect
    BY <2>1 DEF TreeInv, Good, TreeType, Agrees
  <2>4. Overlap(rect[b], Area(m))
    BY <2>3, OverlapsAbove
  <2> QED BY <2>2, <2>3, <2>4, CornersEnough
<1> QED BY <1>1, TreeInvariant, PTL
=============================================================================
