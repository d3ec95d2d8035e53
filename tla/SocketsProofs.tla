--------------------------- MODULE SocketsProofs ----------------------------
(***************************************************************************)
(* Proofs about Sockets: the tables of the connection manager agree, for   *)
(* any number of users, rooms, sockets, frames and changes.                *)
(*                                                                         *)
(* Why it holds: entries of userRoomSockets have the right user and a room *)
(* of userRooms (Owned), so a revocation and a disconnection find in them  *)
(* whatever is in rooms; and a task that takes itself for subscribed is,   *)
(* unless its access was revoked (JoinedIsTrue).                           *)
(***************************************************************************)
EXTENDS Sockets, FiniteSetTheorems, TLAPS

\* What is filed under a user and a room belongs to both.
Owned ==
  /\ \A u \in User : \A s \in users[u] : Uid[s] = u
  /\ \A u \in User, r \in Room : \A s \in userRoomSockets[<<u, r>>] :
       Uid[s] = u /\ r \in userRooms[u]

\* joined_rooms of a socket that is alive, as far as the task can know; it is
\* empty before the connection is made.
JoinedIsTrue ==
  \A s \in Socket :
    /\ pc[s] = "new" => joined[s] = {}
    /\ Serving(s) /\ s \notin dropped =>
         \A r \in joined[s] : s \in rooms[r] \/ r \in lost[s]

Tables == TypeOK /\ RevokeReaches /\ Owned
Inv == Tables /\ SubscribersAreMembers /\ GoneIsForgotten /\ JoinedIsTrue /\ WriterIsSubscribed

-----------------------------------------------------------------------------
(* Types.                                                                   *)

LEMMA LoadedType ==
  ASSUME TypeOK, NEW s \in Socket
  PROVE  /\ Loaded(s) \in SUBSET [room : Room, readOnly : BOOLEAN]
         /\ Cardinality(Loaded(s)) <= 1
<1>1. held[s] \in SUBSET [room : Room, readOnly : BOOLEAN] /\ Cardinality(held[s]) <= 1
  BY DEF TypeOK
<1>2. frame[s] \in Room BY DEF TypeOK
<1> DEFINE x == [room |-> frame[s], readOnly |-> frame[s] \in readOnly]
<1>3. Cardinality({x}) = 1 BY FS_Singleton
<1>4. {x} \in SUBSET [room : Room, readOnly : BOOLEAN] BY <1>2
<1>5. Loaded(s) = held[s] \/ Loaded(s) = {x} BY DEF Loaded
<1> HIDE DEF x
<1> QED BY <1>1, <1>3, <1>4, <1>5

LEMMA InitInv == Init => Inv
<1> SUFFICES ASSUME Init PROVE Inv OBVIOUS
<1>1. TypeOK
  <2>1. Cardinality({}) = 0 BY FS_EmptySet
  <2>2. \A s \in Socket : held[s] = {} BY DEF Init
  <2>3. \A s \in Socket : Cardinality(held[s]) <= 1 BY <2>1, <2>2
  <2> QED BY <2>3 DEF Init, TypeOK, Phase
<1>2. RevokeReaches /\ Owned /\ SubscribersAreMembers BY DEF Init, RevokeReaches, Owned, SubscribersAreMembers
<1>3. GoneIsForgotten /\ JoinedIsTrue /\ WriterIsSubscribed
  BY DEF Init, GoneIsForgotten, JoinedIsTrue, WriterIsSubscribed, Writing, Serving
<1> QED BY <1>1, <1>2, <1>3 DEF Inv, Tables

\* Steps of a task that leave the tables alone.
LEMMA QuietInv ==
  ASSUME Inv, TypeOK', UNCHANGED <<member, tables, joined, dropped, revokes, history>>,
         NEW s \in Socket, NEW p \in Phase \ {"new", "gone"}, Goto(s, p), Serving(s),
         frame' = frame \/ ~Writing(s)',
         \A x \in Socket \ {s} : frame'[x] = frame[x],
         Writing(s)' => s \in dropped \/ s \in rooms[frame[s]] \/ frame[s] \in lost[s]
  PROVE  Inv'
<1>1. /\ pc'[s] = p /\ \A x \in Socket \ {s} : pc'[x] = pc[x]
  BY DEF Goto, Inv, Tables, TypeOK
<1>2. (RevokeReaches /\ Owned /\ SubscribersAreMembers)'
  BY DEF Inv, Tables, RevokeReaches, Owned, SubscribersAreMembers, tables, history
<1>3. GoneIsForgotten' BY <1>1 DEF Inv, GoneIsForgotten, tables
<1>4. JoinedIsTrue'
  BY <1>1 DEF Inv, JoinedIsTrue, Serving, tables, history
<1>5. WriterIsSubscribed'
  BY <1>1 DEF Inv, WriterIsSubscribed, Writing, tables, history
<1> QED BY <1>2, <1>3, <1>4, <1>5 DEF Inv, Tables

-----------------------------------------------------------------------------
(* The steps of a socket's task.                                            *)

LEMMA ConnectTables ==
  ASSUME Inv, NEW s \in Socket, NEW r \in Room, Connect(s, r), UNCHANGED <<member, revokes>>
  PROVE  /\ rooms' \in [Room -> SUBSET Socket] /\ users' \in [User -> SUBSET Socket]
         /\ userRooms' \in [User -> SUBSET Room]
         /\ userRoomSockets' \in [User \X Room -> SUBSET Socket]
         /\ joined' \in [Socket -> SUBSET Room]
         /\ late' \in [Room -> SUBSET Socket] /\ lost' \in [Socket -> SUBSET Room]
         /\ RevokeReaches' /\ Owned' /\ SubscribersAreMembers'
<1>1. Uid[s] \in User BY SocketsAssumption
<1>2. /\ rooms' \in [Room -> SUBSET Socket] /\ users' \in [User -> SUBSET Socket]
      /\ userRooms' \in [User -> SUBSET Room]
      /\ userRoomSockets' \in [User \X Room -> SUBSET Socket]
      /\ joined' \in [Socket -> SUBSET Room]
      /\ late' \in [Room -> SUBSET Socket] /\ lost' \in [Socket -> SUBSET Room]
  BY <1>1 DEF Connect, Inv, Tables, TypeOK
<1>3. \A q \in Room : rooms'[q] = IF q = r THEN rooms[q] \cup {s} ELSE rooms[q]
  BY DEF Connect, Inv, Tables, TypeOK
<1>4. \A u \in User : userRooms'[u] = IF u = Uid[s] THEN userRooms[u] \cup {r} ELSE userRooms[u]
  BY DEF Connect, Inv, Tables, TypeOK
<1>5. \A u \in User, q \in Room : userRoomSockets'[<<u, q>>] =
        IF u = Uid[s] /\ q = r THEN userRoomSockets[<<u, q>>] \cup {s} ELSE userRoomSockets[<<u, q>>]
  BY DEF Connect, Inv, Tables, TypeOK
<1>6. \A x \in Socket : Uid[x] \in User BY SocketsAssumption
<1>7. \A q \in Room : rooms[q] \subseteq Socket BY DEF Inv, Tables, TypeOK
<1>8. RevokeReaches'
  <2> SUFFICES ASSUME NEW q \in Room, NEW x \in rooms'[q]
               PROVE  x \in userRoomSockets'[<<Uid[x], q>>] /\ q \in userRooms'[Uid[x]]
    BY DEF RevokeReaches
  <2>1. x \in Socket /\ Uid[x] \in User BY <1>3, <1>6, <1>7
  <2>2. CASE x = s /\ q = r BY <2>1, <2>2, <1>4, <1>5
  <2>3. CASE ~(x = s /\ q = r)
    <3>1. x \in rooms[q] BY <2>3, <1>3
    <3>2. x \in userRoomSockets[<<Uid[x], q>>] /\ q \in userRooms[Uid[x]]
      BY <3>1 DEF Inv, Tables, RevokeReaches
    <3> QED BY <2>1, <3>2, <1>4, <1>5
  <2> QED BY <2>2, <2>3
<1>9. Owned'
  <2>1. \A u \in User : \A x \in users'[u] : Uid[x] = u BY DEF Inv, Tables, Owned, Connect
  <2>2. ASSUME NEW u \in User, NEW q \in Room, NEW x \in userRoomSockets'[<<u, q>>]
        PROVE  Uid[x] = u /\ q \in userRooms'[u]
    <3>1. x \in userRoomSockets[<<u, q>>] \/ (x = s /\ u = Uid[s] /\ q = r) BY <1>5
    <3>2. x \in userRoomSockets[<<u, q>>] => Uid[x] = u /\ q \in userRooms[u]
      BY DEF Inv, Tables, Owned
    <3> QED BY <3>1, <3>2, <1>4
  <2> QED BY <2>1, <2>2 DEF Owned
<1>10. SubscribersAreMembers'
  <2>1. \A q \in Room : late'[q] =
          IF q = r /\ Uid[s] \notin member[r] THEN late[q] \cup {s} ELSE late[q]
    BY DEF Connect, Inv, Tables, TypeOK
  <2> QED BY <1>3, <2>1 DEF Inv, SubscribersAreMembers
<1> QED BY <1>2, <1>8, <1>9, <1>10

\* After a connect the task is on the room, and nobody else lost a subscription.
LEMMA ConnectTasks ==
  ASSUME Inv, NEW s \in Socket, NEW r \in Room, Connect(s, r),
         NEW p \in Phase \ {"new", "gone"}, Goto(s, p), Serving(s), r = frame[s],
         UNCHANGED <<frame, dropped>>
  PROVE  GoneIsForgotten' /\ JoinedIsTrue' /\ WriterIsSubscribed'
<1>1. /\ pc'[s] = p /\ \A x \in Socket \ {s} : pc'[x] = pc[x]
  BY DEF Goto, Inv, Tables, TypeOK
<1>2. \A q \in Room : rooms'[q] = IF q = r THEN rooms[q] \cup {s} ELSE rooms[q]
  BY DEF Connect, Inv, Tables, TypeOK
<1>3. \A u \in User, q \in Room : userRoomSockets'[<<u, q>>] =
        IF u = Uid[s] /\ q = r THEN userRoomSockets[<<u, q>>] \cup {s} ELSE userRoomSockets[<<u, q>>]
  BY DEF Connect, Inv, Tables, TypeOK
<1>4. \A x \in Socket : /\ joined'[x] = IF x = s THEN joined[x] \cup {r} ELSE joined[x]
                        /\ lost'[x] = IF x = s THEN lost[x] \ {r} ELSE lost[x]
  BY DEF Connect, Inv, Tables, TypeOK
<1>5. \A x \in Socket : Uid[x] \in User /\ frame[x] \in Room /\ joined[x] \subseteq Room
  BY SocketsAssumption DEF Inv, Tables, TypeOK
<1>6. GoneIsForgotten'
  <2> SUFFICES ASSUME NEW x \in Socket, pc'[x] = "gone"
               PROVE  /\ x \notin users'[Uid[x]]
                      /\ \A q \in Room : x \notin rooms'[q] /\ x \notin userRoomSockets'[<<Uid[x], q>>]
    BY DEF GoneIsForgotten
  <2>1. x # s /\ pc[x] = "gone" BY <1>1
  <2> QED BY <2>1, <1>2, <1>3, <1>5 DEF Inv, GoneIsForgotten, Connect
<1>7. JoinedIsTrue'
  <2>0. \A x \in Socket : pc'[x] = "new" => joined'[x] = {}
    BY <1>1, <1>4 DEF Inv, JoinedIsTrue
  <2> SUFFICES ASSUME NEW x \in Socket, Serving(x)', x \notin dropped, NEW q \in joined'[x]
               PROVE  x \in rooms'[q] \/ q \in lost'[x]
    BY <2>0 DEF JoinedIsTrue
  <2>1. Serving(x) BY <1>1 DEF Serving
  <2>2. q \in Room /\ (q \in joined[x] \/ (x = s /\ q = r)) BY <1>4, <1>5
  <2> QED BY <2>1, <2>2, <1>2, <1>4 DEF Inv, JoinedIsTrue
<1>8. WriterIsSubscribed'
  <2> SUFFICES ASSUME NEW x \in Socket, Writing(x)', x \notin dropped
               PROVE  x \in rooms'[frame[x]] \/ frame[x] \in lost'[x]
    BY DEF WriterIsSubscribed
  <2>1. CASE x = s BY <2>1, <1>2
  <2>2. CASE x # s
    <3>1. Writing(x) BY <2>2, <1>1 DEF Writing
    <3> QED BY <3>1, <2>2, <1>2, <1>4, <1>5 DEF Inv, WriterIsSubscribed
  <2> QED BY <2>1, <2>2
<1> QED BY <1>6, <1>7, <1>8

LEMMA AcceptInv ==
  ASSUME Inv, NEW s \in Socket, Accept(s)
  PROVE  Inv'
<1>1. Uid[s] \in User BY SocketsAssumption
<1>2. TypeOK' BY <1>1 DEF Inv, Tables, TypeOK, Accept, Goto, Phase, history
<1>3. /\ pc'[s] = "check" /\ \A x \in Socket \ {s} : pc'[x] = pc[x]
  BY DEF Accept, Goto, Inv, Tables, TypeOK
<1>4. \A u \in User : users'[u] = IF u = Uid[s] THEN users[u] \cup {s} ELSE users[u]
  BY DEF Accept, Inv, Tables, TypeOK
<1>5. (RevokeReaches /\ Owned /\ SubscribersAreMembers)'
  BY <1>4 DEF Inv, Tables, RevokeReaches, Owned, SubscribersAreMembers, Accept, history
<1>6. GoneIsForgotten'
  <2> SUFFICES ASSUME NEW x \in Socket, pc'[x] = "gone"
               PROVE  /\ x \notin users'[Uid[x]]
                      /\ \A q \in Room : x \notin rooms'[q] /\ x \notin userRoomSockets'[<<Uid[x], q>>]
    BY DEF GoneIsForgotten
  <2>1. x # s /\ pc[x] = "gone" BY <1>3
  <2>2. Uid[x] \in User BY SocketsAssumption
  <2> QED BY <2>1, <2>2, <1>4 DEF Inv, GoneIsForgotten, Accept
<1>7. JoinedIsTrue'
  <2>1. joined[s] = {} BY DEF Inv, JoinedIsTrue, Accept
  <2> QED BY <2>1, <1>3 DEF Inv, JoinedIsTrue, Serving, Accept, history
<1>8. WriterIsSubscribed' BY <1>3 DEF Inv, WriterIsSubscribed, Writing, Accept, history
<1> QED BY <1>2, <1>5, <1>6, <1>7, <1>8 DEF Inv, Tables

LEMMA SubscribeInv ==
  ASSUME Inv, NEW s \in Socket, Subscribe(s)
  PROVE  Inv'
<1>1. frame[s] \in Room BY DEF Inv, Tables, TypeOK
<1>2. Connect(s, frame[s]) /\ Goto(s, "open") /\ Serving(s) BY DEF Subscribe, Serving
<1>3. UNCHANGED <<member, revokes, frame, dropped, readOnly, held, targets, frames, changes>>
  BY DEF Subscribe
<1>4. pc' \in [Socket -> Phase] BY <1>2 DEF Goto, Inv, Tables, TypeOK, Phase
<1>5. TypeOK' BY <1>1, <1>2, <1>3, <1>4, ConnectTables DEF Inv, Tables, TypeOK
<1>6. GoneIsForgotten' /\ JoinedIsTrue' /\ WriterIsSubscribed'
  BY <1>1, <1>2, <1>3, ConnectTasks DEF Phase
<1> QED BY <1>1, <1>2, <1>3, <1>5, <1>6, ConnectTables DEF Inv, Tables

LEMMA CheckRoomInv ==
  ASSUME Inv, NEW s \in Socket, CheckRoom(s)
  PROVE  Inv'
<1>1. frame[s] \in Room /\ Serving(s) BY DEF Inv, Tables, TypeOK, CheckRoom, Serving
<1>2. UNCHANGED <<member, revokes, frame, dropped, readOnly, targets, frames, changes>>
  BY DEF CheckRoom
<1>3. /\ held' \in [Socket -> SUBSET [room : Room, readOnly : BOOLEAN]]
      /\ \A x \in Socket : Cardinality(held'[x]) <= 1
  <2>1. held' = [held EXCEPT ![s] = Loaded(s)] BY DEF CheckRoom
  <2>2. \A x \in Socket : held'[x] = IF x = s THEN Loaded(s) ELSE held[x]
    BY <2>1 DEF Inv, Tables, TypeOK
  <2>3. /\ Loaded(s) \in SUBSET [room : Room, readOnly : BOOLEAN]
        /\ Cardinality(Loaded(s)) <= 1
    BY LoadedType DEF Inv, Tables
  <2> QED BY <2>1, <2>2, <2>3 DEF Inv, Tables, TypeOK
<1>4. pc' \in [Socket -> Phase] BY DEF CheckRoom, Goto, Inv, Tables, TypeOK, Phase
<1>5. CASE MayWrite(s) /\ frame[s] \notin joined[s]
  <2>1. Connect(s, frame[s]) /\ Goto(s, "send") BY <1>5 DEF CheckRoom
  <2>2. TypeOK' BY <1>1, <1>2, <1>3, <1>4, <2>1, ConnectTables DEF Inv, Tables, TypeOK
  <2>3. GoneIsForgotten' /\ JoinedIsTrue' /\ WriterIsSubscribed'
    BY <1>1, <1>2, <2>1, ConnectTasks DEF Phase
  <2> QED BY <1>1, <1>2, <2>1, <2>2, <2>3, ConnectTables DEF Inv, Tables
<1>6. CASE ~(MayWrite(s) /\ frame[s] \notin joined[s])
  <2>1. UNCHANGED <<joined, tables, history>> BY <1>6 DEF CheckRoom
  <2>2. TypeOK' BY <1>2, <1>3, <1>4, <2>1 DEF Inv, Tables, TypeOK, tables, history
  <2>3. CASE MayWrite(s)
    <3>1. Goto(s, "send") /\ frame[s] \in joined[s] BY <1>6, <2>3 DEF CheckRoom
    <3>2. s \in dropped \/ s \in rooms[frame[s]] \/ frame[s] \in lost[s]
      BY <1>1, <3>1 DEF Inv, JoinedIsTrue
    <3> QED BY <1>1, <1>2, <2>1, <2>2, <3>1, <3>2, QuietInv DEF Phase
  <2>4. CASE ~MayWrite(s)
    <3>1. Goto(s, "open") BY <2>4 DEF CheckRoom
    <3>2. ~Writing(s)' BY <3>1 DEF Writing, Goto, Inv, Tables, TypeOK
    <3> QED BY <1>1, <1>2, <2>1, <2>2, <3>1, <3>2, QuietInv DEF Phase
  <2> QED BY <2>3, <2>4
<1> QED BY <1>5, <1>6

\* The checks, the frame, the message and the end of its broadcast.
LEMMA QuietStepsInv ==
  ASSUME Inv, NEW s \in Socket,
         \/ CheckQuery(s) \/ QueryFails(s) \/ (\E r \in Room : Receive(s, r))
         \/ CheckMember(s) \/ CheckAgain(s) \/ Persist(s) \/ AllTold(s)
  PROVE  Inv'
<1> USE DEF Phase
<1>0. frame[s] \in Room /\ rooms[frame[s]] \subseteq Socket BY DEF Inv, Tables, TypeOK
<1>1. CASE CheckQuery(s)
  <2>1. PICK p \in {"subscribe", "open"} : Goto(s, p) BY <1>1 DEF CheckQuery
  <2>2. TypeOK' BY <1>1, <2>1 DEF CheckQuery, Goto, Inv, Tables, TypeOK, tables, history
  <2>3. ~Writing(s)' BY <2>1 DEF Writing, Goto, Inv, Tables, TypeOK
  <2>4. Serving(s) /\ frame' = frame /\ UNCHANGED <<member, tables, joined, dropped, revokes, history>>
    BY <1>1 DEF CheckQuery, Serving
  <2> QED BY <2>1, <2>2, <2>3, <2>4, QuietInv
<1>2. CASE QueryFails(s)
  <2>1. Goto(s, "failed") BY <1>2 DEF QueryFails
  <2>2. TypeOK' BY <1>2, <2>1 DEF QueryFails, Goto, Inv, Tables, TypeOK, tables, history
  <2>3. ~Writing(s)' BY <2>1 DEF Writing, Goto, Inv, Tables, TypeOK
  <2>4. Serving(s) /\ frame' = frame /\ UNCHANGED <<member, tables, joined, dropped, revokes, history>>
    BY <1>2 DEF QueryFails, Serving
  <2> QED BY <2>1, <2>2, <2>3, <2>4, QuietInv
<1>3. CASE \E r \in Room : Receive(s, r)
  <2>0. PICK r \in Room : Receive(s, r) BY <1>3
  <2>1. Goto(s, "member") BY <2>0 DEF Receive
  <2>2. TypeOK' BY <2>0, <2>1 DEF Receive, Goto, Inv, Tables, TypeOK, tables, history
  <2>3. ~Writing(s)' BY <2>1 DEF Writing, Goto, Inv, Tables, TypeOK
  <2>4. Serving(s) /\ UNCHANGED <<member, tables, joined, dropped, revokes, history>>
    BY <2>0 DEF Receive, Serving
  <2>5. \A x \in Socket \ {s} : frame'[x] = frame[x] BY <2>0 DEF Receive, Inv, Tables, TypeOK
  <2> QED BY <2>1, <2>2, <2>3, <2>4, <2>5, QuietInv
<1>4. CASE CheckMember(s)
  <2>1. PICK p \in {"room", "open"} : Goto(s, p) BY <1>4 DEF CheckMember
  <2>2. TypeOK' BY <1>4, <2>1 DEF CheckMember, Goto, Inv, Tables, TypeOK, tables, history
  <2>3. ~Writing(s)' BY <2>1 DEF Writing, Goto, Inv, Tables, TypeOK
  <2>4. Serving(s) /\ frame' = frame /\ UNCHANGED <<member, tables, joined, dropped, revokes, history>>
    BY <1>4 DEF CheckMember, Serving
  <2> QED BY <2>1, <2>2, <2>3, <2>4, QuietInv
<1>5. CASE CheckAgain(s)
  <2>1. PICK p \in {"persist", "open"} : Goto(s, p) BY <1>5 DEF CheckAgain
  <2>2. TypeOK' BY <1>5, <2>1 DEF CheckAgain, Goto, Inv, Tables, TypeOK, tables, history
  <2>3. Writing(s) BY <1>5 DEF CheckAgain, Writing
  <2>4. Serving(s) /\ frame' = frame /\ UNCHANGED <<member, tables, joined, dropped, revokes, history>>
    BY <1>5 DEF CheckAgain, Serving
  <2> QED BY <2>1, <2>2, <2>3, <2>4, QuietInv DEF Inv, WriterIsSubscribed
<1>6. CASE Persist(s)
  <2>1. Goto(s, "broadcast") BY <1>6 DEF Persist
  <2>2. TypeOK' BY <1>0, <1>6, <2>1 DEF Persist, Goto, Inv, Tables, TypeOK, tables, history
  <2>3. Writing(s) BY <1>6 DEF Persist, Writing
  <2>4. Serving(s) /\ frame' = frame /\ UNCHANGED <<member, tables, joined, dropped, revokes, history>>
    BY <1>6 DEF Persist, Serving
  <2> QED BY <2>1, <2>2, <2>3, <2>4, QuietInv DEF Inv, WriterIsSubscribed
<1>7. CASE AllTold(s)
  <2>1. Goto(s, "open") BY <1>7 DEF AllTold
  <2>2. TypeOK' BY <1>7, <2>1 DEF AllTold, Goto, Inv, Tables, TypeOK, tables, history
  <2>3. ~Writing(s)' BY <2>1 DEF Writing, Goto, Inv, Tables, TypeOK
  <2>4. Serving(s) /\ frame' = frame /\ UNCHANGED <<member, tables, joined, dropped, revokes, history>>
    BY <1>7 DEF AllTold, Serving
  <2> QED BY <2>1, <2>2, <2>3, <2>4, QuietInv
<1> QED BY <1>1, <1>2, <1>3, <1>4, <1>5, <1>6, <1>7

\* A failed send takes nothing from a socket that is alive.
LEMMA TellInv ==
  ASSUME Inv, NEW s \in Socket, Tell(s)
  PROVE  Inv'
<1>1. PICK x \in targets[s] :
        /\ targets' = [targets EXCEPT ![s] = @ \ {x}]
        /\ rooms' = IF Dead(x) THEN [rooms EXCEPT ![frame[s]] = @ \ {x}] ELSE rooms
  BY DEF Tell
<1>2. frame[s] \in Room BY DEF Inv, Tables, TypeOK
<1>3. \A q \in Room : rooms'[q] \subseteq rooms[q] /\ rooms[q] \ rooms'[q] \subseteq {y \in {x} : Dead(y)}
  BY <1>1, <1>2 DEF Inv, Tables, TypeOK
<1>4. TypeOK'
  <2>1. rooms' \in [Room -> SUBSET Socket] BY <1>1, <1>2 DEF Inv, Tables, TypeOK
  <2>2. targets' \in [Socket -> SUBSET Socket] BY <1>1 DEF Inv, Tables, TypeOK
  <2> QED BY <2>1, <2>2 DEF Tell, Inv, Tables, TypeOK, history
<1>5. (RevokeReaches /\ SubscribersAreMembers)'
  BY <1>3 DEF Tell, Inv, Tables, RevokeReaches, SubscribersAreMembers, history
<1>6. Owned' BY DEF Tell, Inv, Tables, Owned
<1>7. GoneIsForgotten' BY <1>3 DEF Tell, Inv, GoneIsForgotten
<1>8. JoinedIsTrue'
  <2>1. \A y \in Socket, q \in Room :
          Serving(y) /\ y \notin dropped /\ y \in rooms[q] => y \in rooms'[q]
    BY <1>3 DEF Dead
  <2>2. \A y \in Socket : joined[y] \subseteq Room BY DEF Inv, Tables, TypeOK
  <2> QED BY <2>1, <2>2 DEF Tell, Inv, JoinedIsTrue, Serving, history
<1>9. WriterIsSubscribed'
  <2>1. \A y \in Socket, q \in Room :
          Writing(y) /\ y \notin dropped /\ y \in rooms[q] => y \in rooms'[q]
    BY <1>3 DEF Dead, Writing, Serving
  <2>2. \A y \in Socket : frame[y] \in Room BY DEF Inv, Tables, TypeOK
  <2> QED BY <2>1, <2>2 DEF Tell, Inv, WriterIsSubscribed, Writing, history
<1> QED BY <1>4, <1>5, <1>6, <1>7, <1>8, <1>9 DEF Inv, Tables

LEMMA DisconnectInv ==
  ASSUME Inv, NEW s \in Socket, Disconnect(s)
  PROVE  Inv'
<1>1. Forget(s) /\ Goto(s, "gone") BY DEF Disconnect
<1>2. UNCHANGED <<member, readOnly, joined, frame, held, targets, dropped, revokes, history, frames, changes>>
  BY DEF Disconnect
<1>3. \A x \in Socket : Uid[x] \in User BY SocketsAssumption
<1>4. \A u \in User : users'[u] = IF u = Uid[s] THEN users[u] \ {s} ELSE users[u]
  BY <1>1 DEF Forget, Inv, Tables, TypeOK
<1>5. \A q \in Room : rooms'[q] =
        IF q \in userRooms[Uid[s]] \cup joined[s] THEN rooms[q] \ {s} ELSE rooms[q]
  BY <1>1 DEF Forget
<1>6. \A u \in User, q \in Room : userRoomSockets'[<<u, q>>] =
        IF u = Uid[s] /\ q \in userRooms[u] THEN userRoomSockets[<<u, q>>] \ {s}
        ELSE userRoomSockets[<<u, q>>]
  BY <1>1 DEF Forget
<1>7. userRooms' = userRooms BY <1>1 DEF Forget
<1>8. pc'[s] = "gone" /\ \A x \in Socket \ {s} : pc'[x] = pc[x]
  BY <1>1 DEF Goto, Inv, Tables, TypeOK
<1>9. TypeOK'
  <2>1. users' \in [User -> SUBSET Socket] BY <1>1, <1>3 DEF Forget, Inv, Tables, TypeOK
  <2>2. rooms' \in [Room -> SUBSET Socket] BY <1>1 DEF Forget, Inv, Tables, TypeOK
  <2>3. userRoomSockets' \in [User \X Room -> SUBSET Socket] BY <1>1 DEF Forget, Inv, Tables, TypeOK
  <2>4. pc' \in [Socket -> Phase] BY <1>1 DEF Goto, Inv, Tables, TypeOK, Phase
  <2> QED BY <1>2, <1>7, <2>1, <2>2, <2>3, <2>4 DEF Inv, Tables, TypeOK, history
<1>10. \A q \in Room : s \notin rooms'[q] /\ s \notin userRoomSockets'[<<Uid[s], q>>]
  <2> SUFFICES ASSUME NEW q \in Room
               PROVE  s \notin rooms'[q] /\ s \notin userRoomSockets'[<<Uid[s], q>>]
    OBVIOUS
  <2>1. s \in rooms[q] => q \in userRooms[Uid[s]] BY DEF Inv, Tables, RevokeReaches
  <2>2. s \in userRoomSockets[<<Uid[s], q>>] => q \in userRooms[Uid[s]]
    BY <1>3 DEF Inv, Tables, Owned
  <2> QED BY <2>1, <2>2, <1>3, <1>5, <1>6
<1>11. RevokeReaches'
  <2> SUFFICES ASSUME NEW q \in Room, NEW x \in rooms'[q]
               PROVE  x \in userRoomSockets'[<<Uid[x], q>>] /\ q \in userRooms'[Uid[x]]
    BY DEF RevokeReaches
  <2>1. x \in rooms[q] /\ x # s /\ x \in Socket BY <1>5, <1>10 DEF Inv, Tables, TypeOK
  <2>2. x \in userRoomSockets[<<Uid[x], q>>] /\ q \in userRooms[Uid[x]]
    BY <2>1 DEF Inv, Tables, RevokeReaches
  <2> QED BY <2>1, <2>2, <1>3, <1>6, <1>7
<1>12. Owned'
  <2>1. \A u \in User : \A x \in users'[u] : Uid[x] = u BY <1>4 DEF Inv, Tables, Owned
  <2>2. \A u \in User, q \in Room : userRoomSockets'[<<u, q>>] \subseteq userRoomSockets[<<u, q>>]
    BY <1>6
  <2> QED BY <2>1, <2>2, <1>7 DEF Inv, Tables, Owned
<1>13. SubscribersAreMembers' BY <1>2, <1>5 DEF Inv, SubscribersAreMembers, history
<1>14. GoneIsForgotten'
  <2> SUFFICES ASSUME NEW x \in Socket, pc'[x] = "gone"
               PROVE  /\ x \notin users'[Uid[x]]
                      /\ \A q \in Room : x \notin rooms'[q] /\ x \notin userRoomSockets'[<<Uid[x], q>>]
    BY DEF GoneIsForgotten
  <2>1. CASE x = s BY <2>1, <1>3, <1>4, <1>10
  <2>2. CASE x # s
    <3>1. Uid[x] \in User /\ pc[x] = "gone" BY <2>2, <1>3, <1>8
    <3>2. x \notin users[Uid[x]] /\ \A q \in Room : x \notin rooms[q] /\ x \notin userRoomSockets[<<Uid[x], q>>]
      BY <3>1 DEF Inv, GoneIsForgotten
    <3>3. x \notin users'[Uid[x]] BY <3>1, <3>2, <1>4
    <3>4. \A q \in Room : x \notin rooms'[q] BY <3>2, <1>5
    <3>5. \A q \in Room : x \notin userRoomSockets'[<<Uid[x], q>>] BY <3>1, <3>2, <1>6
    <3> QED BY <3>3, <3>4, <3>5
  <2> QED BY <2>1, <2>2
<1>15. JoinedIsTrue'
  <2>1. \A x \in Socket \ {s}, q \in Room : x \in rooms[q] => x \in rooms'[q] BY <1>5
  <2>2. \A x \in Socket : joined[x] \subseteq Room BY DEF Inv, Tables, TypeOK
  <2> QED BY <1>2, <1>8, <2>1, <2>2 DEF Inv, JoinedIsTrue, Serving, history
<1>16. WriterIsSubscribed'
  <2>1. \A x \in Socket \ {s}, q \in Room : x \in rooms[q] => x \in rooms'[q] BY <1>5
  <2>2. \A x \in Socket : frame[x] \in Room BY DEF Inv, Tables, TypeOK
  <2> QED BY <1>2, <1>8, <2>1, <2>2 DEF Inv, WriterIsSubscribed, Writing, history
<1> QED BY <1>9, <1>11, <1>12, <1>13, <1>14, <1>15, <1>16 DEF Inv, Tables

LEMMA DropInv ==
  ASSUME Inv, NEW s \in Socket, Drop(s)
  PROVE  Inv'
<1>1. TypeOK' BY DEF Drop, Inv, Tables, TypeOK, tables, task, history
<1>2. (RevokeReaches /\ Owned /\ SubscribersAreMembers /\ GoneIsForgotten)'
  BY DEF Drop, Inv, Tables, RevokeReaches, Owned, SubscribersAreMembers, GoneIsForgotten,
         tables, task, history
<1>3. JoinedIsTrue' BY DEF Drop, Inv, JoinedIsTrue, Serving, tables, task, history
<1>4. WriterIsSubscribed' BY DEF Drop, Inv, WriterIsSubscribed, Writing, tables, task, history
<1> QED BY <1>1, <1>2, <1>3, <1>4 DEF Inv, Tables

-----------------------------------------------------------------------------
(* What requests do to the tables.                                          *)

\* Changes of rows that leave the tables and the tasks alone.
LEMMA RowsInv ==
  ASSUME Inv, TypeOK', UNCHANGED <<tables, task, dropped, history>>,
         \A u \in User, r \in Room :
           u \in member[r] \/ <<u, r>> \in revokes => (u \in member[r] \/ <<u, r>> \in revokes)'
  PROVE  Inv'
<1>1. (RevokeReaches /\ Owned /\ GoneIsForgotten)'
  BY DEF Inv, Tables, RevokeReaches, Owned, GoneIsForgotten, tables, task
<1>2. SubscribersAreMembers'
  <2>1. \A r \in Room : \A s \in rooms[r] : s \in Socket /\ Uid[s] \in User
    BY SocketsAssumption DEF Inv, Tables, TypeOK
  <2> QED BY <2>1 DEF Inv, SubscribersAreMembers, tables, history
<1>3. JoinedIsTrue' BY DEF Inv, JoinedIsTrue, Serving, tables, task, history
<1>4. WriterIsSubscribed' BY DEF Inv, WriterIsSubscribed, Writing, tables, task, history
<1> QED BY <1>1, <1>2, <1>3, <1>4 DEF Inv, Tables

LEMMA DeleteRowInv ==
  ASSUME Inv, NEW u \in User, NEW r \in Room, DeleteRow(u, r)
  PROVE  Inv'
<1>1. TypeOK' BY DEF DeleteRow, Inv, Tables, TypeOK, tables, task, history
<1>2. \A w \in User, q \in Room :
        w \in member[q] \/ <<w, q>> \in revokes => w \in member'[q] \/ <<w, q>> \in revokes'
  <2> SUFFICES ASSUME NEW w \in User, NEW q \in Room, w \in member[q] \/ <<w, q>> \in revokes
               PROVE  w \in member'[q] \/ <<w, q>> \in revokes'
    OBVIOUS
  <2>1. member'[q] = IF q = r THEN member[q] \ {u} ELSE member[q]
    BY DEF DeleteRow, Inv, Tables, TypeOK
  <2>2. revokes' = revokes \cup {<<u, r>>} BY DEF DeleteRow
  <2> QED BY <2>1, <2>2
<1> QED BY <1>1, <1>2, RowsInv DEF DeleteRow

LEMMA AddRowInv ==
  ASSUME Inv, NEW u \in User, NEW r \in Room, AddRow(u, r)
  PROVE  Inv'
<1>1. TypeOK' BY DEF AddRow, Inv, Tables, TypeOK, tables, task, history
<1>2. \A w \in User, q \in Room :
        w \in member[q] \/ <<w, q>> \in revokes => w \in member'[q] \/ <<w, q>> \in revokes'
  BY DEF AddRow, Inv, Tables, TypeOK
<1> QED BY <1>1, <1>2, RowsInv DEF AddRow

LEMMA PermitInv ==
  ASSUME Inv, NEW r \in Room, Permit(r)
  PROVE  Inv'
<1>1. TypeOK' BY DEF Permit, Inv, Tables, TypeOK, tables, task, history
<1> QED BY <1>1, RowsInv DEF Permit

\* revoke_access takes every socket of the user out of the room.
LEMMA RevokeInv ==
  ASSUME Inv, NEW u \in User, NEW r \in Room, Revoke(u, r)
  PROVE  Inv'
<1> DEFINE hit == userRoomSockets[<<u, r>>]
<1>1. UNCHANGED <<member, readOnly, users, task, dropped, frames, changes>> BY DEF Revoke
<1>2. \A x \in Socket : Uid[x] \in User BY SocketsAssumption
<1>3. \A x \in hit : x \in Socket /\ Uid[x] = u BY DEF Inv, Tables, Owned, TypeOK
<1>4. \A q \in Room : rooms'[q] = IF q = r THEN rooms[q] \ hit ELSE rooms[q]
  BY DEF Revoke, Inv, Tables, TypeOK
<1>5. \A w \in User : userRooms'[w] = IF w = u THEN userRooms[w] \ {r} ELSE userRooms[w]
  BY DEF Revoke, Inv, Tables, TypeOK
<1>6. \A w \in User, q \in Room : userRoomSockets'[<<w, q>>] =
        IF w = u /\ q = r THEN {} ELSE userRoomSockets[<<w, q>>]
  BY DEF Revoke, Inv, Tables, TypeOK
<1>7. \A x \in Socket : lost'[x] = IF x \in rooms[r] /\ Uid[x] = u THEN lost[x] \cup {r} ELSE lost[x]
  BY DEF Revoke
<1>8. \A q \in Room : late'[q] = IF q = r THEN late[q] \ hit ELSE late[q]
  BY DEF Revoke, Inv, Tables, TypeOK
<1>9. revokes' = revokes \ {<<u, r>>} BY DEF Revoke
<1>10. \A x \in rooms'[r] : x \in Socket /\ Uid[x] # u
  <2> SUFFICES ASSUME NEW x \in rooms'[r] PROVE x \in Socket /\ Uid[x] # u OBVIOUS
  <2>1. x \in rooms[r] /\ x \notin hit /\ x \in Socket BY <1>4 DEF Inv, Tables, TypeOK
  <2>2. x \in userRoomSockets[<<Uid[x], r>>] BY <2>1 DEF Inv, Tables, RevokeReaches
  <2> QED BY <2>1, <2>2
<1>11. TypeOK'
  <2>1. rooms' \in [Room -> SUBSET Socket] /\ userRooms' \in [User -> SUBSET Room]
    BY DEF Revoke, Inv, Tables, TypeOK
  <2>2. userRoomSockets' \in [User \X Room -> SUBSET Socket] BY DEF Revoke, Inv, Tables, TypeOK
  <2>3. late' \in [Room -> SUBSET Socket] /\ lost' \in [Socket -> SUBSET Room]
    BY DEF Revoke, Inv, Tables, TypeOK
  <2>4. revokes' \subseteq User \X Room BY <1>9 DEF Inv, Tables, TypeOK
  <2> QED BY <1>1, <2>1, <2>2, <2>3, <2>4 DEF Inv, Tables, TypeOK, task
<1>12. RevokeReaches'
  <2> SUFFICES ASSUME NEW q \in Room, NEW x \in rooms'[q]
               PROVE  x \in userRoomSockets'[<<Uid[x], q>>] /\ q \in userRooms'[Uid[x]]
    BY DEF RevokeReaches
  <2>1. x \in rooms[q] /\ x \in Socket /\ (q = r => Uid[x] # u)
    BY <1>4, <1>10 DEF Inv, Tables, TypeOK
  <2>2. x \in userRoomSockets[<<Uid[x], q>>] /\ q \in userRooms[Uid[x]]
    BY <2>1 DEF Inv, Tables, RevokeReaches
  <2> QED BY <2>1, <2>2, <1>2, <1>5, <1>6
<1>13. Owned'
  <2>1. \A w \in User : \A x \in users'[w] : Uid[x] = w BY <1>1 DEF Inv, Tables, Owned
  <2>2. ASSUME NEW w \in User, NEW q \in Room, NEW x \in userRoomSockets'[<<w, q>>]
        PROVE  Uid[x] = w /\ q \in userRooms'[w]
    <3>1. x \in userRoomSockets[<<w, q>>] /\ ~(w = u /\ q = r) BY <1>6
    <3>2. Uid[x] = w /\ q \in userRooms[w] BY <3>1 DEF Inv, Tables, Owned
    <3> QED BY <3>1, <3>2, <1>5
  <2> QED BY <2>1, <2>2 DEF Owned
<1>14. SubscribersAreMembers'
  <2> SUFFICES ASSUME NEW q \in Room, NEW x \in rooms'[q]
               PROVE  Uid[x] \in member'[q] \/ <<Uid[x], q>> \in revokes' \/ x \in late'[q]
    BY DEF SubscribersAreMembers
  <2>1. x \in rooms[q] /\ (q = r => Uid[x] # u /\ x \notin hit) BY <1>4, <1>10
  <2>2. Uid[x] \in member[q] \/ <<Uid[x], q>> \in revokes \/ x \in late[q]
    BY <2>1 DEF Inv, SubscribersAreMembers
  <2> QED BY <2>1, <2>2, <1>1, <1>8, <1>9
<1>15. GoneIsForgotten'
  <2> SUFFICES ASSUME NEW x \in Socket, pc'[x] = "gone"
               PROVE  /\ x \notin users'[Uid[x]]
                      /\ \A q \in Room : x \notin rooms'[q] /\ x \notin userRoomSockets'[<<Uid[x], q>>]
    BY DEF GoneIsForgotten
  <2>1. x \notin users[Uid[x]] /\ \A q \in Room : x \notin rooms[q] /\ x \notin userRoomSockets[<<Uid[x], q>>]
    BY <1>1 DEF Inv, GoneIsForgotten, task
  <2> QED BY <2>1, <1>1, <1>2, <1>4, <1>6
<1>16. \A x \in Socket, q \in Room : x \in rooms[q] \/ q \in lost[x] => x \in rooms'[q] \/ q \in lost'[x]
  BY <1>3, <1>4, <1>7
<1>17. JoinedIsTrue'
  <2>1. \A x \in Socket : joined[x] \subseteq Room BY DEF Inv, Tables, TypeOK
  <2> QED BY <2>1, <1>1, <1>16 DEF Inv, JoinedIsTrue, Serving, task
<1>18. WriterIsSubscribed'
  <2>1. \A x \in Socket : frame[x] \in Room BY DEF Inv, Tables, TypeOK
  <2> QED BY <2>1, <1>1, <1>16 DEF Inv, WriterIsSubscribed, Writing, task
<1> QED BY <1>11, <1>12, <1>13, <1>14, <1>15, <1>17, <1>18 DEF Inv, Tables

LEMMA NotifyInv ==
  ASSUME Inv, NEW u \in User, Notify(u)
  PROVE  Inv'
<1>1. \A w \in User : users'[w] \subseteq users[w] BY DEF Notify, Inv, Tables, TypeOK
<1>2. users' \in [User -> SUBSET Socket] BY DEF Notify, Inv, Tables, TypeOK
<1>3. TypeOK' BY <1>2 DEF Notify, Inv, Tables, TypeOK, task, history
<1>4. (RevokeReaches /\ Owned /\ SubscribersAreMembers)'
  BY <1>1 DEF Notify, Inv, Tables, RevokeReaches, Owned, SubscribersAreMembers, history
<1>5. GoneIsForgotten'
  <2>1. \A x \in Socket : Uid[x] \in User BY SocketsAssumption
  <2> QED BY <1>1, <2>1 DEF Notify, Inv, GoneIsForgotten, task
<1>6. JoinedIsTrue' BY DEF Notify, Inv, JoinedIsTrue, Serving, task, history
<1>7. WriterIsSubscribed' BY DEF Notify, Inv, WriterIsSubscribed, Writing, task, history
<1> QED BY <1>3, <1>4, <1>5, <1>6, <1>7 DEF Inv, Tables

LEMMA NextInv == Inv /\ [Next]_vars => Inv'
<1> SUFFICES ASSUME Inv, [Next]_vars PROVE Inv' OBVIOUS
<1>1. CASE UNCHANGED vars
  <2>1. TypeOK' BY <1>1 DEF vars, Inv, Tables, TypeOK, tables, task, history
  <2> QED BY <1>1, <2>1, RowsInv DEF vars
<1>2. ASSUME NEW s \in Socket, Serve(s) PROVE Inv'
  BY <1>2, AcceptInv, SubscribeInv, CheckRoomInv, QuietStepsInv, TellInv, DisconnectInv DEF Serve
<1>3. ASSUME NEW s \in Socket, Drop(s) PROVE Inv' BY <1>3, DropInv
<1>4. ASSUME NEW u \in User, NEW r \in Room, DeleteRow(u, r) \/ Revoke(u, r) \/ AddRow(u, r)
      PROVE  Inv'
  BY <1>4, DeleteRowInv, RevokeInv, AddRowInv
<1>5. ASSUME NEW u \in User, Notify(u) PROVE Inv' BY <1>5, NotifyInv
<1>6. ASSUME NEW r \in Room, Permit(r) PROVE Inv' BY <1>6, PermitInv
<1> QED BY <1>1, <1>2, <1>3, <1>4, <1>5, <1>6 DEF Next

-----------------------------------------------------------------------------
LEMMA Always == Spec => []Inv
BY InitInv, NextInv, PTL DEF Spec

\* Every variable keeps to its type, and a session holds one Room object at most.
THEOREM SocketsTypes == Spec => []TypeOK
<1>1. Inv => TypeOK BY DEF Inv, Tables
<1> QED BY <1>1, Always, PTL

\* revoke_access and disconnect_user find every socket a broadcast would reach,
\* and a socket whose task has run its finally clause is in no table, whatever
\* connections, revocations and failed sends came before.  One whose first query
\* failed has not, and is not spoken of.
THEOREM TablesAlwaysAgree == Spec => []TablesAgree
<1>1. Inv => TablesAgree BY DEF Inv, Tables, TablesAgree
<1> QED BY <1>1, Always, PTL

\* Only a stale membership check, or a revocation that is still to come, lets
\* who is no member stay subscribed.
THEOREM OnlyMembersSubscribed == Spec => []SubscribersAreMembers
<1>1. Inv => SubscribersAreMembers BY DEF Inv
<1> QED BY <1>1, Always, PTL

\* Who writes sees the message, unless the access was revoked before.
THEOREM WritersAreSubscribed == Spec => []WriterIsSubscribed
<1>1. Inv => WriterIsSubscribed BY DEF Inv
<1> QED BY <1>1, Always, PTL
=============================================================================
