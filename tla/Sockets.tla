------------------------------ MODULE Sockets ------------------------------
(***************************************************************************)
(* The WebSocket side of a server: which socket is told about which room   *)
(* (app/ws/connection_manager.py, app/routers/ws.py), next to the requests *)
(* that let users join, leave and be removed (app/services/room_service.py)*)
(* and to the broadcast of messages (app/services/message_service.py).     *)
(*                                                                         *)
(* One task serves one socket until it is gone; it awaits the database     *)
(* between its checks and what it does because of them.  The tables of the *)
(* ConnectionManager change between awaits only.                           *)
(*                                                                         *)
(* A definition named "Bad..." is a deliberately wrong variant of the one  *)
(* below it; the properties are tested against these variants.             *)
(***************************************************************************)
EXTENDS Naturals, FiniteSets

CONSTANTS
  User, Room,
  RoomOwner,    \* RoomOwner[r]: rooms.owner_id
  Socket,       \* connections ever made
  Uid,          \* Uid[s]: the user that opened s
  MaxFrames,    \* bound: message frames the sockets send
  MaxChanges    \* bound: joins, leaves, changes of read_only and failed queries

ASSUME SocketsAssumption ==
  /\ RoomOwner \in [Room -> User]
  /\ Uid \in [Socket -> User]
  /\ MaxFrames \in Nat /\ MaxChanges \in Nat

VARIABLES
  member,    \* member[r]: users with a room_members row
  readOnly,  \* rooms that are read-only
  rooms,     \* manager._rooms[r]
  users,     \* manager._users[u]
  userRooms, \* manager._user_rooms[u]
  userRoomSockets,  \* manager._user_room_sockets[<<u, r>>]
  pc,        \* pc[s]: what the task of s does next
  joined,    \* joined[s]: its set joined_rooms
  frame,     \* frame[s]: the room of the frame it handles
  held,      \* held[s]: the Room object its session holds, with the value of
             \* read_only it was loaded with; {} without one
  targets,   \* targets[s]: sockets its broadcast has still to reach
  dropped,   \* sockets whose client is gone
  revokes,   \* <<u, r>> whose row was deleted and whose access not yet revoked
  late,      \* late[r]: sockets that entered _rooms[r] for a user who was no
             \* member any more (history)
  lost,      \* lost[s]: rooms s was taken out of by revoke_access (history)
  frames, changes

tables == <<rooms, users, userRooms, userRoomSockets>>
task == <<pc, joined, frame, held, targets>>
history == <<late, lost>>
vars == <<member, readOnly, tables, task, dropped, revokes, history, frames, changes>>

Phase == {"new", "check", "subscribe", "open", "member", "room", "send", "persist",
          "broadcast", "gone", "failed"}
Serving(s) == pc[s] \notin {"new", "gone", "failed"}
Dead(s) == s \in dropped \/ ~Serving(s)

Init ==
  /\ member = [r \in Room |-> User]
  /\ readOnly = {}
  /\ rooms = [r \in Room |-> {}]
  /\ users = [u \in User |-> {}]
  /\ userRooms = [u \in User |-> {}]
  /\ userRoomSockets = [x \in User \X Room |-> {}]
  /\ pc = [s \in Socket |-> "new"]
  /\ joined = [s \in Socket |-> {}]
  /\ frame \in [Socket -> Room]
  /\ held = [s \in Socket |-> {}]
  /\ targets = [s \in Socket |-> {}]
  /\ dropped = {} /\ revokes = {}
  /\ late = [r \in Room |-> {}] /\ lost = [s \in Socket |-> {}]
  /\ frames = 0 /\ changes = 0

Goto(s, phase) == pc' = [pc EXCEPT ![s] = phase]
-----------------------------------------------------------------------------
\* ConnectionManager.connect, and joined_rooms.add.
Connect(s, r) ==
  /\ rooms' = [rooms EXCEPT ![r] = @ \cup {s}]
  /\ userRooms' = [userRooms EXCEPT ![Uid[s]] = @ \cup {r}]
  /\ userRoomSockets' = [userRoomSockets EXCEPT ![<<Uid[s], r>>] = @ \cup {s}]
  /\ joined' = [joined EXCEPT ![s] = @ \cup {r}]
  /\ late' = [late EXCEPT ![r] = IF Uid[s] \in member[r] THEN @ ELSE @ \cup {s}]
  /\ lost' = [lost EXCEPT ![s] = @ \ {r}]
  /\ UNCHANGED users

\* websocket_endpoint: the token is good; connect_user.  The room the client
\* names in its query is in frame[s].
Accept(s) ==
  /\ pc[s] = "new"
  /\ users' = [users EXCEPT ![Uid[s]] = @ \cup {s}]
  /\ Goto(s, "check")
  /\ UNCHANGED <<member, readOnly, rooms, userRooms, userRoomSockets, joined, frame,
                 held, targets, dropped, revokes, history, frames, changes>>

CheckQuery(s) ==
  /\ pc[s] = "check"
  /\ Goto(s, IF Uid[s] \in member[frame[s]] THEN "subscribe" ELSE "open")
  /\ UNCHANGED <<member, readOnly, tables, joined, frame, held, targets, dropped,
                 revokes, history, frames, changes>>

\* The query raises, for want of a connection, say.  It stands before the try,
\* so nothing takes the socket out of the manager's tables.
QueryFails(s) ==
  /\ pc[s] = "check" /\ changes < MaxChanges
  /\ Goto(s, "failed")
  /\ changes' = changes + 1
  /\ UNCHANGED <<member, readOnly, tables, joined, frame, held, targets, dropped,
                 revokes, history, frames>>

Subscribe(s) ==
  /\ pc[s] = "subscribe"
  /\ Connect(s, frame[s])
  /\ Goto(s, "open")
  /\ UNCHANGED <<member, readOnly, frame, held, targets, dropped, revokes, frames, changes>>

\* A message frame for room r, the first of its checks ahead.
Receive(s, r) ==
  /\ pc[s] = "open" /\ s \notin dropped /\ frames < MaxFrames
  /\ frame' = [frame EXCEPT ![s] = r]
  /\ Goto(s, "member")
  /\ frames' = frames + 1
  /\ UNCHANGED <<member, readOnly, tables, joined, held, targets, dropped, revokes,
                 history, changes>>

CheckMember(s) ==
  /\ pc[s] = "member"
  /\ Goto(s, IF Uid[s] \in member[frame[s]] THEN "room" ELSE "open")
  /\ UNCHANGED <<member, readOnly, tables, joined, frame, held, targets, dropped,
                 revokes, history, frames, changes>>

BadLoaded(s) ==
  held[s] \cup {[room |-> frame[s], readOnly |-> frame[s] \in readOnly]}

\* db.get gives back the object the session still holds: that of the frame
\* before, if it was for the same room, with the attributes of that time.
Loaded(s) ==
  IF \E x \in held[s] : x.room = frame[s] THEN held[s]
  ELSE {[room |-> frame[s], readOnly |-> frame[s] \in readOnly]}

MayWrite(s) ==
  \A x \in Loaded(s) : x.readOnly => RoomOwner[frame[s]] = Uid[s]

BadCheckRoom(s) ==
  /\ pc[s] = "room"
  /\ held' = [held EXCEPT ![s] = Loaded(s)]
  /\ Goto(s, "send")
  /\ UNCHANGED <<joined, tables, history>>
  /\ UNCHANGED <<member, readOnly, frame, targets, dropped, revokes, frames, changes>>

\* The room is loaded and its read_only checked; then the socket is subscribed
\* unless joined_rooms says it is.
CheckRoom(s) ==
  /\ pc[s] = "room"
  /\ held' = [held EXCEPT ![s] = Loaded(s)]
  /\ Goto(s, IF MayWrite(s) THEN "send" ELSE "open")
  /\ IF MayWrite(s) /\ frame[s] \notin joined[s]
     THEN Connect(s, frame[s]) ELSE UNCHANGED <<joined, tables, history>>
  /\ UNCHANGED <<member, readOnly, frame, targets, dropped, revokes, frames, changes>>

\* send_message checks the membership again, stores the message and takes the
\* list of the room's sockets.
CheckAgain(s) ==
  /\ pc[s] = "send"
  /\ Goto(s, IF Uid[s] \in member[frame[s]] THEN "persist" ELSE "open")
  /\ UNCHANGED <<member, readOnly, tables, joined, frame, held, targets, dropped,
                 revokes, history, frames, changes>>

Persist(s) ==
  /\ pc[s] = "persist"
  /\ targets' = [targets EXCEPT ![s] = rooms[frame[s]]]
  /\ Goto(s, "broadcast")
  /\ UNCHANGED <<member, readOnly, tables, joined, frame, held, dropped, revokes,
                 history, frames, changes>>

\* broadcast: one socket after the other; a failed send takes the socket out of
\* the room and goes on.
Tell(s) ==
  /\ pc[s] = "broadcast"
  /\ \E x \in targets[s] :
       /\ targets' = [targets EXCEPT ![s] = @ \ {x}]
       /\ rooms' = IF Dead(x) THEN [rooms EXCEPT ![frame[s]] = @ \ {x}] ELSE rooms
  /\ UNCHANGED <<member, readOnly, users, userRooms, userRoomSockets, pc, joined,
                 frame, held, dropped, revokes, history, frames, changes>>

AllTold(s) ==
  /\ pc[s] = "broadcast" /\ targets[s] = {}
  /\ Goto(s, "open")
  /\ UNCHANGED <<member, readOnly, tables, joined, frame, held, targets, dropped,
                 revokes, history, frames, changes>>

BadForget(s) ==
  /\ users' = [users EXCEPT ![Uid[s]] = @ \ {s}]
  /\ rooms' = [r \in Room |-> IF r \in userRooms[Uid[s]] THEN rooms[r] \ {s} ELSE rooms[r]]
  /\ UNCHANGED <<userRooms, userRoomSockets>>

\* disconnect_user, and disconnect for each of joined_rooms.
Forget(s) ==
  /\ users' = [users EXCEPT ![Uid[s]] = @ \ {s}]
  /\ rooms' = [r \in Room |-> IF r \in userRooms[Uid[s]] \cup joined[s]
                              THEN rooms[r] \ {s} ELSE rooms[r]]
  /\ userRoomSockets' = [x \in User \X Room |->
       IF x[1] = Uid[s] /\ x[2] \in userRooms[x[1]] THEN userRoomSockets[x] \ {s}
       ELSE userRoomSockets[x]]
  /\ UNCHANGED userRooms

\* receive_text, or sending the answer, raises: the finally clause.
Disconnect(s) ==
  /\ pc[s] = "open" /\ s \in dropped
  /\ Forget(s)
  /\ Goto(s, "gone")
  /\ UNCHANGED <<member, readOnly, joined, frame, held, targets, dropped, revokes,
                 history, frames, changes>>

Drop(s) ==
  /\ Serving(s) /\ s \notin dropped
  /\ dropped' = dropped \cup {s}
  /\ UNCHANGED <<member, readOnly, tables, task, revokes, history, frames, changes>>
-----------------------------------------------------------------------------
BadDeleteRow(u, r) ==
  /\ u \in member[r] \ {RoomOwner[r]} /\ changes < MaxChanges
  /\ member' = [member EXCEPT ![r] = @ \ {u}]
  /\ changes' = changes + 1
  /\ UNCHANGED <<readOnly, tables, task, dropped, revokes, history, frames>>

\* leave_room, remove_member, federation_room_membership: the row goes, then
\* the sockets.
DeleteRow(u, r) ==
  /\ u \in member[r] \ {RoomOwner[r]} /\ changes < MaxChanges
  /\ member' = [member EXCEPT ![r] = @ \ {u}]
  /\ revokes' = revokes \cup {<<u, r>>}
  /\ changes' = changes + 1
  /\ UNCHANGED <<readOnly, tables, task, dropped, history, frames>>

\* revoke_access.
Revoke(u, r) ==
  /\ <<u, r>> \in revokes
  /\ rooms' = [rooms EXCEPT ![r] = @ \ userRoomSockets[<<u, r>>]]
  /\ userRooms' = [userRooms EXCEPT ![u] = @ \ {r}]
  /\ userRoomSockets' = [userRoomSockets EXCEPT ![<<u, r>>] = {}]
  /\ lost' = [s \in Socket |-> IF s \in rooms[r] /\ Uid[s] = u
                               THEN lost[s] \cup {r} ELSE lost[s]]
  /\ late' = [late EXCEPT ![r] = @ \ userRoomSockets[<<u, r>>]]
  /\ revokes' = revokes \ {<<u, r>>}
  /\ UNCHANGED <<member, readOnly, users, task, dropped, frames, changes>>

\* send_to_user: sockets that fail are taken off the user's list.
Notify(u) ==
  /\ \E s \in users[u] : Dead(s)
  /\ users' = [users EXCEPT ![u] = {s \in @ : ~Dead(s)}]
  /\ UNCHANGED <<member, readOnly, rooms, userRooms, userRoomSockets, task, dropped,
                 revokes, history, frames, changes>>

\* join_room and invite_user.
AddRow(u, r) ==
  /\ u \notin member[r] /\ changes < MaxChanges
  /\ member' = [member EXCEPT ![r] = @ \cup {u}]
  /\ changes' = changes + 1
  /\ UNCHANGED <<readOnly, tables, task, dropped, revokes, history, frames>>

\* update_permissions.
Permit(r) ==
  /\ changes < MaxChanges
  /\ readOnly' = IF r \in readOnly THEN readOnly \ {r} ELSE readOnly \cup {r}
  /\ changes' = changes + 1
  /\ UNCHANGED <<member, tables, task, dropped, revokes, history, frames>>

Serve(s) ==
  \/ Accept(s) \/ CheckQuery(s) \/ QueryFails(s) \/ Subscribe(s)
  \/ \E r \in Room : Receive(s, r)
  \/ CheckMember(s) \/ CheckRoom(s) \/ CheckAgain(s) \/ Persist(s)
  \/ Tell(s) \/ AllTold(s) \/ Disconnect(s)

Next ==
  \/ \E s \in Socket : Serve(s) \/ Drop(s)
  \/ \E u \in User, r \in Room : DeleteRow(u, r) \/ Revoke(u, r) \/ AddRow(u, r)
  \/ \E u \in User : Notify(u)
  \/ \E r \in Room : Permit(r)

Spec == Init /\ [][Next]_vars

-----------------------------------------------------------------------------
Writing(s) == pc[s] \in {"send", "persist", "broadcast"}

\* Every variable keeps to its type; a session holds one Room object at most.
TypeOK ==
  /\ member \in [Room -> SUBSET User] /\ readOnly \subseteq Room
  /\ rooms \in [Room -> SUBSET Socket]
  /\ users \in [User -> SUBSET Socket]
  /\ userRooms \in [User -> SUBSET Room]
  /\ userRoomSockets \in [User \X Room -> SUBSET Socket]
  /\ pc \in [Socket -> Phase]
  /\ joined \in [Socket -> SUBSET Room] /\ frame \in [Socket -> Room]
  /\ held \in [Socket -> SUBSET [room : Room, readOnly : BOOLEAN]]
  /\ \A s \in Socket : Cardinality(held[s]) <= 1
  /\ targets \in [Socket -> SUBSET Socket]
  /\ dropped \subseteq Socket /\ revokes \subseteq User \X Room
  /\ late \in [Room -> SUBSET Socket] /\ lost \in [Socket -> SUBSET Room]
  /\ frames \in Nat /\ changes \in Nat

\* The four tables of the manager agree as far as revoke_access and
\* disconnect_user rely on it: whatever connects, revocations, disconnections
\* and failed sends come in between, a subscribed socket is found by its user.
RevokeReaches ==
  \A r \in Room : \A s \in rooms[r] :
    s \in userRoomSockets[<<Uid[s], r>>] /\ r \in userRooms[Uid[s]]

\* A socket whose task has come to its finally clause is in no table, however its
\* rooms were left, revoked and joined again before.  Nothing is said of a socket
\* whose first query failed: its task never comes there (QueryFails), and it stays.
GoneIsForgotten ==
  \A s \in Socket : pc[s] = "gone" =>
    /\ s \notin users[Uid[s]]
    /\ \A r \in Room : s \notin rooms[r] /\ s \notin userRoomSockets[<<Uid[s], r>>]

\* The tables agree, and what disconnect_user and disconnect leave behind of a
\* socket that reached them is nothing.
TablesAgree == RevokeReaches /\ GoneIsForgotten

\* Who is no member is not subscribed, unless the revocation is about to come
\* or the socket's task subscribed it after a membership check that had become
\* stale meanwhile.
SubscribersAreMembers ==
  \A r \in Room : \A s \in rooms[r] :
    Uid[s] \in member[r] \/ <<Uid[s], r>> \in revokes \/ s \in late[r]

\* A socket whose frame passed the checks is subscribed to the frame's room, so
\* the sender sees the message too, unless its access was revoked before.
WriterIsSubscribed ==
  \A s \in Socket : Writing(s) /\ s \notin dropped =>
    s \in rooms[frame[s]] \/ frame[s] \in lost[s]

\* websocket_endpoint: "Room is read-only; only the owner can send messages".
OnlyOwnerWritesReadOnly ==
  [][\A s \in Socket :
       /\ pc[s] = "room" /\ pc'[s] = "send"
       /\ frame[s] \in readOnly
       => RoomOwner[frame[s]] = Uid[s]]_vars
=============================================================================
