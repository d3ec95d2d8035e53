# Telecommunicator in TLA+

Telecommunicator is a federated chat: a FastAPI server (`src/app`), a Flet client
(`src/client`) and a Flutter client (`src/flutter_client`).  Each user has a home
server; a room lives on one server, its *host*, and other servers with members in the
room keep a *mirror* of it.  This directory holds TLA+ models of the parts where the
order of events decides whether the program is right, the TLC configurations that check
them, and TLAPS proofs about eight of them.

Run `tlc -config X.cfg MCModule` for a run of the table in section 3 and
`tlapm XProofs.tla` for the proofs of section 5.

## 1. The system

| Part | State | Operations | Meets others through | What is hard |
|---|---|---|---|---|
| Message relay (`message_service`, `routers/federation`, `federation_service`) | `messages`, `files`, `federation_outbox` of each server | post, store, broadcast, relay, retry, queue | signed HTTP between servers, the database, the WebSocket manager | timeouts against late answers, redelivery, two commits per message, crashes, the connection pool |
| Roster (`room_service`, `routers/federation`) | `rooms`, `room_members`, `remote_room_links` of each server | create, join, leave, invite, remove, permissions; import of a mirror, membership events | HTTP, the WebSocket manager, the relay (who are the mirrors) | best-effort events in any order, partial commits of an import, two imports at once |
| Registry and personal chats (`federation_service`, `routers/federation`, `auth_service`, `room_service`) | `servers`, `users`, the server key, personal rooms | discover, trust on first use, sign, verify, register, look up, open a chat | HTTP, the roster's import | find-or-insert everywhere, two first contacts at once, rows that other servers pass on |
| WebSockets (`ws/connection_manager`, `routers/ws`) | four tables of sockets, one task per socket | connect, subscribe, receive, broadcast, revoke, disconnect | room service, message service | checks that are stale when used, a session as old as the socket |
| Group keys (`crypto/sender_keys`, `crypto/sender_key_store`, `sender_key_service`, `views/room_view`) | the author's chain and roster digest, `sender_keys` rows, receiving chains | rotate, upload, encrypt, fetch, decrypt | HTTP to the server, messages | overlapping sends, uploads that fail on one side, rotations that overtake messages, lost storage |
| Direct-message ratchet (`crypto/double_ratchet`, `ratchet_facade`, `ratchet_session_store`) | one session per peer | init, encrypt, decrypt, skip, heal | messages | any order, duplicates, both sides start at once, lost state |
| Room view (`views/room_view`, `ws_client`, `http_client`) | two parallel lists of messages and tiles, the socket, sends under way | open, page, show a frame, send, take back, go back | HTTP, WebSocket | pages against frames, close during connect, optimistic entries, lost answers |
| Session of a client (`state`, `login_view`, `register_view`, `profile_view`, `auth_service`, `message_store`, `key_cache`) | token, user, keys, caches, files; `users` | register, log in, restore, change password, expire, log out, restart | HTTP, WebSocket | forms that fail half way, accounts that follow one another in one process |
| Outbox draining (`flush_pending_relays`) | `federation_outbox` | flush | relay | nobody calls it |
| Files (`file_service`, `file_crypto`, `cache_manager`) | files on disk | upload, download, cache | messages | orphaned files, overlapping downloads, eviction |
| Other views, the Flutter client, primitives, migrations | | | | see section 6 |

What makes each part correct:

- **Relay**: an event is stored once per server; the author's server first; an OK means
  stored and shown, and each relay arrived, queued, or lost with an outbox write that
  failed; what is neither is in a task's hands; nothing circles; a mirror holds only what
  its host or its own users wrote.
- **Roster**: mirrors follow the host when nothing goes wrong, and an import heals them
  when something did; requests end.
- **Registry**: a pinned key is the key its server signs with; users cached by whatever
  way have keys they really had; a granted registration is stored; two users get one chat.
- **WebSockets**: the tables agree so far that a revocation and a disconnect find every
  socket; who left is no longer told; who writes is subscribed.
- **Group keys**: no message key is used twice; nobody outside the roster gets a chain
  key; what a member is meant to read can be read.
- **Ratchet**: no key seals two messages; what is undisturbed is readable in any order;
  a session that broke heals, and one that works stays.
- **Room view**: the two lists agree; pages have no gap and no repetition; a reader misses
  nothing; one socket dispatches; sending never takes others' messages off the screen.
- **Session**: token, user, keys, socket and stores in use belong to one account; forms
  come back to the user; no account is shown bodies that another one decrypted.

## 2. Modules

| Module | Models | State ↔ code |
|---|---|---|
| `Relay` | the relay of one room among servers | `rows`, `filed`, `outbox` are tables; a `Task` `<<event, server, n>>` is one asyncio task, `pc` the await it stands at; `wire` and `answers` are requests and answers under way; `conn` is who holds a pool connection |
| `RoomLog` | what a federated room promises, without protocol | `copy`, `announced`; `Relay` implements it |
| `Roster` | the roster of one room on its host and its mirrors | `hosted`, `roster` are `room_members`, `link` is `remote_room_links`; an `Op` is one request to the host; `imports` and `events` are requests under way |
| `Directory` | the registry of servers, the rows of users, personal chats, the users group rooms bring | `key[s]` and `pin[s]` are the rows of `servers`, `row[s]` those of `users`, `room[s]` personal rooms and mirrors; a `task` is a client's request with all requests it causes, `side` says which server is at work |
| `Sockets` | the connection manager and the task of each socket | `rooms`, `users`, `userRooms`, `userRoomSockets` are its four dictionaries; `pc` is the await a task stands at; `held` is the Room object its session keeps |
| `GroupKeys` | one author's sender keys in one room | `own`, `roster`, `peers` are the client's `SenderKeyStore`; `row` is `sender_keys`; a `Send` is one `_send_group_encrypted`; `upload` is its request at the server |
| `DoubleRatchet` | the ratchet algorithm with symbolic keys | a `Session` is a `RatchetState`; `Turn`, `SkipTo`, `Derives`, `Derived` and `Decrypted` are the steps of `ratchet_decrypt` |
| `Ratchet` | a direct chat of two Python clients | `session` is the `RatchetSessionStore`, `plain` the `PlaintextMessageStore`, `cached` the `PublicKeyCache`; a `task` is a `_decrypt_message_if_needed` waiting for public keys; `posts` is what the server has, `copied` what it has twice |
| `RoomView` | one room on screen and the sockets that feed it | `data` and `tiles` are `_state["messages_data"]` and `messages_list.controls`, `load` and `older` the tasks of the two page loads, `feed` the WebSocket clients ever made, `ws` is `state.ws`, `send` the user's own messages, `log` and `untold` the server |
| `Session` | the accounts of one client | `token`, `me`, `keys`, `socket`, `store` are fields of `AppState`, `peers` the public-key cache, `file` the encrypted files by user name, `form` the handlers of the login and register buttons, `account` the server's `users` |
| `RelayProofs`, `RosterProofs`, `DirectoryProofs`, `SocketsProofs`, `GroupKeysProofs`, `RatchetProofs`, `RoomViewProofs`, `SessionProofs` | theorems and proofs | |
| `MC…` | the instances TLC checks | |

The modules share no variables.  Where they meet, each takes from the others what the
code takes: `Relay` a fixed roster, `Sockets` the joins and leaves of the room service
as actions of its own, `GroupKeys` the participants `get_room` returned, `RoomView` a
server that stores and broadcasts, `Directory` the users of an import but not the link
row, which is in `Roster`.

Steps are cut at the awaits of the code.  Between two awaits a task of one event loop
runs alone, so everything in between is one action, and what a task read before an
await is kept in a variable of the task (`todo`, `snap`, `parts`, `targets`, `held`).
Constants called `Max…` (except `MaxSkip` and `MaxTries`, which the code has) are bounds
of the model, not of the code; each is commented where it is declared.  A *trouble* is
anything that need not happen: a failed or late request, a crash, a lost connection.

A definition `Bad…` is a wrong variant of the definition below it.  Nothing uses it: it
documents a change of the code that some property would notice.

### Relay

`Post` stores a message on its author's server.  The task goes on with `AttachFiles`
(a second commit), `Broadcast`, and then `Attempt`s one `peer` after the other
(`RelayTargets`: the host for a mirror, all mirrors but the author's for the host).
`Accept`/`Refuse` are the receiving endpoint, which runs a task of its own through
`Select`, `Insert` (the unique index on `event_id` fails the second of two) and the same
steps after.  `Timeout` lets the sender go on while the receiver still works.  After
`RelayAttempts` failures `Enqueue` writes the outbox row, or `EnqueueFails`: the handler
catches the exception, logs it and goes on to the next mirror and to its answer, and
`unqueued` records what only the log knows.  (The rolled-back session may instead refuse
its next use, which ends the task; the model allows both.)  `PoolTimeout` ends the loop of
a task that waits for a connection too long, `Crash` ends all tasks of a server.

### Roster

`Begin` … `End` are `invite_user`, `join_room`, `leave_room` and `remove_member` on the
host; `Find`, `Create`, `FillPartly`, `Fill` are the import at the mirror (caching an
unknown user commits whatever is pending, which is why a partial roster is visible);
`Apply` is the membership event.  `ChangeLocally` is a request to a mirror by its own
users, which the host never hears of.

### Directory

Three requests start from clients: `register` (with `Insert` and `Update` of keys), `ask`
for a user of another server, and `chat`.  The last two go through `Resolve`, `Hello` (the
other server is asked for its card), `NewKey`/`AddPin` (trust on first use: look, then
insert), `Sign`, and at the other server `Verify`, which may ask back the same way before
it goes on (`side` is "callee" then), `Serve` or `Import` with `AddOwner`, `AddRoom`,
`Members`.  `Cache`/`AddRow` insert the row of a remote user.  Wherever the code looks and
then inserts, these are two actions, and the unique constraint fails the later insert.
`Introduce` is what a roster, a membership event or the author of a message does to the
rows of users: the receiver caches a user from what another server says, also a user of
a third server it never met, without asking or pinning the home.  `Lose`, `GiveUp` and
`Crash` are troubles.  A host name may be an alias that `Reaches` a server of another name;
the row is keyed by the name in the card.

### Sockets

`Accept`, `CheckQuery`, `Subscribe` are the connection; `Receive`, `CheckMember`,
`CheckRoom`, `CheckAgain`, `Persist`, `Tell`, `AllTold` one frame; `Disconnect` the
`finally`.  `DeleteRow` and `Revoke` are two steps because the code awaits between them.

### GroupKeys

`Begin` asks for the room.  The chain key is sealed for the `Addressed`: everybody in the
roster but the `Namesake`s, users of other servers with the author's bare name, whom
`_send_group_encrypted` skips although the digest of the roster has them.  A public key that
cannot be looked up fails the whole send (`Fail`), since the line that would log it uses a
name that is unbound there.  `UseChain`, `RotateAlone` or `Rotate` follow, the last with an
upload that the server checks (`CheckUpload`) and writes (`CommitUpload`) in two steps.
`UploadDone` adopts the chain and encrypts, `Post` makes the message visible.  `Open` and
`Fetch` are a recipient meeting a message.  A chain key is named by the send that made it;
wrapping, sealing and signing are taken for granted.

### Ratchet

A root key is the sequence of Diffie-Hellman results mixed into it, a chain key the root it
came with, a message key a chain and an index, so two ends have the same key exactly if they
took the same steps.  `Send` is encryption, the write of the session and the post, which may
fail.  `Repost` is the second post of one ciphertext: the client repeats a `POST` after a
timeout or a closed connection, and the server, which sees no id of the client's, stores
another message; message `i` has the copy `-i`.  `Open` is one attempt at a message, in any
order: pages of history come newest first, next to the WebSocket.  Between the look-up of a
stored body and the decryption a task may have to `Await` public keys, so one message may be
decrypted twice; it may also because the body was evicted or could not be written.  Reading,
trying and storing a session is one action, since the Python client awaits nothing there.
`LoseStorage` is a new device or a storage that does not open.

### RoomView

`Enter` opens the room: lists are emptied, `_initial_load` and `_start_ws` start side by
side.  `Join`, `ReadFirst`, `ShowFirst` are the first (its answer is read by the server
before it is shown), `Connect` and `Drop` the second, `LoadOlder`, `ReadOlder`, `ShowOlder`
the scroll to older pages.  `Post` is another's message, `Tell` its broadcast, `Receive` a
frame that is dispatched at once, `Open` one whose decryption had to wait.  `Send`, `Store`,
`Answered`, `TryAgain` and `GiveUp` are an own message, shown before it is sent and taken
back when sending fails.  `sealed` rooms post over HTTP, others write to the socket.  A
sealed room may be `personal`: its frames go to every socket of the user, in other rooms
to the subscribed ones (`Hears`).  `GiveUp` pops an entry in personal chats only; in group
rooms the handler of the failure fails itself before it gets there.
`GoBack` and `GoSettings` leave; the socket of the room is replaced or kept as in the code.

### Session

`BeginLogin` and `BeginRegister` send a form, whose task then goes through `Register`,
`Login`, `Decrypt` (the backup) and `Me`; each may fail and leaves in memory what it had put
there.  An account older than end-to-end encryption has no backup (`Backed`), and its login
goes straight to `Me`, with the keys that are in memory.  `OpenRoom`, `OpenProfile`,
`GoBack` move between views and decide which socket there is; `LookUp` opens the store of
decrypted bodies, `Read` decrypts a message and fills caches and files, where old bodies may
be evicted and the write may fail unnoticed. `untidy` remembers that a session did not end
in order.  `Expire`/`SessionExpired` are the 401 that leads to the login form without a
logout; `Logout` and `LoggedOut` are two steps because closing the HTTP clients is awaited.
`Restart` is the process starting again with what is on disk.

## 3. Runs

| Run | Module | Instance | Checks | Shows |
|---|---|---|---|---|
| `Relay` | `MCRelay` | host and two mirrors, a message of a mirror and one of the host, 3 attempts, pool of 2, 1 trouble (a fault of the network, a failed outbox write or a crash) | `TypeOK NoDuplicateRows FilesFollow AnswerIsPromise NothingDropped ImplementsRoomLog RelaySettles` | rows stay unique through retries and redelivery, answers keep their promise, the refinement, and that relays end although servers can use up each other's connections |
| `RelayFanOut` | `MCRelay` | host and two mirrors, no trouble | `FanOutReachesEveryMirror` (violated) | finding 1 |
| `Roster` | `MCRoster` | host and two mirrors, 4 users, 3 requests that may overlap, 1 trouble | `TypeOK ImportHeals MirrorsFollow OpsEnd` | events and imports keep mirrors up to date, healing, and that requests end |
| `Directory` | `MCDirectory` | three servers, of which two have met, an alias of the third, two names, 2 requests, load 6 (two per request, one per trouble, overlap or row that a group room brings) | `TypeOK PinsAreReal CachedKeysAreGenuine RegisteredIsStored OneChat` | first contacts, registrations, look-ups and chats that race, next to rows passed on by third servers |
| `SocketsTables` | `MCSockets` | two sockets of a member, two rooms, 2 frames, 2 changes | `TypeOK TablesAgree SubscribersAreMembers WriterIsSubscribed` | a revocation and a disconnect find every socket, who is subscribed is a member or about to be revoked, who writes is subscribed |
| `SocketsReadOnly` | `MCSockets` | one socket, one room | `OnlyOwnerWritesReadOnly` (violated) | finding 2 |
| `GroupKeysSent` | `MCGroupKeys` | a member `x` and a namesake `z` of the author, 3 sends of which 2 may overlap, 2 changes of the roster, 2 troubles | `TypeOK KeysUsedOnce KeyStaysInRoster CurrentIsReadable` | no key is used twice or leaves the roster, and what should be readable is, through overlapping sends, failed uploads and lost storage |
| `RatchetRead` | `MCRatchet` | two users, 5 events (messages, repeated posts or troubles), MAX_SKIP 2, 2 bodies kept | `TypeOK KeysUsedOnce AnyOrderIsReadable SessionsHeal` | the ratchet under reordering, repetition, double start and loss |
| `RoomView` | `MCRoomView` | a plain, group or personal room, 2 messages of history, 3 in all, pages of 1, 1 send, opened twice, 2 tries, 2 troubles | `TypeOK ListsAgree PagesAreWhole NothingMissed OneFeed OthersStay PagesEnd` | the view under paging, sending and reconnecting at once |
| `RoomViewEcho` | `MCRoomView` | as before, opened once, no trouble | `EchoReplacesOptimistic` (violated) | finding 3 |
| `Session` | `MCSession` | one name on three servers: one account registered before, one without a backup, one free; 2 key pairs, 2 passwords, 1 trouble | `TypeOK SessionIsOwn BodiesAreOwn FormsEnd` | what is left of a failed form or a former account never mixes with the one on screen |
| `SessionBackup` | `MCSession` | the same accounts, no trouble | `RestoredAtEveryLogin` (violated) | finding 4 |

`Session` and `SessionBackup` check for deadlock: the user can always do something.  The
others say `CHECK_DEADLOCK FALSE`: messages, requests and frames are finite, and when all
are done the system stops.

**Why the bounds are enough.**  *Relay*: a conflict of rows needs two deliveries of one
event, which one trouble gives; a starved pool needs two tasks per server, which two
messages give; three servers are the fewest with a fan-out past the author's.  The attempts
are the code's three.  *Roster*: a mirror misses something through one trouble, or two
overlapping requests; healing is one more request.  *Directory*: a race needs two requests;
what overlaps and fails is bounded together with the requests, so that the load allows two
racing requests that meet a trouble, or one request and several rows brought by group
rooms.  One server knows a user of another at the start and can pass the row on to a third,
which is the shortest way by which a row comes from a server that is not home.  *Sockets*:
two sockets of one user share `_user_rooms` entries, and the second room shows the tables
mixing rooms up; a leave and a join are two changes.  *GroupKeys*: three sends give two
rotations with a rotation interval of 2 and a message left behind in between; a constant of
two kept generations is exceeded by the third; two changes are a leave and a return.
*Ratchet*: a skipped message of an earlier chain, the answer that turns the ratchet, and the
messages after it are four, and the fifth shows the state they leave behind; a key that was
generated but neither posted nor kept is forgotten by everybody, so its name is used again,
which keeps the model finite.  *RoomView*: two messages of history and pages of one give a
second page; the third message is the one that comes between; the second opening meets the
socket of the first.  *Session*: two accounts of one name are what shares a file, and the
third, without a backup, is the one that may be left with another's keys; two passwords are
an old one and a new one.

**Fairness.**  `Relay`: some task that can take a step takes one (`WF` of the union, since
the event loop runs whatever is ready and every task is finite, no task is passed over
for ever), and requests on the wire are received or fail.  `Roster`: each request's own
steps, and requests under way are served.  `RoomView`: the requests for pages (`Join`,
`ReadFirst`, `ShowFirst`, `ReadOlder`, `ShowOlder`), since every HTTP request has a time
limit; nothing of the socket, of sends or of the user is fair.
`Session`: the next step of a form that was sent.  Troubles, crashes and what users do are never
fair.  `GroupKeys`, `Sockets` and `Ratchet` state no liveness, as their retries are up to
the user, and `Directory` none, as it does not model who waits for whom.

## 4. Findings

1. *Fan-out.*  The host relays a mirror's message to the other mirrors signed with its
   own key; the receiving endpoint accepts an author of the signing server only, so the
   relay is refused for ever.  The docstring of `store_and_relay` promises the fan-out.
2. *Read-only.*  A socket's session lives as long as the socket and
   `expire_on_commit=False` keeps its Room object as it was: a member who wrote to a room
   before goes on writing after it became read-only.
3. *Echo.*  The echo of an own message looks for an entry with its `temp_id`, which no
   frame carries: it matches the first entry that has none either, the oldest message of
   the screen, and replaces that one.  The comment says it replaces the optimistic message.
4. *Backup.*  Changing the password leaves the server's key backup sealed with the old
   one.  The next login, with the new password, gets a token and no keys, though
   `at_rest.py` says the identity key is restored at every login.

Seen while modelling and not stated as properties:

- *Relay.*  The outbox row is written after the last attempt, not before the first as
  `FederationOutbox` says, so a crash in between loses the relay silently; and
  `flush_pending_relays`, which would read the rows, has no caller and drops those without a
  link.  A failure of the outbox write is swallowed, so the author may get a 200 for a relay
  that is recorded in a log line only.  A redelivered event may be broadcast again (the
  model allows it, `shown` counts it).
- *Roster.*  The mirror's owner is put back into the roster by each import though the host
  removed this user; two concurrent imports give a server two mirror rooms, and every
  later import fails; the owner of a mirror is the first of an unordered list.
- *Directory.*  The loser of an insert race gets 500 or 403, so of two servers that meet for
  the first time in both directions one request may fail, with consistent pins all the
  same.  Rows of remote users are never refreshed, though the docstring says "Upsert". Users
  of third servers are cached from rosters, events and messages without any contact with, or
  pinned key of, their home; their keys are as good as the servers that passed them on
  (`Introduce`).  A chat asked for twice at once, or one whose mirror could not be
  confirmed, may exist twice, and then `scalar_one_or_none` raises for this pair for ever;
  `OneChat` excludes these pairs (`raced`).
- *Sockets.*  A socket whose user left a room and came back takes itself for subscribed
  and is not; a query that fails before the `try` leaves the socket in the tables; every
  open socket holds a pool connection; two broadcasts may reach two sockets in different
  orders.
- *Group keys.*  A message sent just before a rotation is lost for who had not fetched its
  key, whatever `_KEEP_GENERATIONS` says, since the server keeps the newest row only. A user
  of another server who has the author's bare name is skipped at every rotation and never
  reads a message of this author (`CurrentIsReadable` is about the `Addressed`).  A failed
  key look-up is meant to leave one participant out; the line that logs it uses the name
  `logging`, which the enclosing function binds only in its branch for personal chats, and
  the send fails.  A client without
  its storage starts again at generation 0, which the server ignores.
- *Ratchet.*  A message opened again after the ratchet has turned is taken for a new one,
  its tag does not fit, and healing starts the session again from it, or deletes it; the
  facade's comment says re-delivery leaves the state alone, which holds within the current
  chain only.  A post that was repeated is there twice; the copy that is opened second is
  unreadable, and one opened after the ratchet has turned costs the session in the same way.
  After both users started at once the next message of one is lost and both drop
  their sessions.
- *Room view.*  The first page replaces the data and appends the tiles, so what a frame had
  added before is in one list only (`parted`); a message between the page and the
  subscription is missed; the socket may be checked before the join and is never subscribed
  then; a failed first load leaves nothing to page from; plain sends while disconnected are
  dropped silently; a failure takes back the last optimistic entry, even if it is another
  send's, in personal chats, and none at all in group rooms, where `logging.error` raises
  before the pop; a send that ran into two read timeouts is reported as never delivered
  though it may be stored, once or twice.
- *Session.*  A session that ended by 401 keeps its socket, stores and looked-up keys: who
  logs in next and opens the same room sends through the former user's socket.  The Enter
  key sends a form twice.  A registration whose answer was lost is told on its second
  attempt that the name is taken.  One name on two servers shares a file, and the account
  that writes later overwrites the other's; bodies are also lost when the store is full or a
  write fails, and a ratchet message whose body is lost cannot be read again.  A login to an
  account without a backup goes on with whatever private keys are in memory, which are
  another account's after a form of that one failed late: so `SessionIsOwn` speaks of the
  keys of accounts with a backup only.

## 5. Proofs

All hold for any sets of servers, users, rooms, sockets and events, and for any bounds,
from the assumption on constants each module names, and nothing else.

### RelayProofs (from `RelayAssumption`)

| Theorem | States |
|---|---|
| `TypeCorrect` | `[]TypeOK` |
| `RowsUnique` | `[]NoDuplicateRows` |
| `OriginHasIt` | `[]OriginFirst` |
| `MirrorIsRestricted` | `[]MirrorHoldsOwnAndHostMessages` |
| `NothingEchoes` | `[]NoEcho` |
| `AnswersKeepTheirPromise` | `[]AnswerIsPromise` |
| `RelaysAreNotDropped` | `[]NothingDropped` |
| `FilesAreFollowed` | `[]FilesFollow` |
| `RelayImplementsRoomLog` | `Relay` refines `RoomLog` |

None of the invariants is inductive alone, so they are proved in layers, each using the ones
before: `TypeOK`; `Shape` (requests go along the edges the code relays on, each attempt is
sent and served once, answers belong to attempts somebody waits for or gave up; without it a
handler might serve a request nobody sent); `Storage` (a task past its insert has its row,
and what travels or is stored elsewhere is stored at its origin), which gives `OriginFirst`
and `NoDuplicateRows`; `Promise` (a task past its broadcast has shown the event, and the
relay to every server it no longer has to tell is `Settled`: the event is there, in the
outbox, or its outbox write failed), which gives the other three, since tables only grow;
and the refinement, each action mapping to `Post`, `TakeOver`, `Announce` or a stutter.
`OriginFirst`, `MirrorHoldsOwnAndHostMessages` and `NoEcho` are defined in `RelayProofs`:
they are steps of the argument that are worth stating, and no run checks them.

### RosterProofs (from `RosterAssumption`)

| Theorem | States |
|---|---|
| `RosterTypes` | `[]TypeOK` |
| `ImportsHeal` | `[]ImportHeals` |
| `MirrorsFollowTheHost` | `[]MirrorsFollow` |

An op sends one import at most, with the roster as it is after its own commit (`Imports`),
and tells the mirrors of an addition only when the import is over (`Confirmed`).  An op
that is still `alone` has nobody beside it that changes the host's roster or writes to a
mirror, so what the import carried is still the host's roster, and the mirror it filled
agrees up to its own owner (`Undisturbed`).  Nothing is assumed of what the mirror held
before, which is why the theorem covers every earlier loss, crash and local change.

The layer for `MirrorsFollow` is `Following`: as long as there was no trouble, one op at
most is under way (`OneAtATime`), what is on the network is the one request it waits for
(`Requests`), a mirror server has one room and the host's link points to it (`OneRoom`), and
each linked mirror agrees with the host, or is one the op still has to tell and lacks just
the op's own change, or is being filled (`Synced`).  `Quiet` leaves the first case only.

### DirectoryProofs (from `DirectoryAssumption`)

| Theorem | States |
|---|---|
| `DirectoryTypes` | `[]TypeOK` |
| `DirectoryPins` | `[]PinsAreReal` |
| `CachedKeysAreTheUsers` | `[]CachedKeysAreGenuine` |
| `GrantedIsRegistered` | `[]RegisteredIsStored` |
| `OneChatEach` | `[]OneChat` |

The first layer is `TypeOK /\ PinsAreReal /\ Answers`: a committed key is never
replaced, and `Answers` says that a task about to pin a key was handed a committed one.
That is the point of the race at `get_or_create_server_key`: the key generated by the
request that loses is never given out.

The layer for users is `Genuine`, of every task: the keys it carries, from a look-up or in
the card of an import, were in the row at home when they were read, and what was there once
is in `published` for good (`Carries`); and who registers has stored the row before the
answer (`Registers`).  A row that a group room brings is a copy of a row that is already
genuine, through however many servers it went.

The layer for chats is `ChatInv`.  `OneChat` alone says nothing while a chat is being
made, so the invariant follows the task that makes it: one task at a time is about a chat
that is not in `raced` (`OneAsks`); a room is changed only by the task that made it, and
only as long as that task runs (`Lasting`); the task finds no room, then has one on its own
server and an empty one on the other's, then the same on both (`Stage`); and whenever
nobody mirrors a chat, both servers have the same rooms of it, one at most (`Alike`).
Hence what the query finds on the server that is asked is what the other has, which is
what `create_personal_chat` takes for granted when it answers with the room it found.

### SocketsProofs (from `SocketsAssumption`)

| Theorem | States |
|---|---|
| `SocketsTypes` | `[]TypeOK` |
| `TablesAlwaysAgree` | `[]TablesAgree` |
| `OnlyMembersSubscribed` | `[]SubscribersAreMembers` |
| `WritersAreSubscribed` | `[]WriterIsSubscribed` |

`TablesAgree` has two parts: a revocation and a disconnect find every subscribed socket of
the user (`RevokeReaches`), and a socket whose task ran its `finally` stands in no table
(`GoneIsForgotten`).  Of a socket whose membership query failed before the `try` nothing is
said: it stays in the tables.  `RevokeReaches` needs that the tables per user mention
sockets of that user only (`Owned`); `GoneIsForgotten` and the other theorems follow one
after the other, with `JoinedIsTrue` (what a task takes itself to be subscribed to it is,
unless a revocation took it out) for the last.

### GroupKeysProofs (from the module's assumption)

| Theorem | States |
|---|---|
| `KeysAreUsedOnce` | `[]KeysUsedOnce` |
| `KeysStayInRoster` | `[]KeyStaysInRoster` |
| `GroupKeysTypes` | `[]TypeOK` |
| `CurrentKeyIsReadable` | `[]CurrentIsReadable` |

`Keys` is the layer for the first: a chain key is named by the send that made it and is not
around before (`Fresh`), and the stored chain is past every message it sealed (`Behind`).
`Held` and `Same` are the layer for the second: who holds a chain key, in a row, an upload
or a receiving chain, was in the roster of the send that made the chain, and a send goes on
with a chain only for the same roster.  `TypeOK` needs that a reader has one chain for each
generation and that `put_peer` leaves `_KEEP_GENERATIONS` of them (`Kept`).  For
`CurrentIsReadable`, `Reading` says that a chain stands where the last message read with it
has left it, or at the start, and `Calm` that without trouble the rows of those the key was
addressed to hold the current key, or the one an upload is about to adopt (`Uploads`), and
that every other key anybody holds is of an older generation (`Generations`), so a reader
never takes an old chain for the current one.

### RatchetProofs (from `DoubleRatchetAssumption` and `RatchetAssumption`)

| Theorem | States |
|---|---|
| `RatchetTypes` | `[]TypeOK` |
| `NoKeyTwice` | `[]KeysUsedOnce` |
| `HealsAgain` | `[]SessionsHeal` |
| `AnyOrderReadable` | `[]AnyOrderIsReadable` |

`MaxEvents`, `MaxSkip`, `MaxEntries` and the two peers are arbitrary.  `ChainInv` says what
a chain is.  A chain is a first one, from the shared secret, or its last two results of
Diffie-Hellman name the two ratchet keys that were mixed, which shows whose it is, and a
fresh ratchet key is in no root that is there (`Formed`).  What is posted under one ratchet
key is of one chain, with one PN and each index once (`Apart`).  A session stands at the
sending chain of its own ratchet key, ahead of everything posted in it, receives on the
chain of the ratchet key it has from the other, keeps keys of posted chains only, and what
it has gone past was read or is kept for (`Own`).  This gives `KeysUsedOnce`, and
`SessionsHeal` in every state, after any loss of storage and any restart.
`AnyOrderIsReadable` speaks of a chat that is `calm` (one side started it, no storage was
lost, and no session was changed by a message of which a copy had been read), and needs
`CalmInv` besides: who has no session has posted nothing and nothing of the other's was read
(`Silent`); otherwise one of the two has seen the other's present ratchet key, every unread
message of an earlier chain is kept for, and the chain the other has left ended where its PN
says (`InStep`). `SessionsHeal` and `AnyOrderIsReadable` are about messages of which no copy
was read: that one is readable a second time, in the same copy or in the other, is not so.

### RoomViewProofs (from `RoomViewAssumption`)

| Theorem | States |
|---|---|
| `RoomViewTypes` | `[]TypeOK` |
| `OneClientDispatches` | `[]OneFeed` |
| `ListsKeepInStep` | `[]ListsAgree` |
| `OthersStayOnScreen` | `OthersStay`, an action property |
| `PagesHaveNoGap` | `[]PagesAreWhole` |
| `ReaderMissesNothing` | `[]NothingMissed` |

`Wires`: every WebSocket client but the one in `state.ws` is closed, and while a room is
open that one is wired to it.  `Lists`: an index of the data, counted from the end, is one
of the tiles, and where the data has an optimistic entry the tile is the user's own, so
what `GiveUp` pops is never another's.  `Paged` and `Followed` are about who only reads:
its data holds the ids from the oldest to the newest page once each, with the page that
is under way right before them, and a message newer than the first page is untold, in the
inbox, being opened, or on screen.

### SessionProofs (from `SessionAssumption`)

| Theorem | States |
|---|---|
| `SessionTypes` | `[]TypeOK` |
| `SessionIsOneAccounts` | `[]SessionIsOwn` |
| `BodiesAreOneAccounts` | `[]BodiesAreOwn` |

`SessionIsOwn` speaks of a session in order (not `stained` by overlapping forms or by the
401 that leaves the former user's things behind).  Its invariant adds `Rows` (the keys of
a row never change once it is there), `Forms` (so what a form has learned of a row stays
true), `Alone` (in such a session one form at most is under way, and only while nobody is
logged in), `Course` (what that form has put into the state so far) and `Clean` (who is not
logged in has no connection, stores or looked-up keys).  What both say of private keys is
about accounts with a backup.  `BodiesAreOwn` rests on `Fresh` (a key pair is made once and
is in one row) and `Bodies` (until a session ends out of order, what a file or the store
holds was read by the account whose key seals it), so a file that opens is one's own.

### What is only model-checked

Liveness (`RelaySettles`, `OpsEnd`, `PagesEnd`, `FormsEnd`), which is out
of the prover's reach.  Every invariant and action property of a passing run is proved.

## 6. What is not modelled

- Bytes: hashing, signing, encryption, JSON, HTTP headers.  Requests are taken to be
  signed by who sends them; the clock skew a signature allows and the check of addresses
  before a request are left out; a bad signature changes no state.
- Formatting, layout, logging, notifications to users (`_notify_roster_change`).
- Time stamps and the order of history.
- The fetch of sender keys between servers; leaving a personal chat and invitations to one.
- Functions nothing calls: `flush_pending_relays`, `send_permissions_event`,
  `send_history_sync`, `fetch_history_from_host`, `rotate_keys`, the backup endpoint.
- `Directory` has no connection pool (`Relay` does) and no waiting: two servers that verify
  each other's first request at once wait up to their time limits, which the model shows
  as a lost request only.  `Session` has no attempt limits per address.
- Files and their cache: uploads are single requests that leave an orphan when the message
  fails; the relay of file rows is in `Relay`.
- Other views (`chat_list_view` but for its socket and its way to a room, `room_list_view`,
  the emoji picker, the rest of `profile_view`): forms without state of their own.
- The Flutter client.  It repeats the protocols above in Dart; its ratchet awaits inside a
  step, so encrypting and decrypting may overlap there, which `Ratchet` does not cover.
- Alembic migrations, settings, start-up.

## 7. What is left

In this order: the Flutter client's ratchet on the operators of `DoubleRatchet`; the
promise of the group keys (who may read what) and of personal chats as abstract modules
that `GroupKeys` and `Directory` implement; the file upload and its cache.
