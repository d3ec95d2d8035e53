------------------------------- MODULE Relay -------------------------------
(***************************************************************************)
(* The federated message relay of one room.                                *)
(*                                                                         *)
(* The room is hosted on server Host; every other server keeps a mirror.   *)
(* The author's server stores a new message and relays it: a mirror sends  *)
(* it to the host, the host fans it out to the mirrors.  Each delivery is  *)
(* a signed HTTP request that is retried RelayAttempts times and then      *)
(* recorded in the durable outbox, if that write works (app/services/        *)
(* message_service.py, app/routers/federation.py, app/services/            *)
(* federation_service.py).                                                 *)
(*                                                                         *)
(* One asyncio task of the code is one Task here: <<e, s, n>> works for    *)
(* event e on server s; n = 0 is the author's own send_message or          *)
(* send_encrypted_message, n > 0 the request handler that serves the n-th  *)
(* attempt of the relaying server.  Steps are separated where the code     *)
(* awaits, because another task of the server, a timeout or a crash may    *)
(* come in between.                                                        *)
(*                                                                         *)
(* The roster is fixed: every author is a member on every server.          *)
(*                                                                         *)
(* A definition named "Bad..." is a deliberately wrong variant of the one  *)
(* below it; the properties are tested against these variants.             *)
(***************************************************************************)
EXTENDS Naturals, FiniteSets

CONSTANTS
  Server,         \* the home servers that share the room
  Host,           \* the one that hosts it (rooms.server_name)
  Event,          \* event ids, one per message ever posted
  Origin,         \* Origin[e]: the home server of e's author
  RelayAttempts,  \* _RELAY_ATTEMPTS
  PoolSize,       \* connections of a server's database pool (DB_POOL_SIZE + DB_MAX_OVERFLOW)
  MaxTroubles     \* bound: network failures, timeouts, failed outbox writes and crashes in a behaviour

ASSUME RelayAssumption ==
  /\ Host \in Server
  /\ Origin \in [Event -> Server]
  /\ RelayAttempts \in Nat \ {0}
  /\ PoolSize \in Nat \ {0}
  /\ MaxTroubles \in Nat

Task == Event \X Server \X (0..RelayAttempts)
Ev(t) == t[1]
At(t) == t[2]
Nth(t) == t[3]

\* A federation request: an attempt of a task to hand its event to a server.
Request == [task : Task, to : Server, attempt : 1..RelayAttempts]
Answer == [req : Request, ok : BOOLEAN]
OutboxRow == [task : Task, to : Server]

VARIABLES
  rows,     \* rows[s][e]: rows of s's messages table with event id e
  filed,    \* filed[s]: events whose attached files have their rows on s
  shown,    \* shown[s][e]: how often s broadcast e to its sockets
  outbox,   \* outbox[s]: rows of s's federation_outbox table
  unqueued, \* the rows that could not be written there: only a log line tells of them
  pc,       \* pc[t]: what task t does next
  todo,     \* todo[t]: servers the fan-out loop of t has not settled yet
  peer,     \* peer[t]: the server of the current delivery of t
  attempt,  \* attempt[t]: its attempt number
  conn,     \* tasks that hold a connection of their server's pool
  wire,     \* requests sent and not yet received
  answers,  \* answers a task still waits for
  faults, crashes

durable == <<rows, filed, outbox>>
loop == <<todo, peer, attempt>>
bounds == <<faults, crashes>>
vars == <<durable, unqueued, shown, pc, loop, conn, wire, answers, bounds>>

Phase == {"idle", "select", "insert", "files", "broadcast", "relay", "wait",
          "backoff", "enqueue", "done", "dead"}
Running(t) == pc[t] \notin {"idle", "done", "dead"}

\* The servers that s relays e to.
RelayTargets(s, e) ==
  IF s = Host THEN Server \ {Host, Origin[e]}
  ELSE IF s = Origin[e] THEN {Host} ELSE {}

Init ==
  /\ rows = [s \in Server |-> [e \in Event |-> 0]]
  /\ filed = [s \in Server |-> {}]
  /\ shown = [s \in Server |-> [e \in Event |-> 0]]
  /\ outbox = [s \in Server |-> {}]
  /\ unqueued = {}
  /\ pc = [t \in Task |-> "idle"]
  /\ todo = [t \in Task |-> {}]
  /\ peer = [t \in Task |-> Host]
  /\ attempt = [t \in Task |-> 0]
  /\ conn = {} /\ wire = {} /\ answers = {}
  /\ faults = 0 /\ crashes = 0
-----------------------------------------------------------------------------
\* A session takes a connection with its first query and gives it back with
\* the commit; between the two it is held, outgoing requests included.
FreeConn(s) == Cardinality({t \in conn : At(t) = s}) < PoolSize
CanQuery(t) == t \in conn \/ FreeConn(At(t))

Goto(t, phase) == pc' = [pc EXCEPT ![t] = phase]

\* A task is interested in the answer of the attempt it is waiting for only:
\* after its timeout the connection is closed and the answer goes nowhere.
Awaited(r) == pc[r.task] = "wait" /\ peer[r.task] = r.to /\ attempt[r.task] = r.attempt
Answers(rs, ok) == {[req |-> r, ok |-> ok] : r \in {q \in rs : Awaited(q)}}
Unasked(t) == {a \in answers : a.req.task # t}

\* The request a handler serves.
Served(t) == [task |-> <<Ev(t), Origin[Ev(t)], 0>>, to |-> At(t), attempt |-> Nth(t)]
Reply(t, ok) ==
  answers' = answers \cup (IF Nth(t) > 0 THEN Answers({Served(t)}, ok) ELSE {})
-----------------------------------------------------------------------------
\* send_message / send_encrypted_message: a row with a fresh event id.
Post(e) ==
  LET t == <<e, Origin[e], 0>>
  IN  /\ pc[t] = "idle" /\ CanQuery(t)
      /\ rows' = [rows EXCEPT ![Origin[e]][e] = @ + 1]
      /\ Goto(t, "files")
      /\ UNCHANGED <<filed, unqueued, shown, outbox, loop, conn, wire, answers, bounds>>

\* federation_room_message: what the receiver demands of a relayed message.
\* The author's server must have signed it, and only the host may write into
\* a mirror.
Acceptable(r) ==
  /\ At(r.task) = Origin[Ev(r.task)]
  /\ r.to # Host => At(r.task) = Host

Accept(r) ==
  LET t == <<Ev(r.task), r.to, r.attempt>>
  IN  /\ r \in wire /\ FreeConn(r.to) /\ Acceptable(r)
      /\ Goto(t, "select")
      /\ conn' = conn \cup {t}
      /\ wire' = wire \ {r}
      /\ UNCHANGED <<durable, unqueued, shown, loop, answers, bounds>>

\* 403 for a request that is not acceptable, 500 when the pool has no
\* connection left until its timeout.
Refuse(r) ==
  /\ r \in wire /\ (FreeConn(r.to) => ~Acceptable(r))
  /\ wire' = wire \ {r}
  /\ answers' = answers \cup Answers({r}, FALSE)
  /\ UNCHANGED <<durable, unqueued, shown, pc, loop, conn, bounds>>

BadSelect(t) ==
  /\ pc[t] = "select"
  /\ Goto(t, IF rows[At(t)][Ev(t)] > 0 THEN "insert" ELSE "broadcast")
  /\ UNCHANGED <<durable, unqueued, shown, loop, conn, wire, answers, bounds>>

\* _persist_payload_message: is there a row with this event id already?
Select(t) ==
  /\ pc[t] = "select"
  /\ Goto(t, IF rows[At(t)][Ev(t)] > 0 THEN "broadcast" ELSE "insert")
  /\ UNCHANGED <<durable, unqueued, shown, loop, conn, wire, answers, bounds>>

BadInsert(t) ==
  /\ pc[t] = "insert"
  /\ rows' = [rows EXCEPT ![At(t)][Ev(t)] = @ + 1]
  /\ Goto(t, "files")
  /\ conn' = conn \ {t}
  /\ UNCHANGED <<filed, unqueued, shown, outbox, loop, wire, answers, bounds>>

\* The insert commits, or the unique index on (room_id, event_id) makes it
\* fail because another handler was faster: 500.
Insert(t) ==
  /\ pc[t] = "insert"
  /\ conn' = conn \ {t}
  /\ \/ /\ rows[At(t)][Ev(t)] = 0
        /\ rows' = [rows EXCEPT ![At(t)][Ev(t)] = @ + 1]
        /\ Goto(t, "files")
        /\ UNCHANGED answers
     \/ /\ rows[At(t)][Ev(t)] > 0
        /\ Goto(t, "done")
        /\ Reply(t, FALSE)
        /\ UNCHANGED rows
  /\ UNCHANGED <<filed, unqueued, shown, outbox, loop, wire, bounds>>

BadAttachFiles(t) ==
  /\ pc[t] = "files" /\ CanQuery(t)
  /\ Goto(t, "broadcast")
  /\ conn' = conn \ {t}
  /\ UNCHANGED <<durable, unqueued, shown, loop, wire, answers, bounds>>

\* The second commit: the rows of the attached files.
AttachFiles(t) ==
  /\ pc[t] = "files" /\ CanQuery(t)
  /\ filed' = [filed EXCEPT ![At(t)] = @ \cup {Ev(t)}]
  /\ Goto(t, "broadcast")
  /\ conn' = conn \ {t}
  /\ UNCHANGED <<rows, unqueued, shown, outbox, loop, wire, answers, bounds>>

\* The frame goes to the room's sockets, for a redelivered event as well.
Broadcast(t) ==
  /\ pc[t] = "broadcast" /\ CanQuery(t)
  /\ shown' = [shown EXCEPT ![At(t)][Ev(t)] = @ + 1]
  /\ todo' = [todo EXCEPT ![t] = RelayTargets(At(t), Ev(t))]
  /\ Goto(t, "relay")
  /\ conn' = conn \cup {t}
  /\ UNCHANGED <<durable, unqueued, peer, attempt, wire, answers, bounds>>

\* _deliver_to_mirror: attempt n of the delivery to server to.
Attempt(t, to, n) ==
  /\ peer' = [peer EXCEPT ![t] = to]
  /\ attempt' = [attempt EXCEPT ![t] = n]
  /\ wire' = wire \cup {[task |-> t, to |-> to, attempt |-> n]}
  /\ Goto(t, "wait")
  /\ conn' = conn \cup {t}
  /\ UNCHANGED <<durable, unqueued, shown, todo, answers, bounds>>

Deliver(t) ==
  /\ pc[t] = "relay" /\ CanQuery(t)
  /\ \E to \in todo[t] : Attempt(t, to, 1)

Retry(t) == pc[t] = "backoff" /\ Attempt(t, peer[t], attempt[t] + 1)

BadFailedTooOften(t) ==
  Goto(t, IF attempt[t] <= RelayAttempts THEN "backoff" ELSE "enqueue")
Failed(t) == Goto(t, IF attempt[t] < RelayAttempts THEN "backoff" ELSE "enqueue")

BadGetAnswer(t) ==
  /\ \E a \in answers : a.req.task = t /\ a.ok
  /\ todo' = [todo EXCEPT ![t] = @ \ {peer[t]}]
  /\ Goto(t, "relay")
  /\ answers' = Unasked(t)
  /\ UNCHANGED <<durable, unqueued, shown, peer, attempt, conn, wire, bounds>>

GetAnswer(t) ==
  /\ \E a \in answers :
        /\ a.req.task = t
        /\ \/ /\ a.ok
              /\ todo' = [todo EXCEPT ![t] = @ \ {peer[t]}]
              /\ Goto(t, "relay")
           \/ ~a.ok /\ Failed(t) /\ UNCHANGED todo
  /\ answers' = Unasked(t)
  /\ UNCHANGED <<durable, unqueued, shown, peer, attempt, conn, wire, bounds>>

\* The answer does not come in time; the request may still be processed.
Timeout(t) ==
  /\ pc[t] = "wait" /\ faults + crashes < MaxTroubles
  /\ Failed(t)
  /\ answers' = Unasked(t)
  /\ faults' = faults + 1
  /\ UNCHANGED <<durable, unqueued, shown, loop, conn, wire, crashes>>

\* The request never reaches its server.
ConnectFail(r) ==
  /\ r \in wire /\ Awaited(r) /\ faults + crashes < MaxTroubles
  /\ Failed(r.task)
  /\ wire' = wire \ {r}
  /\ answers' = Unasked(r.task)
  /\ faults' = faults + 1
  /\ UNCHANGED <<durable, unqueued, shown, loop, conn, crashes>>

BadEnqueue(t) ==
  /\ pc[t] = "enqueue"
  /\ todo' = [todo EXCEPT ![t] = @ \ {peer[t]}]
  /\ Goto(t, "relay")
  /\ conn' = conn \ {t}
  /\ UNCHANGED <<durable, unqueued, shown, peer, attempt, wire, answers, bounds>>

Relayed(t) == [task |-> t, to |-> peer[t]]

\* enqueue_outbox_message, after the last attempt failed.
Enqueue(t) ==
  /\ pc[t] = "enqueue"
  /\ outbox' = [outbox EXCEPT ![At(t)] = @ \cup {Relayed(t)}]
  /\ todo' = [todo EXCEPT ![t] = @ \ {peer[t]}]
  /\ Goto(t, "relay")
  /\ conn' = conn \ {t}
  /\ UNCHANGED <<rows, filed, unqueued, shown, peer, attempt, wire, answers, bounds>>

\* _deliver_to_mirror catches whatever the outbox write raises, logs it and
\* returns as if the event were queued.  The session whose commit failed may
\* still refuse its next use, which is no HTTPException and ends the task.
EnqueueFails(t) ==
  /\ pc[t] = "enqueue" /\ faults + crashes < MaxTroubles
  /\ unqueued' = unqueued \cup {Relayed(t)}
  /\ todo' = [todo EXCEPT ![t] = @ \ {peer[t]}]
  /\ \/ Goto(t, "relay") /\ UNCHANGED answers
     \/ Goto(t, "dead") /\ Reply(t, FALSE)
  /\ conn' = conn \ {t}
  /\ faults' = faults + 1
  /\ UNCHANGED <<durable, shown, peer, attempt, wire, crashes>>

BadFinish(t) ==
  /\ pc[t] = "relay"
  /\ Goto(t, "done")
  /\ Reply(t, TRUE)
  /\ conn' = conn \ {t}
  /\ UNCHANGED <<durable, unqueued, shown, loop, wire, bounds>>

\* The loop is through: the handler answers 200.
Finish(t) ==
  /\ pc[t] = "relay" /\ todo[t] = {}
  /\ Goto(t, "done")
  /\ Reply(t, TRUE)
  /\ conn' = conn \ {t}
  /\ UNCHANGED <<durable, unqueued, shown, loop, wire, bounds>>

\* A task that gave its connection back gets none before the pool's timeout:
\* the exception is no HTTPException and ends the task, the fan-out included.
\* A handler answers 500; send_message swallows what its relay raises.
PoolTimeout(t) ==
  /\ \/ pc[t] \in {"files", "broadcast"}
     \/ pc[t] = "relay" /\ todo[t] # {}
  /\ ~CanQuery(t)
  /\ Goto(t, "dead")
  /\ Reply(t, FALSE)
  /\ UNCHANGED <<durable, unqueued, shown, loop, conn, wire, bounds>>

\* The process of s dies and comes back: its tasks are gone, whoever waits
\* for one of them sees the connection reset, the tables survive.
Crash(s) ==
  /\ faults + crashes < MaxTroubles
  /\ LET gone == {t \in Task : At(t) = s /\ Running(t)}
     IN  /\ gone # {}
         /\ pc' = [t \in Task |-> IF t \in gone THEN "dead" ELSE pc[t]]
         /\ conn' = conn \ gone
         /\ answers' = {a \in answers : a.req.task \notin gone}
              \cup Answers({Served(t) : t \in {u \in gone : Nth(u) > 0}}, FALSE)
  /\ crashes' = crashes + 1
  /\ UNCHANGED <<durable, unqueued, shown, loop, wire, faults>>

Step(t) ==
  \/ Select(t) \/ Insert(t) \/ AttachFiles(t) \/ Broadcast(t)
  \/ Deliver(t) \/ Retry(t) \/ GetAnswer(t) \/ Enqueue(t) \/ Finish(t)
  \/ PoolTimeout(t)

Next ==
  \/ \E e \in Event : Post(e)
  \/ \E r \in wire : Accept(r) \/ Refuse(r) \/ ConnectFail(r)
  \/ \E t \in Task : Step(t) \/ Timeout(t) \/ EnqueueFails(t)
  \/ \E s \in Server : Crash(s)

Spec == Init /\ [][Next]_vars

\* A running server works on: its event loop resumes the tasks whose await is
\* over and serves the requests it received.  Every task and every request is
\* through after finitely many steps, so fairness to all of them together is
\* fairness to each.  Nobody has to post, and no failure has to happen.
Fairness ==
  /\ WF_vars(\E t \in Task : Step(t))
  /\ WF_vars(\E r \in wire : Accept(r) \/ Refuse(r))

FairSpec == Spec /\ Fairness
-----------------------------------------------------------------------------
\* What a task has still to relay: everything before its loop starts.
Owes(t) ==
  IF pc[t] \in {"files", "broadcast"} THEN RelayTargets(At(t), Ev(t))
  ELSE IF pc[t] \in {"relay", "wait", "backoff", "enqueue"} THEN todo[t] ELSE {}

Tasks(s, e) == {t \in Task : At(t) = s /\ Ev(t) = e}
Stored(s, e) == rows[s][e] > 0
Queued(s, e, to) == \E row \in outbox[s] : Ev(row.task) = e /\ row.to = to
\* Handed on, or kept in the outbox until it can be.
HandedOn(s, e, to) == Stored(to, e) \/ Queued(s, e, to)
\* Given up: its outbox row could not be written.
LoggedOnly(s, e, to) ==
  \E row \in unqueued : At(row.task) = s /\ Ev(row.task) = e /\ row.to = to
Settled(s, e, to) == HandedOn(s, e, to) \/ LoggedOnly(s, e, to)
\* A crash or an exception ended a task that worked for e on s.
Abandoned(s, e) == \E t \in Tasks(s, e) : pc[t] = "dead"

\* Every variable keeps to its type.
TypeOK ==
  /\ rows \in [Server -> [Event -> Nat]]
  /\ filed \in [Server -> SUBSET Event]
  /\ shown \in [Server -> [Event -> Nat]]
  /\ outbox \in [Server -> SUBSET OutboxRow]
  /\ unqueued \subseteq OutboxRow
  /\ pc \in [Task -> Phase]
  /\ todo \in [Task -> SUBSET Server]
  /\ peer \in [Task -> Server]
  /\ attempt \in [Task -> 0..RelayAttempts]
  /\ \A t \in Task : pc[t] = "backoff" => attempt[t] < RelayAttempts
  /\ conn \subseteq Task
  /\ wire \subseteq Request
  /\ answers \subseteq Answer
  /\ faults \in Nat /\ crashes \in Nat

\* The same (room, event_id) is never persisted twice, even if a retry
\* redelivers it while the first handler is between its select and its commit.
NoDuplicateRows == \A s \in Server, e \in Event : rows[s][e] <= 1

\* What an OK answer is worth: the receiver has the row, has shown the message
\* to its sockets, and has come to an end with every server it is responsible
\* for: that server has the message, or the outbox has it, or the outbox was
\* tried and its write failed.  A crash after the answer takes none of this
\* back, but the last case is a relay of which only the log knows: the caller
\* of enqueue_outbox_message swallows the failure, so 200 does not say that
\* the message will ever reach the other servers.
AnswerIsPromise ==
  \A a \in answers : a.ok =>
    LET s == a.req.to
        e == Ev(a.req.task)
    IN  /\ Stored(s, e) /\ shown[s][e] > 0
        /\ \A to \in RelayTargets(s, e) : Settled(s, e, to)

\* The only ways to lose a relay.  Whatever a server has stored is at each
\* server it relays to, or in the outbox, or still in the hands of a task; else
\* the outbox row could not be written, or a task of the message was ended
\* (a crash, a pool timeout, a session that refused its next use) before it
\* wrote one.  The comment of FederationOutbox promises more, a row "before it
\* attempts delivery"; the code writes it after the last attempt only.
NothingDropped ==
  \A s \in Server, e \in Event : Stored(s, e) =>
    \A to \in RelayTargets(s, e) :
      \/ Settled(s, e, to)
      \/ \E t \in Tasks(s, e) : to \in Owes(t)
      \/ Abandoned(s, e)

\* The file rows follow their message in a second commit: they are there,
\* or about to be, unless the task that owes them was ended in between.
FilesFollow ==
  \A s \in Server, e \in Event : Stored(s, e) =>
    \/ e \in filed[s]
    \/ \E t \in Tasks(s, e) : pc[t] = "files"
    \/ Abandoned(s, e)

\* Every message is in the end handed on to each server its holder relays to,
\* or its outbox row could not be written, or its task was ended before.
HandedOnAtLast ==
  \A s \in Server, e \in Event : \A to \in RelayTargets(s, e) :
    Stored(s, e) ~> (Settled(s, e, to) \/ Abandoned(s, e))

\* With fewer network faults than attempts a message of the host or for the
\* host really arrives, it does not merely end in the outbox.
HostTrafficArrives ==
  \A e \in Event : \A s \in (IF Origin[e] = Host THEN Server ELSE {Host}) \ {Origin[e]} :
    Stored(Origin[e], e) ~> (Stored(s, e) \/ Abandoned(Origin[e], e))

\* A relay comes to its end, and on the edges of the star that is the other
\* server's table, whatever is late, lost, asked again or waits for a connection.
RelaySettles == HandedOnAtLast /\ HostTrafficArrives

\* Requests, retries, duplicates and crashes aside, the relay keeps copies of
\* one room: it implements RoomLog.
Log == INSTANCE RoomLog WITH
  copy <- [s \in Server |-> {e \in Event : rows[s][e] > 0}],
  announced <- [s \in Server |-> {e \in Event : shown[s][e] > 0}]

\* The rows and broadcasts of every server change as RoomLog allows, which no
\* interleaving of redeliveries, late requests and restarts may break.
ImplementsRoomLog == Log!Spec

\* store_and_relay: "If room is hosted here, fan out to every mirror server
\* except the author's own server (which already stored it)."
FanOutReachesEveryMirror ==
  \A e \in Event, s \in Server : Stored(Host, e) ~> Stored(s, e)
=============================================================================
