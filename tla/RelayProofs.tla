---------------------------- MODULE RelayProofs ----------------------------
(***************************************************************************)
(* Proofs about Relay, for every set of servers and events, every author   *)
(* assignment and every number of attempts, faults and crashes.            *)
(***************************************************************************)
EXTENDS Relay, TLAPS

LEMMA TaskParts ==
  ASSUME NEW t \in Task
  PROVE  /\ Ev(t) \in Event /\ At(t) \in Server /\ Nth(t) \in 0..RelayAttempts
         /\ t = <<Ev(t), At(t), Nth(t)>>
BY DEF Task, Ev, At, Nth

LEMMA TaskOf ==
  ASSUME NEW e \in Event, NEW s \in Server, NEW n \in 0..RelayAttempts
  PROVE  /\ <<e, s, n>> \in Task
         /\ Ev(<<e, s, n>>) = e /\ At(<<e, s, n>>) = s /\ Nth(<<e, s, n>>) = n
BY DEF Task, Ev, At, Nth

LEMMA OriginType == \A e \in Event : Origin[e] \in Server
BY RelayAssumption

LEMMA ZeroAttempt == 0 \in 0..RelayAttempts
BY RelayAssumption

LEMMA PostTask ==
  ASSUME NEW e \in Event
  PROVE  /\ <<e, Origin[e], 0>> \in Task
         /\ Ev(<<e, Origin[e], 0>>) = e
         /\ At(<<e, Origin[e], 0>>) = Origin[e]
         /\ Nth(<<e, Origin[e], 0>>) = 0
BY TaskOf, OriginType, ZeroAttempt

LEMMA RequestParts ==
  ASSUME NEW r \in Request
  PROVE  /\ r.task \in Task /\ r.to \in Server /\ r.attempt \in 1..RelayAttempts
         /\ r.attempt \in 0..RelayAttempts
BY RelayAssumption DEF Request

\* The handler that Accept(r) starts.
LEMMA HandlerTask ==
  ASSUME NEW r \in Request
  PROVE  LET t == <<Ev(r.task), r.to, r.attempt>>
         IN  /\ t \in Task /\ Ev(t) = Ev(r.task) /\ At(t) = r.to
             /\ Nth(t) = r.attempt /\ Nth(t) > 0
<1>1. /\ Ev(r.task) \in Event /\ r.to \in Server
      /\ r.attempt \in 0..RelayAttempts /\ r.attempt > 0
  BY RequestParts, TaskParts, RelayAssumption
<1> QED
  BY <1>1, TaskOf

LEMMA ServedType ==
  ASSUME NEW t \in Task, Nth(t) > 0
  PROVE  /\ Served(t) \in Request
         /\ Served(t).task = <<Ev(t), Origin[Ev(t)], 0>>
         /\ Served(t).to = At(t) /\ Served(t).attempt = Nth(t)
<1>1. Ev(t) \in Event /\ At(t) \in Server /\ Nth(t) \in 1..RelayAttempts
  BY TaskParts, RelayAssumption
<1>2. <<Ev(t), Origin[Ev(t)], 0>> \in Task
  BY <1>1, PostTask
<1> QED
  BY <1>1, <1>2 DEF Served, Request

LEMMA RelayTargetsType ==
  ASSUME NEW s \in Server, NEW e \in Event
  PROVE  /\ RelayTargets(s, e) \subseteq Server
         /\ s \notin RelayTargets(s, e)
         /\ Origin[e] \notin RelayTargets(s, e)
BY RelayAssumption DEF RelayTargets

LEMMA AnswersType ==
  ASSUME NEW rs \in SUBSET Request, NEW ok \in BOOLEAN
  PROVE  Answers(rs, ok) \subseteq Answer
BY DEF Answers, Answer
-----------------------------------------------------------------------------
LEMMA TypeInit == Init => TypeOK
<1> SUFFICES ASSUME Init PROVE TypeOK
  OBVIOUS
<1>1. \A t \in Task : "idle" \in Phase /\ Host \in Server /\ 0 \in 0..RelayAttempts
  BY RelayAssumption, ZeroAttempt DEF Phase
<1> QED
  BY <1>1 DEF Init, TypeOK

LEMMA ReplyType ==
  ASSUME TypeOK, NEW t \in Task, NEW ok \in BOOLEAN, Reply(t, ok)
  PROVE  answers' \subseteq Answer
<1>1. CASE Nth(t) > 0
  <2>1. {Served(t)} \in SUBSET Request
    BY <1>1, ServedType
  <2>2. Answers({Served(t)}, ok) \subseteq Answer
    BY <2>1, AnswersType
  <2> QED
    BY <1>1, <2>2 DEF Reply, TypeOK
<1>2. CASE ~(Nth(t) > 0)
  BY <1>2 DEF Reply, TypeOK
<1> QED
  BY <1>1, <1>2

LEMMA AttemptType ==
  ASSUME TypeOK, NEW t \in Task, NEW to \in Server,
         NEW n \in 1..RelayAttempts, Attempt(t, to, n)
  PROVE  TypeOK'
<1>1. [task |-> t, to |-> to, attempt |-> n] \in Request
  BY DEF Request
<1>2. n \in 0..RelayAttempts /\ "wait" \in Phase
  BY RelayAssumption DEF Phase
<1> QED
  BY <1>1, <1>2 DEF TypeOK, Attempt, Goto, durable, bounds

LEMMA FailedType ==
  ASSUME TypeOK, NEW t \in Task, Failed(t)
  PROVE  /\ pc' \in [Task -> Phase]
         /\ \A u \in Task : pc'[u] = "backoff" => attempt[u] < RelayAttempts
<1>1. "backoff" \in Phase /\ "enqueue" \in Phase
  BY DEF Phase
<1> QED
  BY <1>1 DEF TypeOK, Failed, Goto

\* Every step keeps every variable in its type.
LEMMA TypeNext == TypeOK /\ [Next]_vars => TypeOK'
<1> SUFFICES ASSUME TypeOK, [Next]_vars PROVE TypeOK'
  OBVIOUS
<1> USE DEF durable, loop, bounds
<1>0. "files" \in Phase /\ "select" \in Phase /\ "broadcast" \in Phase
      /\ "insert" \in Phase /\ "relay" \in Phase /\ "done" \in Phase
      /\ "dead" \in Phase
  BY DEF Phase
<1>1. ASSUME NEW e \in Event, Post(e) PROVE TypeOK'
  BY <1>0, <1>1, PostTask, OriginType DEF TypeOK, Post, Goto
<1>2. ASSUME NEW r \in wire, Accept(r) PROVE TypeOK'
  BY <1>0, <1>2, HandlerTask DEF TypeOK, Accept, Goto
<1>3. ASSUME NEW r \in wire, Refuse(r) PROVE TypeOK'
  <2>1. Answers({r}, FALSE) \subseteq Answer
    BY AnswersType DEF TypeOK
  <2> QED
    BY <1>3, <2>1 DEF TypeOK, Refuse
<1>4. ASSUME NEW r \in wire, ConnectFail(r) PROVE TypeOK'
  <2>1. r.task \in Task
    BY RequestParts DEF TypeOK
  <2>2. /\ pc' \in [Task -> Phase]
        /\ \A u \in Task : pc'[u] = "backoff" => attempt[u] < RelayAttempts
    BY <1>4, <2>1, FailedType DEF ConnectFail
  <2> QED
    BY <1>4, <2>2 DEF TypeOK, ConnectFail, Unasked
<1>5. ASSUME NEW t \in Task, Select(t) PROVE TypeOK'
  BY <1>0, <1>5 DEF TypeOK, Select, Goto
<1>6. ASSUME NEW t \in Task, Insert(t) PROVE TypeOK'
  <2>1. answers' \subseteq Answer
    <3>1. CASE answers' = answers
      BY <3>1 DEF TypeOK
    <3>2. CASE Reply(t, FALSE)
      BY <3>2, ReplyType
    <3> QED
      BY <1>6, <3>1, <3>2 DEF Insert
  <2>2. rows' \in [Server -> [Event -> Nat]]
    <3>1. At(t) \in Server /\ Ev(t) \in Event
      BY TaskParts
    <3>2. CASE rows' = [rows EXCEPT ![At(t)][Ev(t)] = @ + 1]
      BY <3>1, <3>2 DEF TypeOK
    <3>3. CASE rows' = rows
      BY <3>3 DEF TypeOK
    <3> QED
      BY <1>6, <3>2, <3>3 DEF Insert
  <2>3. pc' = [pc EXCEPT ![t] = "files"] \/ pc' = [pc EXCEPT ![t] = "done"]
    BY <1>6 DEF Insert, Goto
  <2> QED
    BY <1>0, <1>6, <2>1, <2>2, <2>3 DEF TypeOK, Insert
<1>7. ASSUME NEW t \in Task, AttachFiles(t) PROVE TypeOK'
  BY <1>0, <1>7, TaskParts DEF TypeOK, AttachFiles, Goto
<1>8. ASSUME NEW t \in Task, Broadcast(t) PROVE TypeOK'
  <2>1. RelayTargets(At(t), Ev(t)) \in SUBSET Server
    BY TaskParts, RelayTargetsType
  <2> QED
    BY <1>0, <1>8, <2>1, TaskParts DEF TypeOK, Broadcast, Goto
<1>9. ASSUME NEW t \in Task, Deliver(t) PROVE TypeOK'
  <2>1. PICK to \in todo[t] : Attempt(t, to, 1)
    BY <1>9 DEF Deliver
  <2>2. to \in Server /\ 1 \in 1..RelayAttempts
    BY RelayAssumption DEF TypeOK
  <2> QED
    BY <2>1, <2>2, AttemptType
<1>10. ASSUME NEW t \in Task, Retry(t) PROVE TypeOK'
  <2>1. peer[t] \in Server /\ attempt[t] + 1 \in 1..RelayAttempts
    BY <1>10, RelayAssumption DEF TypeOK, Retry
  <2> QED
    BY <1>10, <2>1, AttemptType DEF Retry
<1>11. ASSUME NEW t \in Task, GetAnswer(t) PROVE TypeOK'
  <2>1. /\ pc' \in [Task -> Phase]
        /\ \A u \in Task : pc'[u] = "backoff" => attempt[u] < RelayAttempts
        /\ todo' \in [Task -> SUBSET Server]
    <3>1. CASE Failed(t) /\ UNCHANGED todo
      BY <3>1, FailedType DEF TypeOK
    <3>2. CASE /\ todo' = [todo EXCEPT ![t] = @ \ {peer[t]}]
               /\ Goto(t, "relay")
      BY <1>0, <3>2 DEF TypeOK, Goto
    <3> QED
      BY <1>11, <3>1, <3>2 DEF GetAnswer
  <2> QED
    BY <1>11, <2>1 DEF TypeOK, GetAnswer, Unasked
<1>12. ASSUME NEW t \in Task, Timeout(t) PROVE TypeOK'
  <2>1. /\ pc' \in [Task -> Phase]
        /\ \A u \in Task : pc'[u] = "backoff" => attempt[u] < RelayAttempts
    BY <1>12, FailedType DEF Timeout
  <2> QED
    BY <1>12, <2>1 DEF TypeOK, Timeout, Unasked
<1>13. ASSUME NEW t \in Task, Enqueue(t) PROVE TypeOK'
  <2>1. Relayed(t) \in OutboxRow
    BY DEF Relayed, OutboxRow, TypeOK
  <2> QED
    BY <1>0, <1>13, <2>1, TaskParts DEF TypeOK, Enqueue, Goto
<1>14. ASSUME NEW t \in Task, Finish(t) PROVE TypeOK'
  <2>1. answers' \subseteq Answer
    BY <1>14, ReplyType DEF Finish
  <2> QED
    BY <1>0, <1>14, <2>1 DEF TypeOK, Finish, Goto
<1>15. ASSUME NEW t \in Task, PoolTimeout(t) PROVE TypeOK'
  <2>1. answers' \subseteq Answer
    BY <1>15, ReplyType DEF PoolTimeout
  <2> QED
    BY <1>0, <1>15, <2>1 DEF TypeOK, PoolTimeout, Goto
<1>16. ASSUME NEW s \in Server, Crash(s) PROVE TypeOK'
  <2> DEFINE gone == {t \in Task : At(t) = s /\ Running(t)}
  <2>1. {Served(t) : t \in {u \in gone : Nth(u) > 0}} \in SUBSET Request
    BY ServedType
  <2>2. Answers({Served(t) : t \in {u \in gone : Nth(u) > 0}}, FALSE) \subseteq Answer
    BY <2>1, AnswersType
  <2>3. answers' \subseteq Answer
    BY <1>16, <2>2 DEF TypeOK, Crash
  <2>4. /\ pc' = [t \in Task |-> IF t \in gone THEN "dead" ELSE pc[t]]
        /\ conn' = conn \ gone /\ crashes' = crashes + 1
        /\ UNCHANGED <<durable, unqueued, shown, loop, wire, faults>>
    BY <1>16 DEF Crash
  <2>5. /\ pc' \in [Task -> Phase]
        /\ \A u \in Task : pc'[u] = "backoff" => attempt[u] < RelayAttempts
    BY <1>0, <2>4 DEF TypeOK
  <2> QED
    BY <2>3, <2>4, <2>5 DEF TypeOK
<1>18. ASSUME NEW t \in Task, EnqueueFails(t) PROVE TypeOK'
  <2>1. Relayed(t) \in OutboxRow
    BY DEF Relayed, OutboxRow, TypeOK
  <2>2. answers' \subseteq Answer
    BY <1>18, ReplyType DEF EnqueueFails, TypeOK
  <2>3. PICK q \in {"relay", "dead"} : pc' = [pc EXCEPT ![t] = q]
    BY <1>18 DEF EnqueueFails, Goto
  <2>4. q \in Phase /\ q # "backoff"
    BY <1>0
  <2>5. /\ pc' \in [Task -> Phase]
        /\ \A u \in Task : pc'[u] = "backoff" => attempt[u] < RelayAttempts
    BY <2>3, <2>4 DEF TypeOK
  <2>6. /\ todo' \in [Task -> SUBSET Server] /\ conn' \subseteq Task
        /\ unqueued' \subseteq OutboxRow /\ faults' \in Nat
        /\ UNCHANGED <<rows, filed, outbox, shown, peer, attempt, wire, crashes>>
    BY <1>18, <2>1 DEF TypeOK, EnqueueFails
  <2> QED
    BY <2>2, <2>5, <2>6 DEF TypeOK
<1>17. CASE UNCHANGED vars
  BY <1>17 DEF TypeOK, vars
<1> QED
  BY <1>1, <1>2, <1>3, <1>4, <1>5, <1>6, <1>7, <1>8, <1>9, <1>10, <1>11, <1>12,
     <1>13, <1>14, <1>15, <1>16, <1>17, <1>18 DEF Next, Step

\* Type correctness of the relay: every variable keeps to its type, so that a
\* retry never passes _RELAY_ATTEMPTS and an answer or an outbox row is always
\* one of an existing attempt.
THEOREM TypeCorrect == Spec => []TypeOK
BY TypeInit, TypeNext, PTL DEF Spec
-----------------------------------------------------------------------------
(***************************************************************************)
(* The shape of the relay: which tasks can exist, where they send to, and  *)
(* that an answer is only ever kept for the attempt that waits for it.     *)
(***************************************************************************)
InLoop(t) == pc[t] \in {"wait", "backoff", "enqueue"}

TasksRooted ==
  \A t \in Task : pc[t] # "idle" =>
    \/ Nth(t) = 0 /\ At(t) = Origin[Ev(t)]
    \/ Nth(t) > 0 /\ At(t) \in RelayTargets(Origin[Ev(t)], Ev(t))
TodoRouted == \A t \in Task : todo[t] \subseteq RelayTargets(At(t), Ev(t))
PeerTodo == \A t \in Task : InLoop(t) => peer[t] \in todo[t]
WireRouted ==
  \A r \in wire : /\ pc[r.task] # "idle"
                  /\ r.to \in RelayTargets(At(r.task), Ev(r.task))
AnswersAwaited == \A a \in answers : Awaited(a.req)

\* Request r was sent: its task is in its loop, and unless it has settled the
\* server r went to, it is at the attempt of r or a later one.
BeforeLoop == {"idle", "select", "insert", "files", "broadcast"}
Past(r) ==
  /\ pc[r.task] \notin BeforeLoop
  /\ r.to \in todo[r.task] => /\ pc[r.task] # "relay"
                             /\ peer[r.task] = r.to
                             /\ r.attempt <= attempt[r.task]
HandlerOf(r) == <<Ev(r.task), r.to, r.attempt>>

WireSent == \A r \in wire : Past(r)
HandlersSent == \A t \in Task : Nth(t) > 0 /\ pc[t] # "idle" => Past(Served(t))
WireFresh == \A r \in wire : Acceptable(r) => pc[HandlerOf(r)] = "idle"

Routed == TasksRooted /\ TodoRouted /\ PeerTodo /\ WireRouted
Once == WireSent /\ HandlersSent /\ WireFresh
Shape == Routed /\ Once /\ AnswersAwaited

LEMMA ShapeInit == Init => Shape
BY DEF Init, Shape, Routed, Once, TasksRooted, TodoRouted, PeerTodo, WireRouted,
       WireSent, HandlersSent, WireFresh, AnswersAwaited, InLoop

\* An acceptable request comes from the author's own task.
LEMMA FromAuthor ==
  ASSUME TypeOK, Shape, NEW r \in wire, Acceptable(r)
  PROVE  r.task = <<Ev(r.task), Origin[Ev(r.task)], 0>>
<1>1. r.task \in Task /\ pc[r.task] # "idle"
  BY RequestParts DEF Shape, Routed, WireRouted, TypeOK
<1>2. Ev(r.task) \in Event /\ Origin[Ev(r.task)] \in Server
  BY <1>1, TaskParts, OriginType
<1>3. Origin[Ev(r.task)] \notin RelayTargets(Origin[Ev(r.task)], Ev(r.task))
  BY <1>2, RelayTargetsType
<1>4. Nth(r.task) = 0
  BY <1>1, <1>3 DEF Shape, Routed, TasksRooted, Acceptable
<1> QED
  BY <1>1, <1>4, TaskParts DEF Acceptable

LEMMA HandlerServes ==
  ASSUME TypeOK, Shape, NEW r \in wire, Acceptable(r)
  PROVE  /\ HandlerOf(r) \in Task /\ Nth(HandlerOf(r)) > 0
         /\ Ev(HandlerOf(r)) = Ev(r.task) /\ At(HandlerOf(r)) = r.to
         /\ Served(HandlerOf(r)) = r
<1>1. r \in Request
  BY DEF TypeOK
<1>2. /\ HandlerOf(r) \in Task /\ Nth(HandlerOf(r)) > 0
      /\ Ev(HandlerOf(r)) = Ev(r.task) /\ At(HandlerOf(r)) = r.to
      /\ Nth(HandlerOf(r)) = r.attempt
  BY <1>1, HandlerTask DEF HandlerOf
<1>3. Served(HandlerOf(r)) = [task |-> r.task, to |-> r.to, attempt |-> r.attempt]
  BY <1>2, FromAuthor DEF Served
<1> QED
  BY <1>1, <1>2, <1>3 DEF Request

\* A handler that answers leaves the task it answers in its wait.
LEMMA ReplyAwaited ==
  ASSUME TypeOK, AnswersAwaited, NEW t \in Task, NEW ok \in BOOLEAN, Reply(t, ok),
         pc[t] # "wait", NEW q \in Phase, pc' = [pc EXCEPT ![t] = q],
         UNCHANGED <<peer, attempt>>
  PROVE  AnswersAwaited'
<1> SUFFICES ASSUME NEW a \in answers' PROVE Awaited(a.req)'
  BY DEF AnswersAwaited
<1>1. a \in answers \/ (Nth(t) > 0 /\ a \in Answers({Served(t)}, ok))
  BY DEF Reply
<1>2. Awaited(a.req)
  BY <1>1 DEF AnswersAwaited, Answers
<1>3. a.req.task # t
  BY <1>2 DEF Awaited
<1>4. a.req.task \in Task
  BY <1>1, ServedType, RequestParts DEF TypeOK, Answer, Answers
<1> QED
  BY <1>2, <1>3, <1>4 DEF Awaited, TypeOK

\* Answers that were awaited still are when another task moves.
LEMMA OthersAwaited ==
  ASSUME TypeOK, AnswersAwaited, NEW t \in Task, pc[t] # "wait", NEW q \in Phase,
         pc' = [pc EXCEPT ![t] = q], UNCHANGED <<peer, attempt, answers>>
  PROVE  AnswersAwaited'
<1> SUFFICES ASSUME NEW a \in answers PROVE Awaited(a.req)'
  BY DEF AnswersAwaited
<1>1. Awaited(a.req) /\ a.req.task \in Task
  BY RequestParts DEF AnswersAwaited, TypeOK, Answer
<1> QED
  BY <1>1 DEF Awaited, TypeOK

\* Once is kept by a step of task t that sends nothing, starts no handler and
\* forgets nothing that t has sent.
LEMMA OnceKept ==
  ASSUME TypeOK, Shape, NEW t \in Task, NEW q \in Phase \ {"idle"},
         pc' = [pc EXCEPT ![t] = q], wire' \subseteq wire,
         pc[t] = "idle" => Nth(t) = 0,
         \A u \in Task \ {t} : /\ todo'[u] = todo[u] /\ peer'[u] = peer[u]
                              /\ attempt'[u] = attempt[u],
         \A r \in Request : r.task = t /\ Past(r) => Past(r)'
  PROVE  Once'
<1>1. ASSUME NEW r \in Request, Past(r) PROVE Past(r)'
  <2>1. r.task \in Task
    BY RequestParts
  <2>2. CASE r.task = t
    BY <1>1, <2>2
  <2>3. CASE r.task # t
    BY <1>1, <2>1, <2>3 DEF Past, TypeOK
  <2> QED
    BY <2>2, <2>3
<1>2. WireSent'
  BY <1>1 DEF Shape, Once, WireSent, TypeOK
<1>3. HandlersSent'
  <2> SUFFICES ASSUME NEW u \in Task, Nth(u) > 0, pc'[u] # "idle" PROVE Past(Served(u))'
    BY DEF HandlersSent, Served
  <2>1. pc[u] # "idle"
    BY DEF TypeOK
  <2>2. Past(Served(u)) /\ Served(u) \in Request
    BY <2>1, ServedType DEF Shape, Once, HandlersSent
  <2> QED
    BY <1>1, <2>2
<1>4. WireFresh'
  <2> SUFFICES ASSUME NEW r \in wire', Acceptable(r) PROVE pc'[HandlerOf(r)] = "idle"
    BY DEF WireFresh, Acceptable, HandlerOf
  <2>1. r \in wire /\ pc[HandlerOf(r)] = "idle"
    BY DEF Shape, Once, WireFresh
  <2>2. HandlerOf(r) \in Task /\ Nth(HandlerOf(r)) > 0
    BY <2>1, HandlerServes
  <2> QED
    BY <2>1, <2>2 DEF TypeOK
<1> QED
  BY <1>2, <1>3, <1>4 DEF Once

LEMMA RoutedKept ==
  ASSUME TypeOK, Shape, NEW t \in Task, NEW q \in Phase \ {"idle"},
         pc' = [pc EXCEPT ![t] = q], wire' \subseteq wire,
         pc[t] = "idle" =>
           \/ Nth(t) = 0 /\ At(t) = Origin[Ev(t)]
           \/ Nth(t) > 0 /\ At(t) \in RelayTargets(Origin[Ev(t)], Ev(t)),
         \A u \in Task \ {t} : todo'[u] = todo[u] /\ peer'[u] = peer[u],
         todo'[t] \subseteq RelayTargets(At(t), Ev(t)),
         q \in {"wait", "backoff", "enqueue"} => peer'[t] \in todo'[t]
  PROVE  Routed'
<1>1. TasksRooted'
  BY DEF Shape, Routed, TasksRooted, TypeOK
<1>2. TodoRouted'
  BY DEF Shape, Routed, TodoRouted
<1>3. PeerTodo'
  BY DEF Shape, Routed, PeerTodo, InLoop, TypeOK
<1>4. WireRouted'
  BY RequestParts DEF Shape, Routed, WireRouted, TypeOK
<1> QED
  BY <1>1, <1>2, <1>3, <1>4 DEF Routed

LEMMA AttemptShape ==
  ASSUME TypeOK, Shape, NEW t \in Task, NEW to \in todo[t], NEW n \in 1..RelayAttempts,
         \/ pc[t] = "relay" /\ n = 1
         \/ pc[t] = "backoff" /\ to = peer[t] /\ n = attempt[t] + 1,
         Attempt(t, to, n)
  PROVE  Shape'
<1> DEFINE new == [task |-> t, to |-> to, attempt |-> n]
<1>0. /\ pc' = [pc EXCEPT ![t] = "wait"] /\ wire' = wire \cup {new}
      /\ peer' = [peer EXCEPT ![t] = to] /\ attempt' = [attempt EXCEPT ![t] = n]
      /\ UNCHANGED <<todo, answers>>
      /\ to \in Server /\ new \in Request
      /\ new.task = t /\ new.to = to /\ new.attempt = n
  BY DEF Attempt, Goto, TypeOK, Request
<1> HIDE DEF new
<1>1. Routed'
  <2>1. TasksRooted' /\ TodoRouted' /\ PeerTodo'
    BY <1>0 DEF Shape, Routed, TasksRooted, TodoRouted, PeerTodo, InLoop, TypeOK
  <2>2. WireRouted'
    BY <1>0, RequestParts DEF Shape, Routed, WireRouted, TodoRouted, TypeOK
  <2> QED
    BY <2>1, <2>2 DEF Routed
<1>2. ASSUME NEW r \in Request, Past(r) PROVE Past(r)'
  <2>1. r.task \in Task /\ r.attempt \in 1..RelayAttempts /\ attempt[t] \in 0..RelayAttempts
    BY RequestParts DEF TypeOK
  <2>2. CASE r.task # t
    BY <1>0, <1>2, <2>1, <2>2 DEF Past, TypeOK
  <2>3. CASE r.task = t
    <3>1. r.to \in todo[t] => /\ pc[t] = "backoff" /\ peer[t] = r.to
                              /\ r.attempt <= attempt[t]
      BY <1>2, <2>3 DEF Past
    <3>2. r.to \in todo'[t] => peer'[t] = r.to /\ r.attempt <= attempt'[t]
      BY <1>0, <2>1, <3>1, RelayAssumption DEF TypeOK
    <3>3. pc'[t] = "wait"
      BY <1>0 DEF TypeOK
    <3> QED
      BY <2>3, <3>2, <3>3 DEF Past, BeforeLoop
  <2> QED
    BY <2>2, <2>3
<1>3. Past(new)'
  <2>1. new' = new
    BY DEF new
  <2>2. pc'[t] = "wait" /\ peer'[t] = to /\ attempt'[t] = n
    BY <1>0 DEF TypeOK
  <2> QED
    BY <1>0, <2>1, <2>2, RelayAssumption DEF Past, BeforeLoop
<1>4. WireSent'
  <2> SUFFICES ASSUME NEW r \in wire' PROVE Past(r)'
    BY DEF WireSent, Past
  <2>1. CASE r \in wire
    BY <1>2, <2>1 DEF Shape, Once, WireSent, TypeOK
  <2>2. CASE r = new
    BY <1>3, <2>2, <1>0 DEF Past
  <2> QED
    BY <1>0, <2>1, <2>2
<1>5. HandlersSent'
  <2> SUFFICES ASSUME NEW u \in Task, Nth(u) > 0, pc'[u] # "idle" PROVE Past(Served(u))'
    BY DEF HandlersSent, Served
  <2>1. pc[u] # "idle"
    BY <1>0 DEF TypeOK
  <2> QED
    BY <1>2, <2>1, ServedType DEF Shape, Once, HandlersSent
<1>6. WireFresh'
  <2> SUFFICES ASSUME NEW r \in wire', Acceptable(r) PROVE pc'[HandlerOf(r)] = "idle"
    BY DEF WireFresh, Acceptable, HandlerOf
  <2>1. CASE r \in wire
    <3>1. pc[HandlerOf(r)] = "idle"
      BY <2>1 DEF Shape, Once, WireFresh
    <3>2. HandlerOf(r) \in Task /\ HandlerOf(r) # t
      BY <2>1, <3>1, HandlerServes
    <3> QED
      BY <1>0, <3>1, <3>2 DEF TypeOK
  <2>2. CASE r = new
    <3> DEFINE u == HandlerOf(r)
    <3>1. At(t) = Origin[Ev(t)] /\ Ev(t) \in Event
      BY <1>0, <2>2, TaskParts DEF Acceptable
    <3>2. Nth(t) = 0
      BY <3>1, OriginType, RelayTargetsType DEF Shape, Routed, TasksRooted
    <3>3. t = <<Ev(t), Origin[Ev(t)], 0>>
      BY <3>1, <3>2, TaskParts
    <3>4. /\ u \in Task /\ Nth(u) > 0 /\ Ev(u) = Ev(t) /\ At(u) = to /\ Nth(u) = n
      BY <1>0, <2>2, HandlerTask DEF HandlerOf
    <3>5. Served(u) = [task |-> t, to |-> to, attempt |-> n]
      BY <3>3, <3>4 DEF Served
    <3>6. ~Past(Served(u))
      BY <3>5, RelayAssumption DEF Past, TypeOK
    <3>7. pc[u] = "idle" /\ u # t
      BY <3>2, <3>4, <3>6 DEF Shape, Once, HandlersSent
    <3> QED
      BY <1>0, <3>4, <3>7 DEF TypeOK
  <2> QED
    BY <1>0, <2>1, <2>2
<1>7. AnswersAwaited'
  <2>1. pc[t] # "wait"
    OBVIOUS
  <2> SUFFICES ASSUME NEW a \in answers PROVE Awaited(a.req)'
    BY <1>0 DEF AnswersAwaited
  <2>2. Awaited(a.req) /\ a.req.task \in Task
    BY RequestParts DEF Shape, AnswersAwaited, TypeOK, Answer
  <2> QED
    BY <1>0, <2>1, <2>2 DEF Awaited, TypeOK
<1> QED
  BY <1>1, <1>4, <1>5, <1>6, <1>7 DEF Shape, Once

\* A task that gives up an attempt drops what was meant for it.
LEMMA FailedShape ==
  ASSUME TypeOK, Shape, NEW t \in Task, pc[t] = "wait", Failed(t),
         answers' = Unasked(t), wire' \subseteq wire, UNCHANGED loop
  PROVE  Shape'
<1> USE DEF loop
<1>1. PICK q \in {"backoff", "enqueue"} : pc' = [pc EXCEPT ![t] = q]
  BY DEF Failed, Goto
<1>2. q \in Phase \ {"idle"}
  BY DEF Phase
<1>3. Routed'
  BY <1>1, <1>2, RoutedKept DEF Shape, Routed, TodoRouted, PeerTodo, InLoop
<1>4. ASSUME NEW r \in Request, r.task = t, Past(r) PROVE Past(r)'
  BY <1>1, <1>4 DEF Past, BeforeLoop, TypeOK
<1>5. Once'
  BY <1>1, <1>2, <1>4, OnceKept
<1>6. AnswersAwaited'
  BY <1>1, RequestParts DEF Shape, AnswersAwaited, Awaited, Unasked, TypeOK, Answer
<1> QED
  BY <1>3, <1>5, <1>6 DEF Shape

LEMMA ShapeNext == TypeOK /\ Shape /\ [Next]_vars => Shape'
<1> SUFFICES ASSUME TypeOK, Shape, [Next]_vars PROVE Shape'
  OBVIOUS
<1> USE DEF durable, loop, bounds
<1>0. /\ {"files", "select", "insert", "broadcast", "relay", "done", "dead"}
            \subseteq Phase \ {"idle"}
      /\ AnswersAwaited /\ TodoRouted
  BY DEF Phase, Shape, Routed
\* What most actions do: task t, not in its wait, goes to a phase that is not
\* one of the loop, and its server list and attempt stay.
<1>a. ASSUME NEW t \in Task, NEW q \in Phase \ {"idle", "wait", "backoff", "enqueue"},
             pc[t] \notin {"idle", "wait"}, pc' = [pc EXCEPT ![t] = q],
             UNCHANGED <<todo, peer, attempt, wire>>, AnswersAwaited',
             pc[t] \in BeforeLoop \/ q \in {"done", "dead"}
      PROVE  Shape'
  <2>1. Routed'
    BY <1>a, RoutedKept DEF Shape, Routed, TodoRouted
  <2>2. ASSUME NEW r \in Request, r.task = t, Past(r) PROVE Past(r)'
    <3>1. pc'[t] = q /\ pc[t] \notin BeforeLoop
      BY <1>a, <2>2 DEF TypeOK, Past
    <3> QED
      BY <1>a, <2>2, <3>1 DEF Past, BeforeLoop
  <2>3. Once'
    BY <1>a, <2>2, OnceKept
  <2> QED
    BY <1>a, <2>1, <2>3 DEF Shape
<1>1. ASSUME NEW e \in Event, Post(e) PROVE Shape'
  <2> DEFINE t == <<e, Origin[e], 0>>
  <2>1. /\ t \in Task /\ Ev(t) = e /\ At(t) = Origin[e] /\ Nth(t) = 0
        /\ pc[t] = "idle" /\ pc' = [pc EXCEPT ![t] = "files"]
        /\ UNCHANGED <<todo, peer, attempt, wire, answers>>
    BY <1>1, PostTask DEF Post, Goto
  <2> HIDE DEF t
  <2>2. Routed'
    BY <1>0, <2>1, RoutedKept DEF TodoRouted
  <2>3. \A r \in Request : r.task = t /\ Past(r) => Past(r)'
    BY <2>1 DEF Past, BeforeLoop
  <2>4. Once'
    BY <1>0, <2>1, <2>3, OnceKept
  <2>5. AnswersAwaited'
    BY <1>0, <2>1, OthersAwaited
  <2> QED
    BY <2>2, <2>4, <2>5 DEF Shape
<1>2. ASSUME NEW r \in wire, Accept(r) PROVE Shape'
  <2> DEFINE t == HandlerOf(r)
  <2>1. /\ r \in Request /\ Acceptable(r) /\ pc' = [pc EXCEPT ![t] = "select"]
        /\ wire' = wire \ {r} /\ UNCHANGED <<todo, peer, attempt, answers>>
    BY <1>2 DEF Accept, Goto, HandlerOf, TypeOK
  <2>2. /\ t \in Task /\ Nth(t) > 0 /\ Ev(t) = Ev(r.task) /\ At(t) = r.to
        /\ Served(t) = r
    BY <2>1, HandlerServes
  <2>3. pc[t] = "idle" /\ Past(r) /\ r.to \in RelayTargets(At(r.task), Ev(r.task))
    BY <2>1 DEF Shape, Once, WireFresh, WireSent, Routed, WireRouted
  <2>4. At(t) \in RelayTargets(Origin[Ev(t)], Ev(t))
    BY <2>1, <2>2, <2>3 DEF Acceptable
  <2> HIDE DEF t
  <2>5. Routed'
    BY <1>0, <2>1, <2>2, <2>3, <2>4, RoutedKept DEF TodoRouted
  <2>6. ASSUME NEW x \in Request, Past(x) PROVE Past(x)'
    <3>1. x.task # t
      BY <2>3, <2>6 DEF Past, BeforeLoop
    <3>2. x.task \in Task
      BY RequestParts
    <3> QED
      BY <2>1, <2>6, <3>1, <3>2 DEF Past, TypeOK
  <2>7. WireSent'
    BY <2>1, <2>6 DEF Shape, Once, WireSent, TypeOK
  <2>8. HandlersSent'
    <3> SUFFICES ASSUME NEW u \in Task, Nth(u) > 0, pc'[u] # "idle" PROVE Past(Served(u))'
      BY DEF HandlersSent, Served
    <3>1. CASE u = t
      BY <2>1, <2>2, <2>3, <2>6, <3>1
    <3>2. CASE u # t
      BY <2>1, <2>6, <3>2, ServedType DEF Shape, Once, HandlersSent, TypeOK
    <3> QED
      BY <3>1, <3>2
  <2>9. WireFresh'
    <3> SUFFICES ASSUME NEW x \in wire', Acceptable(x) PROVE pc'[HandlerOf(x)] = "idle"
      BY DEF WireFresh, Acceptable, HandlerOf
    <3>1. x \in wire /\ x # r
      BY <2>1
    <3>2. HandlerOf(x) \in Task /\ Served(HandlerOf(x)) = x
      BY <3>1, HandlerServes
    <3>3. HandlerOf(x) # t /\ pc[HandlerOf(x)] = "idle"
      BY <2>2, <3>1, <3>2 DEF Shape, Once, WireFresh
    <3> QED
      BY <2>1, <3>2, <3>3 DEF TypeOK
  <2>10. AnswersAwaited'
    BY <1>0, <2>1, <2>2, <2>3, OthersAwaited
  <2> QED
    BY <2>5, <2>7, <2>8, <2>9, <2>10 DEF Shape, Once
<1>3. ASSUME NEW r \in wire, Refuse(r) PROVE Shape'
  <2>1. /\ wire' = wire \ {r} /\ UNCHANGED <<pc, todo, peer, attempt>>
        /\ answers' = answers \cup Answers({r}, FALSE)
    BY <1>3 DEF Refuse
  <2>2. Routed'
    BY <2>1 DEF Shape, Routed, TasksRooted, TodoRouted, PeerTodo, InLoop, WireRouted
  <2>3. Once'
    BY <2>1 DEF Shape, Once, WireSent, HandlersSent, WireFresh, Past
  <2>4. AnswersAwaited'
    BY <1>0, <2>1 DEF AnswersAwaited, Answers, Awaited
  <2> QED
    BY <2>2, <2>3, <2>4 DEF Shape
<1>4. ASSUME NEW r \in wire, ConnectFail(r) PROVE Shape'
  <2>1. r.task \in Task
    BY RequestParts DEF TypeOK
  <2> QED
    BY <1>4, <2>1, FailedShape DEF ConnectFail, Awaited
<1>5. ASSUME NEW t \in Task, Select(t) PROVE Shape'
  <2>1. PICK q \in {"broadcast", "insert"} : pc' = [pc EXCEPT ![t] = q]
    BY <1>5 DEF Select, Goto
  <2>2. AnswersAwaited'
    BY <1>0, <1>5, <2>1, OthersAwaited DEF Select
  <2> QED
    BY <1>0, <1>5, <1>a, <2>1, <2>2 DEF Select, BeforeLoop
<1>6. ASSUME NEW t \in Task, Insert(t) PROVE Shape'
  <2>1. CASE Goto(t, "files") /\ UNCHANGED answers
    <3>1. AnswersAwaited'
      BY <1>0, <1>6, <2>1, OthersAwaited DEF Insert, Goto
    <3> QED
      BY <1>0, <1>6, <1>a, <2>1, <3>1 DEF Insert, Goto, BeforeLoop
  <2>2. CASE Goto(t, "done") /\ Reply(t, FALSE)
    <3>1. AnswersAwaited'
      BY <1>0, <1>6, <2>2, ReplyAwaited DEF Insert, Goto
    <3> QED
      BY <1>0, <1>6, <1>a, <2>2, <3>1 DEF Insert, Goto, BeforeLoop
  <2> QED
    BY <1>6, <2>1, <2>2 DEF Insert
<1>7. ASSUME NEW t \in Task, AttachFiles(t) PROVE Shape'
  <2>1. AnswersAwaited'
    BY <1>0, <1>7, OthersAwaited DEF AttachFiles, Goto
  <2> QED
    BY <1>0, <1>7, <1>a, <2>1 DEF AttachFiles, Goto, BeforeLoop
<1>8. ASSUME NEW t \in Task, Broadcast(t) PROVE Shape'
  <2>1. /\ pc[t] = "broadcast" /\ pc' = [pc EXCEPT ![t] = "relay"]
        /\ todo' = [todo EXCEPT ![t] = RelayTargets(At(t), Ev(t))]
        /\ UNCHANGED <<peer, attempt, wire, answers>>
    BY <1>8 DEF Broadcast, Goto
  <2>2. todo'[t] = RelayTargets(At(t), Ev(t)) /\ \A u \in Task \ {t} : todo'[u] = todo[u]
    BY <2>1 DEF TypeOK
  <2>3. Routed'
    BY <1>0, <2>1, <2>2, RoutedKept
  <2>4. \A r \in Request : r.task = t /\ Past(r) => Past(r)'
    BY <2>1 DEF Past, BeforeLoop
  <2>5. Once'
    BY <1>0, <2>1, <2>2, <2>4, OnceKept
  <2>6. AnswersAwaited'
    BY <1>0, <2>1, OthersAwaited
  <2> QED
    BY <2>3, <2>5, <2>6 DEF Shape
<1>9. ASSUME NEW t \in Task, Deliver(t) PROVE Shape'
  <2>1. PICK to \in todo[t] : Attempt(t, to, 1)
    BY <1>9 DEF Deliver
  <2>2. pc[t] = "relay" /\ 1 \in 1..RelayAttempts
    BY <1>9, RelayAssumption DEF Deliver
  <2> QED
    BY <2>1, <2>2, AttemptShape
<1>10. ASSUME NEW t \in Task, Retry(t) PROVE Shape'
  <2>1. pc[t] = "backoff" /\ Attempt(t, peer[t], attempt[t] + 1)
    BY <1>10 DEF Retry
  <2>2. peer[t] \in todo[t] /\ attempt[t] + 1 \in 1..RelayAttempts
    BY <2>1, RelayAssumption DEF TypeOK, Shape, Routed, PeerTodo, InLoop
  <2> QED
    BY <2>1, <2>2, AttemptShape
<1>11. ASSUME NEW t \in Task, GetAnswer(t) PROVE Shape'
  <2>0. PICK a \in answers :
          /\ a.req.task = t
          /\ \/ /\ a.ok
                /\ todo' = [todo EXCEPT ![t] = @ \ {peer[t]}]
                /\ Goto(t, "relay")
             \/ ~a.ok /\ Failed(t) /\ UNCHANGED todo
    BY <1>11 DEF GetAnswer
  <2>1. pc[t] = "wait" /\ answers' = Unasked(t) /\ UNCHANGED <<peer, attempt, wire>>
    BY <1>0, <1>11, <2>0 DEF GetAnswer, AnswersAwaited, Awaited
  <2>2. CASE Failed(t) /\ UNCHANGED todo
    BY <2>1, <2>2, FailedShape
  <2>3. CASE /\ todo' = [todo EXCEPT ![t] = @ \ {peer[t]}]
             /\ Goto(t, "relay")
    <3>1. /\ todo'[t] = todo[t] \ {peer[t]} /\ pc' = [pc EXCEPT ![t] = "relay"]
          /\ \A u \in Task \ {t} : todo'[u] = todo[u]
      BY <2>3 DEF TypeOK, Goto
    <3>2. Routed'
      BY <1>0, <2>1, <3>1, RoutedKept DEF TodoRouted
    <3>3. ASSUME NEW r \in Request, r.task = t, Past(r) PROVE Past(r)'
      <4>1. r.to \notin todo'[t] /\ pc'[t] = "relay"
        BY <3>1, <3>3 DEF Past, TypeOK
      <4> QED
        BY <3>3, <4>1 DEF Past, BeforeLoop
    <3>4. Once'
      BY <1>0, <2>1, <3>1, <3>3, OnceKept
    <3>5. AnswersAwaited'
      BY <1>0, <2>1, <3>1, RequestParts DEF AnswersAwaited, Awaited, Unasked, TypeOK, Answer
    <3> QED
      BY <3>2, <3>4, <3>5 DEF Shape
  <2> QED
    BY <2>0, <2>2, <2>3
<1>12. ASSUME NEW t \in Task, Timeout(t) PROVE Shape'
  BY <1>12, FailedShape DEF Timeout
<1>13. ASSUME NEW t \in Task, Enqueue(t) PROVE Shape'
  <2>1. /\ pc[t] = "enqueue" /\ pc' = [pc EXCEPT ![t] = "relay"]
        /\ todo' = [todo EXCEPT ![t] = @ \ {peer[t]}]
        /\ UNCHANGED <<peer, attempt, wire, answers>>
    BY <1>13 DEF Enqueue, Goto
  <2>2. todo'[t] = todo[t] \ {peer[t]} /\ \A u \in Task \ {t} : todo'[u] = todo[u]
    BY <2>1 DEF TypeOK
  <2>3. Routed'
    BY <1>0, <2>1, <2>2, RoutedKept DEF TodoRouted
  <2>4. ASSUME NEW r \in Request, r.task = t, Past(r) PROVE Past(r)'
    <3>1. r.to \notin todo'[t] /\ pc'[t] = "relay"
      BY <2>1, <2>2, <2>4 DEF Past, TypeOK
    <3> QED
      BY <2>4, <3>1 DEF Past, BeforeLoop
  <2>5. Once'
    BY <1>0, <2>1, <2>2, <2>4, OnceKept
  <2>6. AnswersAwaited'
    BY <1>0, <2>1, OthersAwaited
  <2> QED
    BY <2>3, <2>5, <2>6 DEF Shape
<1>14. ASSUME NEW t \in Task, Finish(t) PROVE Shape'
  <2>1. AnswersAwaited'
    BY <1>0, <1>14, ReplyAwaited DEF Finish, Goto
  <2> QED
    BY <1>0, <1>14, <1>a, <2>1 DEF Finish, Goto
<1>15. ASSUME NEW t \in Task, PoolTimeout(t) PROVE Shape'
  <2>1. AnswersAwaited'
    BY <1>0, <1>15, ReplyAwaited DEF PoolTimeout, Goto
  <2> QED
    BY <1>0, <1>15, <1>a, <2>1 DEF PoolTimeout, Goto
<1>16. ASSUME NEW s \in Server, Crash(s) PROVE Shape'
  <2> DEFINE gone == {t \in Task : At(t) = s /\ Running(t)}
  <2>1. /\ pc' = [t \in Task |-> IF t \in gone THEN "dead" ELSE pc[t]]
        /\ answers' = {a \in answers : a.req.task \notin gone}
             \cup Answers({Served(t) : t \in {u \in gone : Nth(u) > 0}}, FALSE)
        /\ UNCHANGED <<todo, peer, attempt, wire>>
    BY <1>16 DEF Crash
  <2>2. \A t \in gone : t \in Task /\ At(t) = s /\ pc[t] \notin {"idle", "done", "dead"}
    BY DEF Running
  <2> HIDE DEF gone
  <2>3. \A t \in Task : /\ (pc'[t] = "idle") = (pc[t] = "idle")
                        /\ pc'[t] \in {pc[t], "dead"}
    BY <2>1, <2>2
  <2>4. Routed'
    BY <2>1, <2>3, RequestParts
    DEF Shape, Routed, TasksRooted, TodoRouted, PeerTodo, InLoop, WireRouted, TypeOK
  <2>5. ASSUME NEW r \in Request, Past(r) PROVE Past(r)'
    BY <2>1, <2>3, <2>5, RequestParts DEF Past, BeforeLoop
  <2>6. WireSent'
    BY <2>1, <2>5 DEF Shape, Once, WireSent, TypeOK
  <2>7. HandlersSent'
    <3> SUFFICES ASSUME NEW u \in Task, Nth(u) > 0, pc'[u] # "idle" PROVE Past(Served(u))'
      BY DEF HandlersSent, Served
    <3> QED
      BY <2>3, <2>5, ServedType DEF Shape, Once, HandlersSent
  <2>8. WireFresh'
    <3> SUFFICES ASSUME NEW x \in wire', Acceptable(x) PROVE pc'[HandlerOf(x)] = "idle"
      BY DEF WireFresh, Acceptable, HandlerOf
    <3> QED
      BY <2>1, <2>3, HandlerServes DEF Shape, Once, WireFresh
  <2>9. AnswersAwaited'
    <3> SUFFICES ASSUME NEW a \in answers' PROVE Awaited(a.req)'
      BY DEF AnswersAwaited
    <3>1. CASE a \in answers /\ a.req.task \notin gone
      <4>1. a.req.task \in Task
        BY <3>1, RequestParts DEF TypeOK, Answer
      <4> QED
        BY <1>0, <2>1, <3>1, <4>1 DEF AnswersAwaited, Awaited
    <3>2. CASE a \in Answers({Served(t) : t \in {u \in gone : Nth(u) > 0}}, FALSE)
      <4>1. PICK u \in gone : Nth(u) > 0 /\ a.req = Served(u) /\ Awaited(Served(u))
        BY <3>2 DEF Answers
      <4> DEFINE p == Served(u).task
      <4>2. /\ u \in Task /\ p = <<Ev(u), Origin[Ev(u)], 0>> /\ Ev(u) \in Event
            /\ At(u) = s
        BY <2>2, <4>1, ServedType, TaskParts
      <4>3. p \in Task /\ At(p) = Origin[Ev(u)]
        BY <4>2, PostTask
      <4>4. At(u) \in RelayTargets(Origin[Ev(u)], Ev(u))
        BY <2>2, <4>1, <4>2 DEF Shape, Routed, TasksRooted
      <4>5. At(p) # s
        BY <4>2, <4>3, <4>4, OriginType, RelayTargetsType
      <4>6. p \notin gone
        BY <2>2, <4>5
      <4> QED
        BY <2>1, <4>1, <4>3, <4>6 DEF Awaited
    <3> QED
      BY <2>1, <3>1, <3>2
  <2> QED
    BY <2>4, <2>6, <2>7, <2>8, <2>9 DEF Shape, Once
<1>18. ASSUME NEW t \in Task, EnqueueFails(t) PROVE Shape'
  <2>1. PICK q \in {"relay", "dead"} :
          /\ pc[t] = "enqueue" /\ pc' = [pc EXCEPT ![t] = q]
          /\ todo' = [todo EXCEPT ![t] = @ \ {peer[t]}]
          /\ UNCHANGED answers \/ Reply(t, FALSE)
          /\ UNCHANGED <<peer, attempt, wire>>
    BY <1>18 DEF EnqueueFails, Goto
  <2>2. todo'[t] = todo[t] \ {peer[t]} /\ \A u \in Task \ {t} : todo'[u] = todo[u]
    BY <2>1 DEF TypeOK
  <2>a. q \in Phase /\ pc'[t] = q /\ q # "idle" /\ ~(q \in {"wait", "backoff", "enqueue"})
    BY <2>1 DEF TypeOK, Phase
  <2>3. Routed'
    BY <1>0, <2>1, <2>2, <2>a, RoutedKept DEF TodoRouted
  <2>4. ASSUME NEW r \in Request, r.task = t, Past(r) PROVE Past(r)'
    <3>1. r.to \notin todo'[t] /\ pc'[t] \notin BeforeLoop
      BY <2>1, <2>2, <2>4, <2>a DEF Past, TypeOK, BeforeLoop
    <3> QED
      BY <2>4, <3>1 DEF Past
  <2>5. Once'
    BY <1>0, <2>1, <2>2, <2>4, <2>a, OnceKept
  <2>6. AnswersAwaited'
    <3>1. CASE UNCHANGED answers
      BY <1>0, <2>1, <2>a, <3>1, OthersAwaited
    <3>2. CASE Reply(t, FALSE)
      BY <1>0, <2>1, <2>a, <3>2, ReplyAwaited
    <3> QED
      BY <2>1, <3>1, <3>2
  <2> QED
    BY <2>3, <2>5, <2>6 DEF Shape
<1>17. CASE UNCHANGED vars
  BY <1>17 DEF vars, Shape, Routed, TasksRooted, TodoRouted, PeerTodo, WireRouted, InLoop,
     Once, WireSent, HandlersSent, WireFresh, Past, AnswersAwaited, Awaited
<1> QED
  BY <1>1, <1>2, <1>3, <1>4, <1>5, <1>6, <1>7, <1>8, <1>9, <1>10, <1>11, <1>12,
     <1>13, <1>14, <1>15, <1>16, <1>17, <1>18 DEF Next, Step

THEOREM ShapeCorrect == Spec => []Shape
<1>1. TypeOK /\ Shape /\ [Next]_vars => (TypeOK /\ Shape)'
  BY TypeNext, ShapeNext
<1> QED
  BY <1>1, TypeInit, ShapeInit, PTL DEF Spec
-----------------------------------------------------------------------------
(***************************************************************************)
(* What is stored where.                                                   *)
(***************************************************************************)
Holding == {"files", "broadcast", "relay", "wait", "backoff", "enqueue"}

\* A task exists only for a message its author's server has stored, and works
\* on with one its own server has stored.
ActiveStored == \A t \in Task : pc[t] # "idle" => Stored(Origin[Ev(t)], Ev(t))
Persisted == \A t \in Task : pc[t] \in Holding => Stored(At(t), Ev(t))
PostedOnce == \A e \in Event : pc[<<e, Origin[e], 0>>] = "idle" => ~Stored(Origin[e], e)
CopiesRouted ==
  \A s \in Server, e \in Event :
    Stored(s, e) => s = Origin[e] \/ s \in RelayTargets(Origin[e], e)

\* A relayed message is in the table of its author's server before any other
\* server knows it, whatever the retries, crashes and late requests do.
OriginFirst == \A s \in Server, e \in Event : Stored(s, e) => Stored(Origin[e], e)

Storage ==
  /\ ActiveStored /\ Persisted /\ PostedOnce /\ CopiesRouted
  /\ OriginFirst /\ NoDuplicateRows

LEMMA StorageInit == Init => Storage
<1> SUFFICES ASSUME Init PROVE Storage
  OBVIOUS
<1>1. \A s \in Server, e \in Event : rows[s][e] = 0
  BY DEF Init
<1>2. \A t \in Task : pc[t] = "idle"
  BY DEF Init
<1> QED
  BY <1>1, <1>2, OriginType DEF Storage, ActiveStored, Persisted, PostedOnce,
     CopiesRouted, OriginFirst, NoDuplicateRows, Stored, Holding

\* Storage is kept by a step of a task that leaves the tables alone.
LEMMA StorageKept ==
  ASSUME TypeOK, Storage, NEW t \in Task, NEW q \in Phase \ {"idle"},
         pc' = [pc EXCEPT ![t] = q], UNCHANGED rows,
         Stored(Origin[Ev(t)], Ev(t)), q \in Holding => Stored(At(t), Ev(t))
  PROVE  Storage'
<1>1. ActiveStored' /\ Persisted'
  BY DEF Storage, ActiveStored, Persisted, Stored, TypeOK
<1>2. PostedOnce'
  BY PostTask DEF Storage, PostedOnce, Stored, TypeOK
<1>3. CopiesRouted' /\ OriginFirst' /\ NoDuplicateRows'
  BY DEF Storage, CopiesRouted, OriginFirst, NoDuplicateRows, Stored
<1> QED
  BY <1>1, <1>2, <1>3 DEF Storage

\* Storage is kept by a step that stores, for task t, a message nobody stored
\* on t's server before.
LEMMA StorageGrows ==
  ASSUME TypeOK, Storage, NEW t \in Task, pc' = [pc EXCEPT ![t] = "files"],
         rows' = [rows EXCEPT ![At(t)][Ev(t)] = @ + 1], ~Stored(At(t), Ev(t)),
         \/ t = <<Ev(t), Origin[Ev(t)], 0>>
         \/ /\ Stored(Origin[Ev(t)], Ev(t))
            /\ At(t) \in RelayTargets(Origin[Ev(t)], Ev(t))
  PROVE  Storage'
<1>0. At(t) \in Server /\ Ev(t) \in Event /\ Origin[Ev(t)] \in Server
  BY TaskParts, OriginType
<1>1. \A s \in Server, e \in Event : rows[s][e] \in Nat
  BY DEF TypeOK
<1>2. /\ \A s \in Server, e \in Event :
           rows'[s][e] = IF s = At(t) /\ e = Ev(t) THEN rows[s][e] + 1 ELSE rows[s][e]
      /\ \A u \in Task : pc'[u] = IF u = t THEN "files" ELSE pc[u]
  BY <1>0 DEF TypeOK
<1>3. rows[At(t)][Ev(t)] = 0
  BY <1>0, <1>1 DEF Stored
<1>4. \A s \in Server, e \in Event :
        Stored(s, e)' <=> Stored(s, e) \/ (s = At(t) /\ e = Ev(t))
  BY <1>1, <1>2 DEF Stored
<1>5. Stored(Origin[Ev(t)], Ev(t))'
  BY <1>0, <1>4, PostTask
<1>6. ActiveStored' /\ Persisted'
  BY <1>0, <1>2, <1>4, <1>5, TaskParts, OriginType DEF Storage, ActiveStored, Persisted
<1>7. PostedOnce'
  <2> SUFFICES ASSUME NEW e \in Event, pc'[<<e, Origin[e], 0>>] = "idle"
               PROVE  ~Stored(Origin[e], e)'
    BY DEF PostedOnce, Stored
  <2>1. /\ <<e, Origin[e], 0>> \in Task /\ <<e, Origin[e], 0>> # t
        /\ pc[<<e, Origin[e], 0>>] = "idle"
    BY <1>2, PostTask
  <2>2. ~Stored(Origin[e], e)
    BY <2>1 DEF Storage, PostedOnce
  <2>3. ~(e = Ev(t) /\ At(t) = Origin[e])
    BY <1>0, <2>1, <2>2, RelayTargetsType
  <2> QED
    BY <1>0, <1>4, <2>2, <2>3, OriginType
<1>8. CopiesRouted' /\ OriginFirst'
  <2>1. At(t) = Origin[Ev(t)] \/ At(t) \in RelayTargets(Origin[Ev(t)], Ev(t))
    BY <1>0, PostTask
  <2> QED
    BY <1>0, <1>4, <1>5, <2>1, OriginType DEF Storage, CopiesRouted, OriginFirst
<1>9. NoDuplicateRows'
  BY <1>0, <1>1, <1>2, <1>3 DEF Storage, NoDuplicateRows
<1> QED
  BY <1>6, <1>7, <1>8, <1>9 DEF Storage

LEMMA StorageNext == TypeOK /\ Shape /\ Storage /\ [Next]_vars => Storage'
<1> SUFFICES ASSUME TypeOK, Shape, Storage, [Next]_vars PROVE Storage'
  OBVIOUS
<1> USE DEF durable, loop, bounds
<1>0. /\ \A t \in Task : pc[t] # "idle" => Stored(Origin[Ev(t)], Ev(t))
      /\ \A t \in Task : pc[t] \in Holding => Stored(At(t), Ev(t))
      /\ {"files", "select", "insert", "broadcast", "relay", "wait", "backoff",
          "enqueue", "done", "dead"} \subseteq Phase \ {"idle"}
  BY DEF Storage, ActiveStored, Persisted, Phase
\* A task that goes on with its message, or ends.
<1>a. ASSUME NEW t \in Task, NEW q \in Phase \ {"idle"}, pc[t] # "idle",
             pc' = [pc EXCEPT ![t] = q], UNCHANGED rows,
             q \in Holding => pc[t] \in Holding
      PROVE  Storage'
  BY <1>0, <1>a, StorageKept
<1>b. ASSUME NEW t \in Task, pc[t] \in Holding, Failed(t), UNCHANGED rows
      PROVE  Storage'
  <2>1. PICK q \in {"backoff", "enqueue"} : pc' = [pc EXCEPT ![t] = q]
    BY <1>b DEF Failed, Goto
  <2> QED
    BY <1>0, <1>a, <1>b, <2>1 DEF Holding
<1>1. ASSUME NEW e \in Event, Post(e) PROVE Storage'
  <2> DEFINE t == <<e, Origin[e], 0>>
  <2>1. /\ t \in Task /\ Ev(t) = e /\ At(t) = Origin[e] /\ pc[t] = "idle"
        /\ pc' = [pc EXCEPT ![t] = "files"]
        /\ rows' = [rows EXCEPT ![At(t)][Ev(t)] = @ + 1]
        /\ t = <<Ev(t), Origin[Ev(t)], 0>>
    BY <1>1, PostTask DEF Post, Goto
  <2>2. ~Stored(At(t), Ev(t))
    BY <2>1 DEF Storage, PostedOnce
  <2> HIDE DEF t
  <2> QED
    BY <2>1, <2>2, StorageGrows
<1>2. ASSUME NEW r \in wire, Accept(r) PROVE Storage'
  <2> DEFINE t == HandlerOf(r)
  <2>1. /\ r \in Request /\ Acceptable(r) /\ pc' = [pc EXCEPT ![t] = "select"]
        /\ UNCHANGED rows
    BY <1>2 DEF Accept, Goto, HandlerOf, TypeOK
  <2>2. t \in Task /\ Ev(t) = Ev(r.task) /\ r.task \in Task
    BY <2>1, HandlerServes, RequestParts
  <2>3. pc[r.task] # "idle"
    BY DEF Shape, Routed, WireRouted
  <2> HIDE DEF t
  <2>4. Stored(Origin[Ev(t)], Ev(t)) /\ "select" \notin Holding
    BY <1>0, <2>2, <2>3 DEF Holding
  <2> QED
    BY <1>0, <2>1, <2>2, <2>4, StorageKept
<1>3. ASSUME NEW r \in wire, Refuse(r) PROVE Storage'
  BY <1>3 DEF Refuse, Storage, ActiveStored, Persisted, PostedOnce, CopiesRouted,
     OriginFirst, NoDuplicateRows, Stored
<1>4. ASSUME NEW r \in wire, ConnectFail(r) PROVE Storage'
  <2>1. r.task \in Task
    BY RequestParts DEF TypeOK
  <2> QED
    BY <1>4, <1>b, <2>1 DEF ConnectFail, Awaited, Holding
<1>5. ASSUME NEW t \in Task, Select(t) PROVE Storage'
  <2>1. CASE Stored(At(t), Ev(t))
    <3>1. PICK q \in {"broadcast", "insert"} : pc' = [pc EXCEPT ![t] = q]
      BY <1>5 DEF Select, Goto
    <3> QED
      BY <1>0, <1>5, <2>1, <3>1, StorageKept DEF Select
  <2>2. CASE ~Stored(At(t), Ev(t))
    BY <1>0, <1>5, <1>a, <2>2 DEF Select, Goto, Stored, Holding
  <2> QED
    BY <2>1, <2>2
<1>6. ASSUME NEW t \in Task, Insert(t) PROVE Storage'
  <2>1. CASE rows[At(t)][Ev(t)] > 0 /\ Goto(t, "done") /\ UNCHANGED rows
    BY <1>0, <1>6, <1>a, <2>1 DEF Insert, Goto, Holding
  <2>2. CASE /\ rows[At(t)][Ev(t)] = 0
             /\ rows' = [rows EXCEPT ![At(t)][Ev(t)] = @ + 1]
             /\ Goto(t, "files")
    <3>1. ~Stored(At(t), Ev(t)) /\ Stored(Origin[Ev(t)], Ev(t))
      BY <1>0, <1>6, <2>2 DEF Insert, Stored
    <3>2. At(t) \in RelayTargets(Origin[Ev(t)], Ev(t))
      BY <1>6, <3>1 DEF Insert, Shape, Routed, TasksRooted
    <3> QED
      BY <2>2, <3>1, <3>2, StorageGrows DEF Goto
  <2> QED
    BY <1>6, <2>1, <2>2 DEF Insert
<1>7. ASSUME NEW t \in Task, AttachFiles(t) PROVE Storage'
  BY <1>0, <1>7, <1>a DEF AttachFiles, Goto, Holding
<1>8. ASSUME NEW t \in Task, Broadcast(t) PROVE Storage'
  BY <1>0, <1>8, <1>a DEF Broadcast, Goto, Holding
<1>9. ASSUME NEW t \in Task, Deliver(t) PROVE Storage'
  BY <1>0, <1>9, <1>a DEF Deliver, Attempt, Goto, Holding
<1>10. ASSUME NEW t \in Task, Retry(t) PROVE Storage'
  BY <1>0, <1>10, <1>a DEF Retry, Attempt, Goto, Holding
<1>11. ASSUME NEW t \in Task, GetAnswer(t) PROVE Storage'
  <2>1. pc[t] = "wait" /\ UNCHANGED rows
    BY <1>11 DEF GetAnswer, Shape, AnswersAwaited, Awaited
  <2> QED
    BY <1>0, <1>11, <1>a, <1>b, <2>1 DEF GetAnswer, Goto, Holding
<1>12. ASSUME NEW t \in Task, Timeout(t) PROVE Storage'
  BY <1>12, <1>b DEF Timeout, Holding
<1>13. ASSUME NEW t \in Task, Enqueue(t) PROVE Storage'
  BY <1>0, <1>13, <1>a DEF Enqueue, Goto, Holding
<1>14. ASSUME NEW t \in Task, Finish(t) PROVE Storage'
  BY <1>0, <1>14, <1>a DEF Finish, Goto, Holding
<1>15. ASSUME NEW t \in Task, PoolTimeout(t) PROVE Storage'
  BY <1>0, <1>15, <1>a DEF PoolTimeout, Goto, Holding
<1>16. ASSUME NEW s \in Server, Crash(s) PROVE Storage'
  <2>1. \A t \in Task : /\ (pc'[t] = "idle") = (pc[t] = "idle")
                        /\ pc'[t] \in {pc[t], "dead"}
    BY <1>16 DEF Crash, Running
  <2>2. UNCHANGED rows
    BY <1>16 DEF Crash
  <2>3. ActiveStored' /\ Persisted'
    BY <2>1, <2>2 DEF Storage, ActiveStored, Persisted, Holding, Stored
  <2>4. PostedOnce'
    BY <2>1, <2>2, PostTask DEF Storage, PostedOnce, Stored
  <2> QED
    BY <2>2, <2>3, <2>4 DEF Storage, CopiesRouted, OriginFirst, NoDuplicateRows, Stored
<1>18. ASSUME NEW t \in Task, EnqueueFails(t) PROVE Storage'
  <2>1. PICK q \in {"relay", "dead"} : pc' = [pc EXCEPT ![t] = q]
    BY <1>18 DEF EnqueueFails, Goto
  <2> QED
    BY <1>0, <1>18, <1>a, <2>1 DEF EnqueueFails, Holding
<1>17. CASE UNCHANGED vars
  BY <1>17 DEF vars, Storage, ActiveStored, Persisted, PostedOnce, CopiesRouted,
     OriginFirst, NoDuplicateRows, Stored
<1> QED
  BY <1>1, <1>2, <1>3, <1>4, <1>5, <1>6, <1>7, <1>8, <1>9, <1>10, <1>11, <1>12,
     <1>13, <1>14, <1>15, <1>16, <1>17, <1>18 DEF Next, Step

LEMMA StorageCorrect == Spec => [](TypeOK /\ Shape /\ Storage)
<1>1. Init => TypeOK /\ Shape /\ Storage
  BY TypeInit, ShapeInit, StorageInit
<1>2. TypeOK /\ Shape /\ Storage /\ [Next]_vars => (TypeOK /\ Shape /\ Storage)'
  BY TypeNext, ShapeNext, StorageNext
<1> QED
  BY <1>1, <1>2, PTL DEF Spec

\* No message is persisted twice on a server: the unique index and the check
\* before the insert survive every interleaving of retries and restarts.
THEOREM RowsUnique == Spec => []NoDuplicateRows
BY StorageCorrect, PTL DEF Storage

\* No server knows a message before its author's server has stored it.
THEOREM OriginHasIt == Spec => []OriginFirst
BY StorageCorrect, PTL DEF Storage

\* A mirror holds only messages its own users wrote and messages of the
\* host's users: nothing else gets past the checks of federation_room_message.
MirrorHoldsOwnAndHostMessages ==
  \A s \in Server \ {Host}, e \in Event : Stored(s, e) => Origin[e] \in {s, Host}

\* A mirror never holds a message of a third server's user.
THEOREM MirrorIsRestricted == Spec => []MirrorHoldsOwnAndHostMessages
<1>1. Storage => MirrorHoldsOwnAndHostMessages
  BY OriginType DEF Storage, CopiesRouted, RelayTargets, MirrorHoldsOwnAndHostMessages
<1> QED
  BY <1>1, StorageCorrect, PTL

\* No echo: a request goes to the host or comes from it, and never to the
\* server the author lives on.
NoEcho ==
  \A r \in wire : /\ Host \in {At(r.task), r.to}
                   /\ r.to \notin {At(r.task), Origin[Ev(r.task)]}

\* A message is never sent back to its sender or to its author's server, and
\* every request has the host at one of its ends.
THEOREM NothingEchoes == Spec => []NoEcho
<1>1. TypeOK /\ Shape => NoEcho
  BY RequestParts, TaskParts, OriginType
  DEF Shape, Routed, WireRouted, RelayTargets, NoEcho, TypeOK
<1> QED
  BY <1>1, StorageCorrect, PTL
-----------------------------------------------------------------------------
(***************************************************************************)
(* The relay implements the abstract log of the room.                      *)
(***************************************************************************)
Copies == [s \in Server |-> {e \in Event : rows[s][e] > 0}]
Announced == [s \in Server |-> {e \in Event : shown[s][e] > 0}]

\* A message that is stored for the first time grows one copy.
LEMMA CopiesGrow ==
  ASSUME TypeOK, NEW s \in Server, NEW e \in Event,
         rows' = [rows EXCEPT ![s][e] = @ + 1]
  PROVE  Copies' = [Copies EXCEPT ![s] = @ \cup {e}]
<1>1. \A x \in Server, y \in Event : rows[x][y] \in Nat
  BY DEF TypeOK
<1>2. \A x \in Server, y \in Event :
        rows'[x][y] = IF x = s /\ y = e THEN rows[x][y] + 1 ELSE rows[x][y]
  BY DEF TypeOK
<1>3. \A x \in Server : {y \in Event : rows'[x][y] > 0}
        = {y \in Event : rows[x][y] > 0} \cup (IF x = s THEN {e} ELSE {})
  BY <1>1, <1>2
<1> QED
  BY <1>3 DEF Copies

LEMMA AnnouncedGrow ==
  ASSUME TypeOK, NEW s \in Server, NEW e \in Event,
         shown' = [shown EXCEPT ![s][e] = @ + 1]
  PROVE  Announced' = [Announced EXCEPT ![s] = @ \cup {e}]
<1>1. \A x \in Server, y \in Event : shown[x][y] \in Nat
  BY DEF TypeOK
<1>2. \A x \in Server, y \in Event :
        shown'[x][y] = IF x = s /\ y = e THEN shown[x][y] + 1 ELSE shown[x][y]
  BY DEF TypeOK
<1>3. \A x \in Server : {y \in Event : shown'[x][y] > 0}
        = {y \in Event : shown[x][y] > 0} \cup (IF x = s THEN {e} ELSE {})
  BY <1>1, <1>2
<1> QED
  BY <1>3 DEF Announced

LEMMA LogInit == Init => Log!Init
<1> SUFFICES ASSUME Init PROVE Log!Init
  OBVIOUS
<1>1. /\ \A s \in Server : {e \in Event : rows[s][e] > 0} = {}
      /\ \A s \in Server : {e \in Event : shown[s][e] > 0} = {}
  BY DEF Init
<1> QED
  BY <1>1 DEF Log!Init

LEMMA LogNext ==
  TypeOK /\ Shape /\ Storage /\ [Next]_vars => [Log!Next]_(Log!vars)
<1> SUFFICES ASSUME TypeOK, Shape, Storage, [Next]_vars
             PROVE  [Log!Next]_(Log!vars)
  OBVIOUS
<1> USE DEF durable, loop, bounds
<1>0. UNCHANGED <<rows, shown>> => UNCHANGED Log!vars
  BY DEF Log!vars
<1>1. ASSUME NEW e \in Event, Post(e) PROVE Log!Next
  <2>1. pc[<<e, Origin[e], 0>>] = "idle" /\ Origin[e] \in Server
        /\ rows' = [rows EXCEPT ![Origin[e]][e] = @ + 1] /\ shown' = shown
    BY <1>1, OriginType DEF Post
  <2>2. e \notin Copies[Origin[e]]
    BY <2>1 DEF Storage, PostedOnce, Stored, Copies
  <2>3. Copies' = [Copies EXCEPT ![Origin[e]] = @ \cup {e}] /\ UNCHANGED Announced
    BY <2>1, CopiesGrow DEF Announced
  <2>4. Log!Post(e)
    BY <2>2, <2>3 DEF Log!Post, Log!Grow, Copies, Announced
  <2> QED
    BY <2>4 DEF Log!Next
<1>2. ASSUME NEW t \in Task, Insert(t) PROVE Log!Next \/ UNCHANGED Log!vars
  <2> DEFINE s == At(t)
             e == Ev(t)
  <2>1. CASE UNCHANGED rows
    BY <1>0, <1>2, <2>1 DEF Insert
  <2>2. CASE rows[s][e] = 0 /\ rows' = [rows EXCEPT ![s][e] = @ + 1]
    <3>1. s \in Server /\ e \in Event /\ pc[t] = "insert" /\ shown' = shown
      BY <1>2, TaskParts DEF Insert
    <3>2. Stored(Origin[e], e) /\ ~Stored(s, e)
      BY <2>2, <3>1 DEF Storage, ActiveStored, Stored
    <3>3. s # Origin[e] /\ s \in RelayTargets(Origin[e], e)
      BY <3>1, <3>2 DEF Shape, Routed, TasksRooted
    <3>4. Host \in {s, Origin[e]}
      BY <3>3 DEF RelayTargets
    <3>5. Copies' = [Copies EXCEPT ![s] = @ \cup {e}] /\ UNCHANGED Announced
      BY <2>2, <3>1, CopiesGrow DEF Announced
    <3>6. e \in Copies[Origin[e]] /\ e \notin Copies[s]
      BY <3>1, <3>2, OriginType DEF Copies, Stored
    <3>7. Log!TakeOver(s, e)
      BY <3>3, <3>4, <3>5, <3>6 DEF Log!TakeOver, Log!Grow, Copies, Announced
    <3> QED
      BY <3>1, <3>7 DEF Log!Next
  <2> QED
    BY <1>2, <2>1, <2>2 DEF Insert
<1>3. ASSUME NEW t \in Task, Broadcast(t) PROVE Log!Next
  <2> DEFINE s == At(t)
             e == Ev(t)
  <2>1. /\ s \in Server /\ e \in Event /\ pc[t] = "broadcast" /\ rows' = rows
        /\ shown' = [shown EXCEPT ![s][e] = @ + 1]
    BY <1>3, TaskParts DEF Broadcast
  <2>2. e \in Copies[s]
    BY <2>1 DEF Storage, Persisted, Holding, Stored, Copies
  <2>3. Announced' = [Announced EXCEPT ![s] = @ \cup {e}] /\ UNCHANGED Copies
    BY <2>1, AnnouncedGrow DEF Copies
  <2>4. Log!Announce(s, e)
    BY <2>2, <2>3 DEF Log!Announce, Log!Grow, Copies, Announced
  <2> QED
    BY <2>1, <2>4 DEF Log!Next
<1>4. CASE \E r \in wire : Accept(r) \/ Refuse(r) \/ ConnectFail(r)
  BY <1>0, <1>4 DEF Accept, Refuse, ConnectFail
<1>5. ASSUME NEW t \in Task,
             \/ Select(t) \/ AttachFiles(t) \/ Deliver(t) \/ Retry(t) \/ GetAnswer(t)
             \/ Enqueue(t) \/ Finish(t) \/ PoolTimeout(t) \/ Timeout(t)
             \/ EnqueueFails(t)
      PROVE  UNCHANGED <<rows, shown>>
  BY <1>5 DEF Select, AttachFiles, Deliver, Retry, Attempt, GetAnswer, Enqueue, Finish,
     PoolTimeout, Timeout, EnqueueFails
<1>6. CASE \E s \in Server : Crash(s)
  BY <1>0, <1>6 DEF Crash
<1>7. CASE UNCHANGED vars
  BY <1>0, <1>7 DEF vars
<1> QED
  BY <1>0, <1>1, <1>2, <1>3, <1>4, <1>5, <1>6, <1>7 DEF Next, Step

\* The relay of rows and broadcasts, with its requests, retries and restarts,
\* is a refinement of RoomLog.
THEOREM RelayImplementsRoomLog == Spec => ImplementsRoomLog
BY LogInit, LogNext, StorageCorrect, PTL DEF Spec, ImplementsRoomLog, Log!Spec
-----------------------------------------------------------------------------
(***************************************************************************)
(* What an answer promises and what the fan-out keeps hold of.             *)
(***************************************************************************)
Looping == {"relay", "wait", "backoff", "enqueue"}

LoopShown == \A t \in Task : pc[t] \in Looping => shown[At(t)][Ev(t)] > 0
LoopSettled ==
  \A t \in Task : pc[t] \in Looping =>
    \A to \in RelayTargets(At(t), Ev(t)) \ todo[t] : Settled(At(t), Ev(t), to)

Held == LoopShown /\ LoopSettled /\ NothingDropped /\ FilesFollow
Promise == Held /\ AnswerIsPromise

LEMMA PromiseInit == Init => Promise
BY DEF Init, Promise, Held, LoopShown, LoopSettled, NothingDropped, FilesFollow,
       AnswerIsPromise, Looping, Stored

\* Tables only grow, and what was shown stays shown.
Grown ==
  \A s \in Server, e \in Event :
    /\ Stored(s, e) => Stored(s, e)'
    /\ shown[s][e] > 0 => shown'[s][e] > 0
    /\ e \in filed[s] => e \in filed'[s]
    /\ \A to \in Server : Settled(s, e, to) => Settled(s, e, to)'

LEMMA GrownByRows ==
  ASSUME TypeOK, NEW s \in Server, NEW e \in Event,
         rows' = [rows EXCEPT ![s][e] = @ + 1], UNCHANGED <<shown, filed, outbox, unqueued>>
  PROVE  Grown
<1>1. \A x \in Server, y \in Event :
        /\ rows[x][y] \in Nat
        /\ rows'[x][y] = IF x = s /\ y = e THEN rows[x][y] + 1 ELSE rows[x][y]
  BY DEF TypeOK
<1>2. \A x \in Server, y \in Event : Stored(x, y) => Stored(x, y)'
  BY <1>1 DEF Stored
<1> QED
  BY <1>2 DEF Grown, Settled, HandedOn, Queued, LoggedOnly

LEMMA GrownStep == TypeOK /\ [Next]_vars => Grown
<1> SUFFICES ASSUME TypeOK, [Next]_vars PROVE Grown
  OBVIOUS
<1> USE DEF durable
<1>0. UNCHANGED <<rows, shown, filed, outbox, unqueued>> => Grown
  BY DEF Grown, Settled, HandedOn, Queued, LoggedOnly, Stored
<1>1. ASSUME NEW e \in Event, Post(e) PROVE Grown
  BY <1>1, OriginType, GrownByRows DEF Post
<1>2. ASSUME NEW t \in Task, Insert(t) PROVE Grown
  <2>1. rows' = rows \/ rows' = [rows EXCEPT ![At(t)][Ev(t)] = @ + 1]
    BY <1>2 DEF Insert
  <2> QED
    BY <1>0, <1>2, <2>1, TaskParts, GrownByRows DEF Insert
<1>3. ASSUME NEW t \in Task, AttachFiles(t) PROVE Grown
  BY <1>3, TaskParts DEF AttachFiles, Grown, Settled, HandedOn, Queued, LoggedOnly, Stored, TypeOK
<1>4. ASSUME NEW t \in Task, Broadcast(t) PROVE Grown
  <2>1. At(t) \in Server /\ Ev(t) \in Event
    BY TaskParts
  <2>2. \A x \in Server, y \in Event :
          /\ shown[x][y] \in Nat
          /\ shown'[x][y] = IF x = At(t) /\ y = Ev(t) THEN shown[x][y] + 1
                                                      ELSE shown[x][y]
    BY <1>4, <2>1 DEF Broadcast, TypeOK
  <2>3. \A x \in Server, y \in Event : shown[x][y] > 0 => shown'[x][y] > 0
    BY <2>2
  <2> QED
    BY <1>4, <2>3 DEF Broadcast, Grown, Settled, HandedOn, Queued, LoggedOnly, Stored
<1>5. ASSUME NEW t \in Task, Enqueue(t) PROVE Grown
  <2>1. \A s \in Server : outbox[s] \subseteq outbox'[s]
    BY <1>5, TaskParts DEF Enqueue, TypeOK
  <2> QED
    BY <1>5, <2>1 DEF Enqueue, Grown, Settled, HandedOn, Queued, LoggedOnly, Stored
<1>6. CASE \E r \in wire : Accept(r) \/ Refuse(r) \/ ConnectFail(r)
  BY <1>0, <1>6 DEF Accept, Refuse, ConnectFail
<1>7. CASE \E t \in Task :
             \/ Select(t) \/ Deliver(t) \/ Retry(t) \/ GetAnswer(t)
             \/ Finish(t) \/ PoolTimeout(t) \/ Timeout(t)
  BY <1>0, <1>7 DEF Select, Deliver, Retry, Attempt, GetAnswer, Finish, PoolTimeout, Timeout
<1>8. CASE \E s \in Server : Crash(s)
  BY <1>0, <1>8 DEF Crash
<1>10. ASSUME NEW t \in Task, EnqueueFails(t) PROVE Grown
  BY <1>10 DEF EnqueueFails, Grown, Settled, HandedOn, Queued, LoggedOnly, Stored
<1>9. CASE UNCHANGED vars
  BY <1>0, <1>9 DEF vars
<1> QED
  BY <1>1, <1>2, <1>3, <1>4, <1>5, <1>6, <1>7, <1>8, <1>9, <1>10 DEF Next, Step

\* Held is kept by a step of one task that is accountable for what it leaves.
LEMMA HeldKept ==
  ASSUME TypeOK, Held, Grown, NEW t \in Task, pc[t] # "dead", NEW q \in Phase,
         pc' = [pc EXCEPT ![t] = q],
         \A u \in Task \ {t} : todo'[u] = todo[u],
         q \in Looping =>
           /\ shown'[At(t)][Ev(t)] > 0
           /\ \A to \in RelayTargets(At(t), Ev(t)) \ todo'[t] :
                Settled(At(t), Ev(t), to)',
         q = "dead" \/ \A to \in Owes(t) : Settled(At(t), Ev(t), to)' \/ to \in Owes(t)',
         q = "dead" \/ pc[t] # "files" \/ Ev(t) \in filed'[At(t)],
         \A s \in Server, e \in Event :
           Stored(s, e)' /\ ~Stored(s, e) => s = At(t) /\ e = Ev(t) /\ q = "files"
  PROVE  Held'
<1>0. At(t) \in Server /\ Ev(t) \in Event
  BY TaskParts
<1>1. pc'[t] = q /\ \A u \in Task \ {t} : pc'[u] = pc[u]
  BY DEF TypeOK
<1>2. \A u \in Task \ {t} : Owes(u)' = Owes(u)
  BY <1>1 DEF Owes
<1>3. \A s \in Server, e \in Event : RelayTargets(s, e) \subseteq Server
  BY RelayTargetsType
<1>4. LoopShown' /\ LoopSettled'
  <2> SUFFICES ASSUME NEW u \in Task, pc'[u] \in Looping
               PROVE  /\ shown'[At(u)][Ev(u)] > 0
                      /\ \A to \in RelayTargets(At(u), Ev(u)) \ todo'[u] :
                           Settled(At(u), Ev(u), to)'
    BY DEF LoopShown, LoopSettled
  <2>1. CASE u = t
    BY <1>1, <2>1
  <2>2. CASE u # t
    BY <1>1, <1>3, <2>2, TaskParts DEF Held, LoopShown, LoopSettled, Grown
  <2> QED
    BY <2>1, <2>2
<1>5. NothingDropped'
  <2> SUFFICES ASSUME NEW s \in Server, NEW e \in Event, Stored(s, e)',
                      NEW to \in RelayTargets(s, e)
               PROVE  \/ Settled(s, e, to)'
                      \/ \E u \in Tasks(s, e) : to \in Owes(u)'
                      \/ \E u \in Tasks(s, e) : pc'[u] = "dead"
    BY DEF NothingDropped, Abandoned, Tasks
  <2>1. CASE ~Stored(s, e)
    <3>1. s = At(t) /\ e = Ev(t) /\ q = "files"
      BY <2>1
    <3>2. t \in Tasks(s, e) /\ to \in Owes(t)'
      BY <1>1, <3>1 DEF Owes, Tasks
    <3> QED
      BY <3>2
  <2>2. CASE Settled(s, e, to)
    BY <1>3, <2>2 DEF Grown
  <2>3. ASSUME NEW u \in Tasks(s, e), to \in Owes(u)
        PROVE  \/ Settled(s, e, to)'
               \/ \E x \in Tasks(s, e) : to \in Owes(x)'
               \/ \E x \in Tasks(s, e) : pc'[x] = "dead"
    <3>1. CASE u # t
      BY <1>2, <2>3, <3>1 DEF Tasks
    <3>2. CASE u = t
      BY <1>1, <2>3, <3>2 DEF Tasks
    <3> QED
      BY <3>1, <3>2
  <2>4. ASSUME NEW u \in Tasks(s, e), pc[u] = "dead" PROVE pc'[u] = "dead"
    BY <1>1, <2>4 DEF Tasks
  <2> QED
    BY <2>1, <2>2, <2>3, <2>4 DEF Held, NothingDropped, Abandoned
<1>6. FilesFollow'
  <2> SUFFICES ASSUME NEW s \in Server, NEW e \in Event, Stored(s, e)'
               PROVE  \/ e \in filed'[s]
                      \/ \E u \in Tasks(s, e) : pc'[u] = "files"
                      \/ \E u \in Tasks(s, e) : pc'[u] = "dead"
    BY DEF FilesFollow, Abandoned, Tasks
  <2>1. CASE ~Stored(s, e)
    BY <1>1, <2>1 DEF Tasks
  <2>2. CASE e \in filed[s]
    BY <2>2 DEF Grown
  <2>3. ASSUME NEW u \in Tasks(s, e), pc[u] = "files"
        PROVE  \/ e \in filed'[s]
               \/ \E x \in Tasks(s, e) : pc'[x] = "files"
               \/ \E x \in Tasks(s, e) : pc'[x] = "dead"
    BY <1>1, <2>3 DEF Tasks
  <2>4. ASSUME NEW u \in Tasks(s, e), pc[u] = "dead" PROVE pc'[u] = "dead"
    BY <1>1, <2>4 DEF Tasks
  <2> QED
    BY <2>1, <2>2, <2>3, <2>4 DEF Held, FilesFollow, Abandoned
<1> QED
  BY <1>4, <1>5, <1>6 DEF Held

\* An OK answer among the old ones still promises what it promised.
LEMMA OldAnswers ==
  ASSUME TypeOK, Promise, Grown, \A a \in answers' : a.ok => a \in answers
  PROVE  AnswerIsPromise'
<1> SUFFICES ASSUME NEW a \in answers', a.ok
             PROVE  LET s == a.req.to
                        e == Ev(a.req.task)
                    IN  /\ Stored(s, e)' /\ shown'[s][e] > 0
                        /\ \A to \in RelayTargets(s, e) : Settled(s, e, to)'
  BY DEF AnswerIsPromise
<1>1. a \in answers /\ a.req.to \in Server /\ Ev(a.req.task) \in Event
  BY RequestParts, TaskParts DEF TypeOK, Answer
<1>2. RelayTargets(a.req.to, Ev(a.req.task)) \subseteq Server
  BY <1>1, RelayTargetsType
<1> QED
  BY <1>1, <1>2 DEF Promise, AnswerIsPromise, Grown

LEMMA PromiseNext ==
  TypeOK /\ Shape /\ Storage /\ Promise /\ [Next]_vars => Promise'
<1> SUFFICES ASSUME TypeOK, Shape, Storage, Promise, [Next]_vars PROVE Promise'
  OBVIOUS
<1> USE DEF durable, loop, bounds
<1>0. /\ Grown /\ Held
      /\ {"files", "select", "insert", "broadcast", "relay", "wait", "backoff",
          "enqueue", "done", "dead"} \subseteq Phase
  BY GrownStep DEF Phase, Promise
\* The tasks in the loop, whose todo list is all that they still owe.
<1>l. ASSUME NEW t \in Task, pc[t] \in Looping
      PROVE  /\ shown[At(t)][Ev(t)] > 0 /\ shown'[At(t)][Ev(t)] > 0
             /\ \A to \in RelayTargets(At(t), Ev(t)) \ todo[t] :
                  Settled(At(t), Ev(t), to) /\ Settled(At(t), Ev(t), to)'
             /\ Owes(t) = todo[t] /\ todo[t] \subseteq RelayTargets(At(t), Ev(t))
             /\ pc[t] # "files" /\ pc[t] # "dead"
  <2>1. At(t) \in Server /\ Ev(t) \in Event
        /\ RelayTargets(At(t), Ev(t)) \subseteq Server
    BY TaskParts, RelayTargetsType
  <2> QED
    BY <1>0, <1>l, <2>1 DEF Held, LoopShown, LoopSettled, Grown, Owes, Looping,
       Shape, Routed, TodoRouted
<1>r. rows' = rows => \A s \in Server, e \in Event : ~(Stored(s, e)' /\ ~Stored(s, e))
  BY DEF Stored
\* A refusal promises nothing.
<1>f. ASSUME NEW t \in Task, Reply(t, FALSE) PROVE AnswerIsPromise'
  <2>1. \A a \in answers' : a.ok => a \in answers
    BY <1>f DEF Reply, Answers
  <2> QED
    BY <1>0, <2>1, OldAnswers
\* A task in the loop that goes on with the same list.
<1>g. ASSUME NEW t \in Task, pc[t] \in Looping, NEW q \in Looping,
             pc' = [pc EXCEPT ![t] = q], UNCHANGED <<rows, todo>>
      PROVE  Held'
  <2>1. pc'[t] = q /\ q \in Phase
    BY <1>g DEF TypeOK, Looping, Phase
  <2>2. Owes(t)' = todo[t]
    BY <1>g, <2>1 DEF Owes, Looping
  <2> QED
    BY <1>0, <1>g, <1>l, <1>r, <2>1, <2>2, HeldKept
\* A task in the loop that strikes a server off its list.
<1>s. ASSUME NEW t \in Task, pc[t] \in Looping, UNCHANGED rows,
             pc' = [pc EXCEPT ![t] = "relay"],
             todo' = [todo EXCEPT ![t] = @ \ {peer[t]}], UNCHANGED peer,
             Settled(At(t), Ev(t), peer[t])'
      PROVE  Held'
  <2>1. /\ todo'[t] = todo[t] \ {peer[t]} /\ pc'[t] = "relay"
        /\ \A u \in Task \ {t} : todo'[u] = todo[u]
    BY <1>s DEF TypeOK
  <2>2. Owes(t)' = todo'[t]
    BY <2>1 DEF Owes
  <2>3. \A to \in RelayTargets(At(t), Ev(t)) \ todo'[t] : Settled(At(t), Ev(t), to)'
    BY <1>l, <1>s, <2>1
  <2>4. \A to \in Owes(t) : Settled(At(t), Ev(t), to)' \/ to \in Owes(t)'
    BY <1>l, <1>s, <2>1, <2>2
  <2> QED
    BY <1>0, <1>l, <1>r, <1>s, <2>1, <2>3, <2>4, HeldKept
\* A task in the loop that gives up an attempt.
<1>w. ASSUME NEW t \in Task, pc[t] = "wait", Failed(t), UNCHANGED <<rows, todo>>,
             answers' = Unasked(t)
      PROVE  Promise'
  <2>1. PICK q \in {"backoff", "enqueue"} : pc' = [pc EXCEPT ![t] = q]
    BY <1>w DEF Failed, Goto
  <2>2. Held'
    BY <1>g, <1>w, <2>1 DEF Looping
  <2>3. AnswerIsPromise'
    BY <1>0, <1>w, OldAnswers DEF Unasked
  <2> QED
    BY <2>2, <2>3 DEF Promise
<1>1. ASSUME NEW e \in Event, Post(e) PROVE Promise'
  <2> DEFINE t == <<e, Origin[e], 0>>
  <2>1. /\ t \in Task /\ Ev(t) = e /\ At(t) = Origin[e] /\ pc[t] = "idle"
        /\ pc' = [pc EXCEPT ![t] = "files"]
        /\ rows' = [rows EXCEPT ![At(t)][Ev(t)] = @ + 1]
        /\ UNCHANGED <<todo, answers>>
    BY <1>1, PostTask DEF Post, Goto
  <2> HIDE DEF t
  <2>2. At(t) \in Server /\ Ev(t) \in Event /\ Owes(t) = {}
    BY <2>1, TaskParts DEF Owes
  <2>3. \A x \in Server, y \in Event :
          Stored(x, y)' /\ ~Stored(x, y) => x = At(t) /\ y = Ev(t)
    BY <2>1, <2>2 DEF Stored, TypeOK
  <2>4. Held'
    BY <1>0, <2>1, <2>2, <2>3, HeldKept DEF Looping
  <2> QED
    BY <1>0, <2>1, <2>4, OldAnswers DEF Promise
<1>2. ASSUME NEW r \in wire, Accept(r) PROVE Promise'
  <2> DEFINE t == HandlerOf(r)
  <2>1. /\ Acceptable(r) /\ pc' = [pc EXCEPT ![t] = "select"]
        /\ UNCHANGED <<rows, todo, answers>>
    BY <1>2 DEF Accept, Goto, HandlerOf
  <2>2. t \in Task /\ pc[t] = "idle"
    BY <2>1, HandlerServes DEF Shape, Once, WireFresh
  <2> HIDE DEF t
  <2>3. Owes(t) = {}
    BY <2>2 DEF Owes
  <2>4. Held'
    BY <1>0, <1>r, <2>1, <2>2, <2>3, HeldKept DEF Looping
  <2> QED
    BY <1>0, <2>1, <2>4, OldAnswers DEF Promise
<1>3. ASSUME NEW r \in wire, Refuse(r) PROVE Promise'
  <2>1. Held'
    BY <1>3 DEF Refuse, Promise, Held, LoopShown, LoopSettled, NothingDropped, FilesFollow,
       Settled, HandedOn, Queued, LoggedOnly, Stored, Owes, Abandoned
  <2>2. \A a \in answers' : a.ok => a \in answers
    BY <1>3 DEF Refuse, Answers
  <2> QED
    BY <1>0, <2>1, <2>2, OldAnswers DEF Promise
<1>4. ASSUME NEW r \in wire, ConnectFail(r) PROVE Promise'
  <2>1. r.task \in Task
    BY RequestParts DEF TypeOK
  <2> QED
    BY <1>4, <1>w, <2>1 DEF ConnectFail, Awaited
<1>5. ASSUME NEW t \in Task, Select(t) PROVE Promise'
  <2>1. PICK q \in {"broadcast", "insert"} : pc' = [pc EXCEPT ![t] = q]
    BY <1>5 DEF Select, Goto
  <2>2. Owes(t) = {} /\ pc[t] = "select" /\ UNCHANGED <<rows, todo, answers>>
    BY <1>5 DEF Select, Owes
  <2>3. Held'
    BY <1>0, <1>r, <2>1, <2>2, HeldKept DEF Looping
  <2> QED
    BY <1>0, <2>2, <2>3, OldAnswers DEF Promise
<1>6. ASSUME NEW t \in Task, Insert(t) PROVE Promise'
  <2>1. Owes(t) = {} /\ pc[t] = "insert" /\ UNCHANGED todo
    BY <1>6 DEF Insert, Owes
  <2>2. CASE /\ rows' = [rows EXCEPT ![At(t)][Ev(t)] = @ + 1]
             /\ Goto(t, "files") /\ UNCHANGED answers
    <3>1. \A x \in Server, y \in Event :
            Stored(x, y)' /\ ~Stored(x, y) => x = At(t) /\ y = Ev(t)
      BY <2>2, TaskParts DEF Stored, TypeOK
    <3>2. Held'
      BY <1>0, <2>1, <2>2, <3>1, HeldKept DEF Looping, Goto
    <3> QED
      BY <1>0, <2>2, <3>2, OldAnswers DEF Promise
  <2>3. CASE Goto(t, "done") /\ Reply(t, FALSE) /\ UNCHANGED rows
    <3>1. Held'
      BY <1>0, <1>r, <2>1, <2>3, HeldKept DEF Looping, Goto
    <3> QED
      BY <1>f, <2>3, <3>1 DEF Promise
  <2> QED
    BY <1>6, <2>2, <2>3 DEF Insert
<1>7. ASSUME NEW t \in Task, AttachFiles(t) PROVE Promise'
  <2>1. /\ pc[t] = "files" /\ pc' = [pc EXCEPT ![t] = "broadcast"]
        /\ filed' = [filed EXCEPT ![At(t)] = @ \cup {Ev(t)}]
        /\ UNCHANGED <<rows, todo, answers>>
    BY <1>7 DEF AttachFiles, Goto
  <2>2. Ev(t) \in filed'[At(t)]
    BY <2>1, TaskParts DEF TypeOK
  <2>3. Owes(t)' = Owes(t)
    BY <2>1 DEF Owes, TypeOK
  <2>4. Held'
    BY <1>0, <1>r, <2>1, <2>2, <2>3, HeldKept DEF Looping
  <2> QED
    BY <1>0, <2>1, <2>4, OldAnswers DEF Promise
<1>8. ASSUME NEW t \in Task, Broadcast(t) PROVE Promise'
  <2>1. /\ pc[t] = "broadcast" /\ pc' = [pc EXCEPT ![t] = "relay"]
        /\ shown' = [shown EXCEPT ![At(t)][Ev(t)] = @ + 1]
        /\ todo' = [todo EXCEPT ![t] = RelayTargets(At(t), Ev(t))]
        /\ UNCHANGED <<rows, answers>>
    BY <1>8 DEF Broadcast, Goto
  <2>2. /\ todo'[t] = RelayTargets(At(t), Ev(t)) /\ pc'[t] = "relay"
        /\ shown'[At(t)][Ev(t)] > 0
        /\ \A u \in Task \ {t} : todo'[u] = todo[u]
    BY <2>1, TaskParts DEF TypeOK
  <2>3. Owes(t)' = Owes(t)
    BY <2>1, <2>2 DEF Owes
  <2>4. Held'
    BY <1>0, <1>r, <2>1, <2>2, <2>3, HeldKept
  <2> QED
    BY <1>0, <2>1, <2>4, OldAnswers DEF Promise
<1>9. ASSUME NEW t \in Task, Deliver(t) \/ Retry(t) PROVE Promise'
  <2>1. /\ pc[t] \in Looping /\ pc' = [pc EXCEPT ![t] = "wait"]
        /\ UNCHANGED <<rows, todo, answers>>
    BY <1>9 DEF Deliver, Retry, Attempt, Goto, Looping
  <2>2. Held'
    BY <1>g, <2>1 DEF Looping
  <2> QED
    BY <1>0, <2>1, <2>2, OldAnswers DEF Promise
<1>10. ASSUME NEW t \in Task, GetAnswer(t) PROVE Promise'
  <2>0. PICK a \in answers :
          /\ a.req.task = t
          /\ \/ /\ a.ok
                /\ todo' = [todo EXCEPT ![t] = @ \ {peer[t]}]
                /\ Goto(t, "relay")
             \/ ~a.ok /\ Failed(t) /\ UNCHANGED todo
    BY <1>10 DEF GetAnswer
  <2>1. pc[t] = "wait" /\ peer[t] = a.req.to /\ answers' = Unasked(t)
        /\ UNCHANGED <<rows, peer>>
    BY <1>10, <2>0 DEF GetAnswer, Shape, AnswersAwaited, Awaited
  <2>2. CASE Failed(t) /\ UNCHANGED todo
    BY <1>w, <2>1, <2>2
  <2>3. CASE /\ a.ok
             /\ todo' = [todo EXCEPT ![t] = @ \ {peer[t]}]
             /\ Goto(t, "relay")
    <3>1. Stored(peer[t], Ev(t))
      BY <2>0, <2>1, <2>3 DEF Promise, AnswerIsPromise
    <3>2. Settled(At(t), Ev(t), peer[t])'
      BY <2>1, <3>1 DEF Settled, HandedOn, Stored
    <3>3. Held'
      BY <1>s, <2>1, <2>3, <3>2 DEF Goto, Looping
    <3> QED
      BY <1>0, <2>1, <3>3, OldAnswers DEF Promise, Unasked
  <2> QED
    BY <2>0, <2>2, <2>3
<1>11. ASSUME NEW t \in Task, Timeout(t) PROVE Promise'
  BY <1>11, <1>w DEF Timeout
<1>12. ASSUME NEW t \in Task, Enqueue(t) PROVE Promise'
  <2>1. /\ pc[t] = "enqueue" /\ pc' = [pc EXCEPT ![t] = "relay"]
        /\ outbox' = [outbox EXCEPT ![At(t)] = @ \cup {Relayed(t)}]
        /\ todo' = [todo EXCEPT ![t] = @ \ {peer[t]}]
        /\ UNCHANGED <<rows, peer, answers>>
    BY <1>12 DEF Enqueue, Goto
  <2>2. Relayed(t) \in outbox'[At(t)]
    BY <2>1, TaskParts DEF TypeOK
  <2>3. Settled(At(t), Ev(t), peer[t])'
    BY <2>1, <2>2 DEF Settled, HandedOn, Queued, Relayed
  <2>4. Held'
    BY <1>s, <2>1, <2>3 DEF Looping
  <2> QED
    BY <1>0, <2>1, <2>4, OldAnswers DEF Promise
<1>13. ASSUME NEW t \in Task, Finish(t) PROVE Promise'
  <2>1. /\ pc[t] = "relay" /\ todo[t] = {} /\ pc' = [pc EXCEPT ![t] = "done"]
        /\ Reply(t, TRUE) /\ UNCHANGED <<rows, todo>>
    BY <1>13 DEF Finish, Goto
  <2>2. pc[t] \in Looping
    BY <2>1 DEF Looping
  <2>3. Held'
    BY <1>0, <1>l, <1>r, <2>1, <2>2, HeldKept DEF Looping
  <2>4. AnswerIsPromise'
    <3> SUFFICES ASSUME NEW a \in answers', a.ok
                 PROVE  LET s == a.req.to
                            e == Ev(a.req.task)
                        IN  /\ Stored(s, e)' /\ shown'[s][e] > 0
                            /\ \A to \in RelayTargets(s, e) : Settled(s, e, to)'
      BY DEF AnswerIsPromise
    <3>1. CASE a \in answers
      <4>1. a.req.to \in Server /\ Ev(a.req.task) \in Event
        BY <3>1, RequestParts, TaskParts DEF TypeOK, Answer
      <4>2. RelayTargets(a.req.to, Ev(a.req.task)) \subseteq Server
        BY <4>1, RelayTargetsType
      <4> QED
        BY <1>0, <3>1, <4>1, <4>2 DEF Promise, AnswerIsPromise, Grown
    <3>2. CASE a \notin answers
      <4>1. Nth(t) > 0 /\ a.req = Served(t)
        BY <2>1, <3>2 DEF Reply, Answers
      <4>2. a.req.to = At(t) /\ Ev(a.req.task) = Ev(t)
        BY <4>1, ServedType, PostTask, TaskParts
      <4>3. Stored(At(t), Ev(t))'
        BY <2>1 DEF Storage, Persisted, Holding, Stored
      <4> QED
        BY <1>l, <2>1, <2>2, <4>2, <4>3
    <3> QED
      BY <3>1, <3>2
  <2> QED
    BY <2>3, <2>4 DEF Promise
<1>14. ASSUME NEW t \in Task, PoolTimeout(t) PROVE Promise'
  <2>1. /\ pc[t] # "dead" /\ pc' = [pc EXCEPT ![t] = "dead"]
        /\ Reply(t, FALSE) /\ UNCHANGED <<rows, todo>>
    BY <1>14 DEF PoolTimeout, Goto
  <2>2. Held'
    BY <1>0, <1>r, <2>1, HeldKept DEF Looping
  <2> QED
    BY <1>f, <2>1, <2>2 DEF Promise
<1>15. ASSUME NEW s \in Server, Crash(s) PROVE Promise'
  <2>1. /\ \A t \in Task : pc'[t] = pc[t] \/ pc'[t] = "dead"
        /\ UNCHANGED <<rows, filed, shown, outbox, unqueued, todo>>
        /\ \A a \in answers' : a.ok => a \in answers
    BY <1>15 DEF Crash, Answers
  <2>2. LoopShown' /\ LoopSettled'
    BY <2>1 DEF Promise, Held, LoopShown, LoopSettled, Looping, Settled, HandedOn, Queued, LoggedOnly, Stored
  <2>3. \A t \in Task : pc'[t] # "dead" => pc'[t] = pc[t] /\ Owes(t)' = Owes(t)
    BY <2>1 DEF Owes
  <2>4. NothingDropped'
    BY <2>1, <2>3 DEF Promise, Held, NothingDropped, Settled, HandedOn, Queued, LoggedOnly, Stored, Abandoned, Tasks
  <2>5. FilesFollow'
    BY <2>1, <2>3 DEF Promise, Held, FilesFollow, Stored, Abandoned, Tasks
  <2>6. AnswerIsPromise'
    BY <1>0, <2>1, OldAnswers
  <2> QED
    BY <2>2, <2>4, <2>5, <2>6 DEF Promise, Held
<1>17. ASSUME NEW t \in Task, EnqueueFails(t) PROVE Promise'
  <2>1. /\ pc[t] = "enqueue" /\ unqueued' = unqueued \cup {Relayed(t)}
        /\ todo' = [todo EXCEPT ![t] = @ \ {peer[t]}]
        /\ UNCHANGED <<rows, peer>>
    BY <1>17 DEF EnqueueFails
  <2>2. Settled(At(t), Ev(t), peer[t])'
    <3>1. Relayed(t) \in unqueued' /\ Relayed(t).task = t /\ Relayed(t).to = peer[t]
      BY <2>1 DEF Relayed
    <3>2. LoggedOnly(At(t), Ev(t), peer[t])'
      BY <2>1, <3>1 DEF LoggedOnly
    <3> QED
      BY <3>2 DEF Settled
  <2>3. CASE Goto(t, "relay") /\ UNCHANGED answers
    <3>1. Held'
      BY <1>s, <2>1, <2>2, <2>3 DEF Looping, Goto
    <3> QED
      BY <1>0, <2>3, <3>1, OldAnswers DEF Promise
  <2>4. CASE Goto(t, "dead") /\ Reply(t, FALSE)
    <3>1. \A u \in Task \ {t} : todo'[u] = todo[u]
      BY <2>1 DEF TypeOK
    <3>2. Held'
      BY <1>0, <1>r, <2>1, <2>4, <3>1, HeldKept DEF Looping, Goto
    <3> QED
      BY <1>f, <2>4, <3>2 DEF Promise
  <2> QED
    BY <1>17, <2>3, <2>4 DEF EnqueueFails
<1>16. CASE UNCHANGED vars
  BY <1>16 DEF vars, Promise, Held, LoopShown, LoopSettled, NothingDropped, FilesFollow,
     AnswerIsPromise, Settled, HandedOn, Queued, LoggedOnly, Stored, Owes, Abandoned
<1> QED
  BY <1>1, <1>2, <1>3, <1>4, <1>5, <1>6, <1>7, <1>8, <1>9, <1>10, <1>11, <1>12,
     <1>13, <1>14, <1>15, <1>16, <1>17 DEF Next, Step

LEMMA PromiseCorrect == Spec => []Promise
<1>1. Init => TypeOK /\ Shape /\ Storage /\ Promise
  BY TypeInit, ShapeInit, StorageInit, PromiseInit
<1>2. TypeOK /\ Shape /\ Storage /\ Promise /\ [Next]_vars
        => (TypeOK /\ Shape /\ Storage /\ Promise)'
  BY TypeNext, ShapeNext, StorageNext, PromiseNext
<1> QED
  BY <1>1, <1>2, PTL DEF Spec

\* Whoever answers OK has stored and shown the message and is through with every
\* server it relays to: handed on, queued, or given up because the outbox row
\* could not be written, which the caller of enqueue_outbox_message swallows.
THEOREM AnswersKeepTheirPromise == Spec => []AnswerIsPromise
BY PromiseCorrect, PTL DEF Promise

\* A relay is lost only with a task that was working on the message, or with a
\* failed write of its outbox row.
THEOREM RelaysAreNotDropped == Spec => []NothingDropped
BY PromiseCorrect, PTL DEF Promise, Held

\* The rows of a message's files are lost only with the task between the two
\* commits.
THEOREM FilesAreFollowed == Spec => []FilesFollow
BY PromiseCorrect, PTL DEF Promise, Held
=============================================================================
