-------------------------- MODULE DirectoryProofs ---------------------------
(***************************************************************************)
(* Proofs about Directory: every variable keeps to its type; the keys that *)
(* servers pin are those their owners sign with; a server has keys of a    *)
(* user that the user really had; who was told of a registration is        *)
(* registered; and two users have one chat: for any number of servers,     *)
(* names, addresses and requests.                                          *)
(*                                                                         *)
(* Why it holds: the key pair a server has is never replaced, since the    *)
(* row is inserted only where there is none, and a task that is about to   *)
(* pin a key has it from a row that was committed before (Answers).  A     *)
(* task carries keys of a user that were in the row at home when they were *)
(* read, and what was in that row once is in published for good (Genuine). *)
(*                                                                         *)
(* For chats: one task at a time is about a chat that nobody raced for     *)
(* (OneAsks), a room is changed by the task that made it alone (Lasting),  *)
(* and unless that task still mirrors it, both servers have it (Alike), so *)
(* what the query of either server finds is what the other has too.        *)
(***************************************************************************)
EXTENDS Directory, FiniteSetTheorems, TLAPS

TaskRec == [pc : Phase, kind : {"none", "register", "update", "lookup", "chat"},
            who : Account, name : Name, addr : Address,
            call : {"lookup", "import"}, side : {"caller", "callee"},
            key : Key, sig : Key, card : Key, left : BOOLEAN]

OtherOf(t) == IF t.side = "caller" THEN Reaches[t.addr] ELSE t.who[2]

\* What a hello answered is the key in the row of the server that answered.
Answer(t, k) == t.pc \in {"pin", "addpin"} => k[OtherOf(t)] # 0 /\ t.key = k[OtherOf(t)]
Answers == \A o \in Task : Answer(task[o], key)

TaskOK(t, k) == t \in TaskRec /\ t.sig \in {0, k[t.who[2]]} /\ Answer(t, k)

\* The types of what no signature depends on.
Rest ==
  /\ row \in [Server -> [Account -> Key]]
  /\ room \in [Server -> SUBSET [host : Server, id : Task, with : SUBSET Account]]
  /\ made \in Key
  /\ published \in [Account -> SUBSET Key]
  /\ raced \in SUBSET SUBSET Account
  /\ troubles \in 0..MaxLoad

Inv == TypeOK /\ PinsAreReal /\ Answers

-----------------------------------------------------------------------------
(* The parts of a task.                                                     *)

LEMMA IdleType == Idle \in TaskRec
BY DirectoryAssumption DEF Idle, TaskRec, Phase, Account, Home, Key

LEMMA Parts ==
  ASSUME TypeOK, NEW o \in Task
  PROVE  /\ task[o] \in TaskRec /\ At(o) \in Server /\ To(o) \in Server
         /\ Asked(o) \in Account /\ Pair(o) \in SUBSET Account
         /\ Me(o) \in Server /\ Other(o) \in Server /\ Other(o) = OtherOf(task[o])
<1>1. task[o] \in TaskRec BY DEF TypeOK, TaskRec
<1>2. At(o) \in Server BY <1>1 DEF TaskRec, At, Home, Account
<1>3. To(o) \in Server BY <1>1, DirectoryAssumption DEF TaskRec, To
<1>4. Asked(o) \in Account BY <1>1, <1>3 DEF TaskRec, Asked, Account
<1> QED BY <1>1, <1>2, <1>3, <1>4 DEF Pair, Me, Other, OtherOf, TaskRec, At, To, Home

LEMMA NewPhase ==
  ASSUME NEW t \in TaskRec, NEW p \in Phase
  PROVE  /\ [t EXCEPT !.pc = p] \in TaskRec
         /\ [t EXCEPT !.pc = p].pc = p /\ [t EXCEPT !.pc = p].key = t.key
         /\ [t EXCEPT !.pc = p].sig = t.sig /\ [t EXCEPT !.pc = p].who = t.who
         /\ OtherOf([t EXCEPT !.pc = p]) = OtherOf(t)
BY DEF TaskRec, OtherOf

\* A task that goes on keeps its signature.
LEMMA GoesOn ==
  ASSUME NEW t, NEW k, TaskOK(t, k), NEW p \in Phase \ {"pin", "addpin"}
  PROVE  TaskOK([t EXCEPT !.pc = p], k)
BY NewPhase DEF TaskOK, Answer

\* A task that ended keeps no signature and waits for no answer.
LEMMA Ended ==
  ASSUME NEW t \in TaskRec, NEW k
  PROVE  /\ TaskOK(Nothing, k) /\ TaskOK(Answered, k)
         /\ TaskOK(Granted(t), k) /\ TaskOK(Failed(t), k)
<1>1. TaskOK(Nothing, k) /\ TaskOK(Answered, k)
  <2>1. Idle \in TaskRec /\ Idle.sig = 0 BY IdleType DEF Idle
  <2>2. {"ok", "error"} \subseteq Phase BY DEF Phase
  <2>3. /\ Nothing \in TaskRec /\ Nothing.sig = 0 /\ Nothing.pc = "error"
        /\ Answered \in TaskRec /\ Answered.sig = 0 /\ Answered.pc = "ok"
    BY <2>1, <2>2, NewPhase DEF Nothing, Answered
  <2> QED BY <2>3 DEF TaskOK, Answer
<1>2. TaskOK(Granted(t), k)
  <2>1. Granted(t) \in TaskRec /\ Granted(t).sig = 0 /\ Granted(t).pc = "ok"
    BY DEF Granted, TaskRec, Phase, Key
  <2> QED BY <2>1 DEF TaskOK, Answer
<1> QED BY <1>1, <1>2 DEF Failed

\* The heart of the argument, for a step of one task: keys that exist stay, and
\* the new state of the task and the new pins agree with them.
LEMMA OneTask ==
  ASSUME Inv, NEW o \in Task, NEW t, Set(o, t), TaskOK(t, key'),
         key' \in [Server -> Key], \A s \in Server : key[s] # 0 => key'[s] = key[s],
         pin' \in [Server -> [Server -> Key]],
         \A s, u \in Server : pin'[s][u] \in {0, key'[u]},
         Rest'
  PROVE  Inv'
<1>1. task \in [Task -> TaskRec] BY DEF Inv, TypeOK, TaskRec
<1>2. /\ task' \in [Task -> TaskRec] /\ task'[o] = t
      /\ \A p \in Task \ {o} : task'[p] = task[p]
  BY <1>1 DEF Set, TaskOK
<1>3. \A p \in Task : TaskOK(task'[p], key')
  <2> SUFFICES ASSUME NEW p \in Task, p # o PROVE TaskOK(task[p], key')
    BY <1>2
  <2>1. task[p].sig \in {0, key[task[p].who[2]]} BY DEF Inv, PinsAreReal, At, Home
  <2>2. task[p].who[2] \in Server /\ task[p].sig \in Key BY <1>1 DEF TaskRec, Account
  <2>3. OtherOf(task[p]) \in Server /\ Answer(task[p], key)
    BY Parts DEF Inv, Answers
  <2>4. Answer(task[p], key') BY <2>3 DEF Answer
  <2> QED BY <1>1, <2>1, <2>2, <2>4 DEF TaskOK
<1>4. PinsAreReal' /\ Answers'
  BY <1>3 DEF PinsAreReal, Answers, TaskOK, At, Home
<1>5. TypeOK' BY <1>2 DEF TypeOK, Rest, TaskRec
<1> QED BY <1>4, <1>5 DEF Inv

LEMMA HereOK ==
  ASSUME Inv, NEW o \in Task
  PROVE  TaskOK(task[o], key) /\ Rest
BY Parts DEF Inv, PinsAreReal, Answers, TaskOK, TypeOK, Rest, At, Home

\* Steps that change nothing but the task and the rows.
LEMMA KeysStay ==
  ASSUME Inv, NEW o \in Task, NEW t, Set(o, t), TaskOK(t, key), UNCHANGED <<key, pin>>, Rest'
  PROVE  Inv'
<1>1. /\ key \in [Server -> Key] /\ pin \in [Server -> [Server -> Key]]
      /\ \A s, u \in Server : pin[s][u] \in {0, key[u]}
  BY DEF Inv, TypeOK, PinsAreReal
<1> QED BY <1>1, OneTask

LEMMA GotoSet == ASSUME NEW o, NEW p, Goto(o, p) PROVE Set(o, [task[o] EXCEPT !.pc = p])
BY DEF Goto, Set

-----------------------------------------------------------------------------
(* One lemma for each group of steps.                                       *)

LEMMA InitInv == Init => Inv
<1> SUFFICES ASSUME Init PROVE Inv OBVIOUS
<1>1. /\ key \in [Server -> Key] /\ pin \in [Server -> [Server -> Key]]
      /\ row \in [Server -> [Account -> Key]] /\ published \in [Account -> SUBSET Key]
  <2>1. Own \in [Server -> Key] /\ Before \in [Account -> Key] BY DirectoryAssumption DEF Key
  <2> QED BY <2>1 DEF Init, Key
<1>2. task \in [Task -> TaskRec] /\ \A o \in Task : task[o].sig = 0 /\ task[o].pc = "new"
  <2>1. Idle.sig = 0 /\ Idle.pc = "new" BY DEF Idle
  <2> QED BY <2>1, IdleType DEF Init
<1>3. TypeOK
  BY <1>1, <1>2, DirectoryAssumption DEF Init, TypeOK, TaskRec, Key
<1>4. PinsAreReal
  <2>1. \A s, t \in Server : pin[s][t] \in {0, key[t]} BY DEF Init
  <2> QED BY <1>2, <2>1 DEF PinsAreReal
<1>5. Answers BY <1>2 DEF Answers, Answer
<1> QED BY <1>3, <1>4, <1>5 DEF Inv

\* The bound that Spend keeps.
LEMMA SpendType ==
  ASSUME TypeOK, NEW n \in Nat, n > 0, Spend(n)
  PROVE  troubles + 1 \in 0..MaxLoad
<1>1. Cardinality({o \in Task : task[o].pc # "new"}) \in Nat
  <2>1. IsFiniteSet(Task) BY FS_Interval, DirectoryAssumption DEF Task
  <2>2. {o \in Task : task[o].pc # "new"} \subseteq Task OBVIOUS
  <2> QED BY <2>1, <2>2, FS_Subset, FS_CardinalityType
<1> QED BY <1>1, DirectoryAssumption DEF Spend, TypeOK

LEMMA TroubleType ==
  ASSUME TypeOK, Trouble
  PROVE  troubles' \in 0..MaxLoad
BY SpendType DEF Trouble

LEMMA BeginInv ==
  ASSUME Inv, NEW o \in Task, NEW t, TaskOK(t, key), Begin(o, t),
         made' \in Key, raced' \in SUBSET SUBSET Account
  PROVE  Inv'
<1>1. troubles' \in 0..MaxLoad
  BY SpendType DEF Begin, Inv, TypeOK
<1>2. Rest' BY <1>1, HereOK DEF Begin, Rest
<1> QED BY <1>2, KeysStay DEF Begin

LEMMA BeginKeysInv ==
  ASSUME Inv, NEW o \in Task, NEW k \in {"register", "update"}, NEW a \in Account,
         BeginKeys(o, k, a)
  PROVE  Inv'
<1> DEFINE t == [Idle EXCEPT !.pc = k, !.kind = k, !.who = a, !.key = made + 1]
<1>1. made + 1 \in Key /\ made' = made + 1 BY HereOK DEF Rest, Key, BeginKeys
<1>2. t \in TaskRec /\ t.sig = 0 /\ t.pc = k
  <2>1. Idle \in TaskRec /\ Idle.sig = 0 BY IdleType DEF Idle
  <2> QED BY <1>1, <2>1 DEF TaskRec, Phase
<1>3. TaskOK(t, key) BY <1>2 DEF TaskOK, Answer
<1> HIDE DEF t
<1>4. Begin(o, t) /\ raced' = raced BY DEF BeginKeys, t
<1> QED BY <1>1, <1>3, <1>4, BeginInv, HereOK DEF Rest

LEMMA BeginAskInv ==
  ASSUME Inv, NEW o \in Task, NEW k \in {"lookup", "chat"}, NEW a \in Account,
         NEW n \in Name, NEW h \in Address, BeginAsk(o, k, a, n, h)
  PROVE  Inv'
<1> DEFINE t == [Idle EXCEPT !.pc = "resolve", !.kind = k, !.who = a, !.name = n, !.addr = h]
<1>1. t \in TaskRec /\ t.sig = 0 /\ t.pc = "resolve"
  <2>1. Idle \in TaskRec /\ Idle.sig = 0 BY IdleType DEF Idle
  <2> QED BY <2>1 DEF TaskRec, Phase
<1>2. TaskOK(t, key) BY <1>1 DEF TaskOK, Answer
<1> HIDE DEF t
<1>3. Begin(o, t) /\ made' = made BY DEF BeginAsk, t
<1>4. raced' \in SUBSET SUBSET Account
  <2>1. {a, <<n, Reaches[h]>>} \in SUBSET Account BY DirectoryAssumption DEF Account
  <2>2. raced' \in {raced, raced \cup {{a, <<n, Reaches[h]>>}}} BY DEF BeginAsk
  <2> QED BY <2>1, <2>2, HereOK DEF Rest
<1> QED BY <1>2, <1>3, <1>4, BeginInv, HereOK DEF Rest

\* A step that only moves the task on, or ends it.
Onward(o, t) ==
  \/ t \in {Nothing, Answered, Granted(task[o])}
  \/ \E p \in Phase \ {"pin", "addpin"} : t = [task[o] EXCEPT !.pc = p]

LEMMA OnwardOK ==
  ASSUME Inv, NEW o \in Task, NEW t, Onward(o, t)
  PROVE  TaskOK(t, key)
<1>1. TaskOK(task[o], key) /\ task[o] \in TaskRec BY HereOK DEF TaskOK
<1>2. CASE t \in {Nothing, Answered, Granted(task[o])} BY <1>1, <1>2, Ended
<1>3. CASE \E p \in Phase \ {"pin", "addpin"} : t = [task[o] EXCEPT !.pc = p]
  <2>1. PICK p \in Phase \ {"pin", "addpin"} : t = [task[o] EXCEPT !.pc = p] BY <1>3
  <2> QED BY <1>1, <2>1, GoesOn
<1> QED BY <1>2, <1>3 DEF Onward

LEMMA OnwardInv ==
  ASSUME Inv, NEW o \in Task, NEW t, Onward(o, t), Set(o, t), UNCHANGED <<key, pin>>, Rest'
  PROVE  Inv'
BY OnwardOK, KeysStay

LEMMA ResolvedOnward ==
  ASSUME NEW o, Resolved(o)
  PROVE  \E t : Onward(o, t) /\ Set(o, t)
BY DEF Resolved, Served, Goto, Set, Onward, Phase

LEMMA RestStays ==
  ASSUME Rest, UNCHANGED <<row, room, made, ghosts, troubles>>
  PROVE  Rest'
BY DEF Rest, ghosts

\* A row of one account is written.
LEMMA RowWritten ==
  ASSUME Rest, NEW s \in Server, NEW a \in Account, NEW k \in Key,
         row' = [row EXCEPT ![s][a] = k]
  PROVE  row' \in [Server -> [Account -> Key]]
BY DEF Rest

LEMMA AccountStepsInv ==
  ASSUME Inv, NEW o \in Task, Taken(o) \/ Insert(o) \/ Update(o)
  PROVE  Inv'
<1>1. At(o) \in Server /\ task[o].who \in Account /\ task[o].key \in Key
  BY Parts DEF Inv, TaskRec
<1>2. Rest'
  <2>1. CASE Taken(o) BY <2>1, HereOK, RestStays DEF Taken
  <2>2. CASE UNCHANGED <<row, room, made, ghosts, troubles>> BY <2>2, HereOK, RestStays
  <2>3. CASE /\ row' = [row EXCEPT ![At(o)][task[o].who] = task[o].key]
             /\ published' = [published EXCEPT ![task[o].who] = @ \cup {task[o].key}]
             /\ UNCHANGED <<room, made, raced, troubles>>
    <3>1. row' \in [Server -> [Account -> Key]] BY <1>1, <2>3, HereOK, RowWritten
    <3>2. published' \in [Account -> SUBSET Key] BY <1>1, <2>3, HereOK DEF Rest
    <3> QED BY <2>3, <3>1, <3>2, HereOK DEF Rest
  <2> QED BY <2>1, <2>2, <2>3 DEF Insert, Update, ghosts
<1>3. \E t : Onward(o, t) /\ Set(o, t)
  <2>1. {"insert", "ok", "error"} \subseteq Phase \ {"pin", "addpin"} BY DEF Phase
  <2>2. Error(o) \/ Served(o) \/ Grant(o) \/ Goto(o, "insert")
    BY DEF Taken, Insert, Update
  <2> QED BY <2>1, <2>2 DEF Error, Served, Grant, Goto, Set, Onward
<1>4. UNCHANGED <<key, pin>> BY DEF Taken, Insert, Update
<1> QED BY <1>2, <1>3, <1>4, OnwardInv

\* The steps that look and go on.
LEMMA LookInv ==
  ASSUME Inv, NEW o \in Task,
         Resolve(o) \/ Known(o) \/ Cache(o) \/ Find(o) \/ Import(o)
  PROVE  Inv'
<1>1. Rest' /\ UNCHANGED <<key, pin>>
  BY HereOK, RestStays DEF Resolve, Known, Cache, Find, Import
<1>2. \E t : Onward(o, t) /\ Set(o, t)
  <2>1. {"hello", "sign", "addrow", "make", "addroom", "addowner"}
          \subseteq Phase \ {"pin", "addpin"}
    BY DEF Phase
  <2>2. \/ Resolved(o) \/ Error(o) \/ Grant(o)
        \/ \E p \in {"hello", "sign", "addrow", "make", "addroom", "addowner"} : Goto(o, p)
    BY DEF Resolve, Known, Cache, Find, Import
  <2>3. CASE Resolved(o) BY <2>3, ResolvedOnward
  <2>4. CASE Error(o) \/ Grant(o) BY <2>4 DEF Error, Grant, Onward
  <2>5. CASE \E p \in {"hello", "sign", "addrow", "make", "addroom", "addowner"} : Goto(o, p)
    BY <2>1, <2>5 DEF Goto, Set, Onward
  <2> QED BY <2>2, <2>3, <2>4, <2>5
<1> QED BY <1>1, <1>2, OnwardInv

\* A step that only rewrites the record of the task, and keeps its signature.
LEMMA RecordInv ==
  ASSUME Inv, NEW o \in Task, NEW t \in TaskRec, Set(o, t), UNCHANGED <<key, pin>>, Rest',
         t.sig = task[o].sig, t.who = task[o].who, Answer(t, key)
  PROVE  Inv'
<1>1. TaskOK(t, key) BY HereOK DEF TaskOK
<1> QED BY <1>1, KeysStay

\* What a hello answers is the key in the row that is there.
LEMMA HelloInv ==
  ASSUME Inv, NEW o \in Task, Hello(o)
  PROVE  Inv'
<1>1. Rest' /\ UNCHANGED <<key, pin>> BY HereOK, RestStays DEF Hello
<1>2. /\ task[o] \in TaskRec /\ Other(o) \in Server /\ Other(o) = OtherOf(task[o])
      /\ key[Other(o)] \in Key
  BY Parts DEF Inv, TypeOK
<1>3. CASE key[Other(o)] # 0
  <2> DEFINE t == [task[o] EXCEPT !.pc = "pin", !.key = key[Other(o)]]
  <2>1. /\ t \in TaskRec /\ t.sig = task[o].sig /\ t.who = task[o].who
        /\ t.key = key[Other(o)] /\ OtherOf(t) = OtherOf(task[o])
    BY <1>2 DEF TaskRec, Phase, OtherOf
  <2>2. Answer(t, key) BY <1>2, <1>3, <2>1 DEF Answer
  <2>3. Set(o, t) BY <1>3 DEF Hello
  <2> HIDE DEF t
  <2> QED BY <1>1, <2>1, <2>2, <2>3, RecordInv
<1>4. CASE key[Other(o)] = 0
  <2>1. Goto(o, "newkey") BY <1>4 DEF Hello
  <2>2. Onward(o, [task[o] EXCEPT !.pc = "newkey"]) BY DEF Onward, Phase
  <2> QED BY <1>1, <2>1, <2>2, GotoSet, OnwardInv
<1> QED BY <1>3, <1>4

LEMMA PinInv ==
  ASSUME Inv, NEW o \in Task, Pin(o)
  PROVE  Inv'
<1>1. Rest' /\ UNCHANGED <<key, pin>> BY HereOK, RestStays DEF Pin
<1>2. task[o] \in TaskRec /\ Answer(task[o], key) BY Parts DEF Inv, Answers
<1>3. PICK p \in {"addpin", "known", "verify", "sign"} : Goto(o, p) BY DEF Pin, AfterPin
<1>a. p \in Phase BY DEF Phase
<1> DEFINE t == [task[o] EXCEPT !.pc = p]
<1>4. /\ t \in TaskRec /\ t.sig = task[o].sig /\ t.who = task[o].who
      /\ t.key = task[o].key /\ OtherOf(t) = OtherOf(task[o])
  BY <1>2, <1>a, NewPhase
<1>5. Answer(t, key) BY <1>2, <1>4 DEF Answer, Pin
<1>6. Set(o, t) BY <1>3, GotoSet
<1> HIDE DEF t
<1> QED BY <1>1, <1>4, <1>5, <1>6, RecordInv

\* What is left of a request that failed.
LEMMA FailsRest ==
  ASSUME Inv, NEW o \in Task, Fails(o)
  PROVE  /\ \E t \in {Failed(task[o]), Nothing} : Set(o, t) /\ \A k : TaskOK(t, k)
         /\ raced' \in SUBSET SUBSET Account
<1>1. task[o] \in TaskRec /\ Pair(o) \in SUBSET Account BY Parts DEF Inv
<1>2. raced' \in {raced, raced \cup {Pair(o)}} BY DEF Fails
<1> QED BY <1>1, <1>2, Ended, HereOK DEF Fails, Rest

LEMMA FailsInv ==
  ASSUME Inv, NEW o \in Task, Fails(o), UNCHANGED <<key, pin, row, room, made, published>>,
         troubles' \in 0..MaxLoad
  PROVE  Inv'
<1>1. Rest' BY FailsRest, HereOK DEF Rest
<1> QED BY <1>1, FailsRest, KeysStay

\* A key pair is made only where there is none: who pinned or signed did so with
\* another server's, or not at all.
LEMMA NewPairInv ==
  ASSUME Inv, NEW o \in Task, NEW s \in Server, key[s] = 0,
         key' = [key EXCEPT ![s] = made + 1], made' = made + 1, pin' = pin,
         NEW t, Set(o, t), TaskOK(t, key'), UNCHANGED <<row, room, ghosts, troubles>>
  PROVE  Inv'
<1>1. made + 1 \in Key /\ made' \in Key BY HereOK DEF Rest, Key
<1>2. Rest' BY <1>1, HereOK DEF Rest, ghosts
<1>3. key' \in [Server -> Key] /\ \A x \in Server : key[x] # 0 => key'[x] = key[x]
  BY <1>1 DEF Inv, TypeOK
<1>4. pin' \in [Server -> [Server -> Key]] BY DEF Inv, TypeOK
<1>5. \A x, u \in Server : pin'[x][u] \in {0, key'[u]}
  BY <1>3 DEF Inv, PinsAreReal
<1> QED BY <1>2, <1>3, <1>4, <1>5, OneTask

LEMMA NewKeyInv ==
  ASSUME Inv, NEW o \in Task, NewKey(o)
  PROVE  Inv'
<1>1. /\ task[o] \in TaskRec /\ Other(o) \in Server /\ Other(o) = OtherOf(task[o])
      /\ At(o) \in Server /\ At(o) = task[o].who[2]
  BY Parts DEF Inv, At, Home
<1>2. CASE key[Other(o)] # 0
  BY <1>2, FailsInv, HereOK DEF NewKey, Rest
<1>3. CASE key[Other(o)] = 0
  <2> DEFINE t == [task[o] EXCEPT !.pc = "pin", !.key = made + 1]
  <2>1. made + 1 \in Key /\ made + 1 # 0 BY HereOK DEF Rest, Key
  <2>2. /\ t \in TaskRec /\ t.sig = task[o].sig /\ t.who = task[o].who
        /\ t.key = made + 1 /\ OtherOf(t) = OtherOf(task[o])
    BY <1>1, <2>1 DEF TaskRec, Phase, OtherOf
  <2>3. /\ Set(o, t) /\ key' = [key EXCEPT ![Other(o)] = made + 1] /\ made' = made + 1
        /\ UNCHANGED <<pin, row, room, ghosts, troubles>>
    BY <1>3 DEF NewKey, ghosts
  <2> HIDE DEF t
  <2>4. key'[Other(o)] = made + 1 /\ \A x \in Server : key[x] # 0 => key'[x] = key[x]
    BY <1>1, <1>3, <2>3 DEF Inv, TypeOK
  <2>5. Answer(t, key') BY <1>1, <2>1, <2>2, <2>4 DEF Answer
  <2>6. t.sig \in {0, key'[t.who[2]]}
    <3>1. task[o].sig \in {0, key[At(o)]} BY DEF Inv, PinsAreReal
    <3> QED BY <1>1, <2>2, <2>4, <3>1
  <2>7. TaskOK(t, key') BY <2>2, <2>5, <2>6 DEF TaskOK
  <2> QED BY <1>1, <1>3, <2>3, <2>7, NewPairInv
<1> QED BY <1>2, <1>3

LEMMA OwnKeyInv ==
  ASSUME Inv, NEW o \in Task, OwnKey(o)
  PROVE  Inv'
<1>1. task[o] \in TaskRec /\ At(o) \in Server /\ At(o) = task[o].who[2]
  BY Parts DEF Inv, At, Home
<1>2. CASE key[At(o)] # 0
  BY <1>2, FailsInv, HereOK DEF OwnKey, Rest
<1>3. CASE key[At(o)] = 0
  <2> DEFINE t == [task[o] EXCEPT !.pc = "verify", !.sig = made + 1]
  <2>1. made + 1 \in Key BY HereOK DEF Rest, Key
  <2>2. /\ t \in TaskRec /\ t.pc = "verify" /\ t.sig = made + 1 /\ t.who = task[o].who
    BY <1>1, <2>1 DEF TaskRec, Phase
  <2>3. /\ Set(o, t) /\ key' = [key EXCEPT ![At(o)] = made + 1] /\ made' = made + 1
        /\ UNCHANGED <<pin, row, room, ghosts, troubles>>
    BY <1>3 DEF OwnKey, ghosts
  <2> HIDE DEF t
  <2>4. key'[At(o)] = made + 1 BY <1>1, <2>3 DEF Inv, TypeOK
  <2>5. TaskOK(t, key') BY <1>1, <2>2, <2>4 DEF TaskOK, Answer
  <2> QED BY <1>1, <1>3, <2>3, <2>5, NewPairInv
<1> QED BY <1>2, <1>3

\* The pin is the answer, and the answer is the key that is there.
LEMMA AddPinInv ==
  ASSUME Inv, NEW o \in Task, AddPin(o)
  PROVE  Inv'
<1>1. /\ task[o] \in TaskRec /\ Me(o) \in Server /\ Other(o) \in Server
      /\ Other(o) = OtherOf(task[o]) /\ task[o].key \in Key
  BY Parts DEF Inv, TaskRec
<1>2. CASE Knows(Me(o), Other(o)) # 0
  BY <1>2, FailsInv, HereOK DEF AddPin, Rest
<1>3. CASE Knows(Me(o), Other(o)) = 0
  <2>1. task[o].key = key[Other(o)] BY <1>1 DEF AddPin, Inv, Answers, Answer
  <2>2. pin' = [pin EXCEPT ![Me(o)][Other(o)] = task[o].key] /\ key' = key
    BY <1>3 DEF AddPin
  <2>3. /\ pin' \in [Server -> [Server -> Key]]
        /\ \A x, u \in Server : pin'[x][u] \in {0, key'[u]}
    BY <1>1, <2>1, <2>2 DEF Inv, TypeOK, PinsAreReal
  <2>4. PICK p \in {"known", "verify", "sign"} : Goto(o, p) BY <1>3 DEF AddPin, AfterPin
  <2>5. Onward(o, [task[o] EXCEPT !.pc = p]) BY DEF Onward, Phase
  <2>6. TaskOK([task[o] EXCEPT !.pc = p], key') BY <2>2, <2>5, OnwardOK
  <2>7. Rest' BY <1>3, HereOK, RestStays DEF AddPin, ghosts
  <2>8. Set(o, [task[o] EXCEPT !.pc = p]) BY <2>4, GotoSet
  <2>9. key' \in [Server -> Key] /\ \A x \in Server : key[x] # 0 => key'[x] = key[x]
    BY <2>2 DEF Inv, TypeOK
  <2> QED BY <2>3, <2>6, <2>7, <2>8, <2>9, OneTask
<1> QED BY <1>2, <1>3

LEMMA SignInv ==
  ASSUME Inv, NEW o \in Task, Sign(o)
  PROVE  Inv'
<1>1. Rest' /\ UNCHANGED <<key, pin>> BY HereOK, RestStays DEF Sign
<1>2. /\ task[o] \in TaskRec /\ At(o) \in Server /\ At(o) = task[o].who[2]
      /\ key[At(o)] \in Key
  BY Parts DEF Inv, TypeOK, At, Home
<1>3. CASE key[At(o)] # 0
  <2> DEFINE t == [task[o] EXCEPT !.pc = "verify", !.sig = key[At(o)]]
  <2>1. /\ t \in TaskRec /\ t.pc = "verify" /\ t.sig = key[At(o)] /\ t.who = task[o].who
    BY <1>2 DEF TaskRec, Phase
  <2>2. Set(o, t) BY <1>3 DEF Sign
  <2> HIDE DEF t
  <2>3. TaskOK(t, key) BY <1>2, <2>1 DEF TaskOK, Answer
  <2> QED BY <1>1, <2>2, <2>3, KeysStay
<1>4. CASE key[At(o)] = 0
  <2>1. Goto(o, "ownkey") BY <1>4 DEF Sign
  <2>2. Onward(o, [task[o] EXCEPT !.pc = "ownkey"]) BY DEF Onward, Phase
  <2> QED BY <1>1, <2>1, <2>2, GotoSet, OnwardInv
<1> QED BY <1>3, <1>4

LEMMA VerifyInv ==
  ASSUME Inv, NEW o \in Task, Verify(o)
  PROVE  Inv'
<1>1. task[o] \in TaskRec BY Parts DEF Inv
<1>2. CASE Fails(o)
  BY <1>2, FailsInv, HereOK DEF Verify, Rest
<1>3. CASE Goto(o, Handler(o)) /\ UNCHANGED raced
  <2>1. Rest' BY <1>3, HereOK, RestStays DEF Verify, ghosts
  <2>2. PICK p \in {"serve", "import"} : Goto(o, p) BY <1>3 DEF Handler
  <2>3. Onward(o, [task[o] EXCEPT !.pc = p]) BY DEF Onward, Phase
  <2> QED BY <2>1, <2>2, <2>3, GotoSet, OnwardInv DEF Verify
<1>4. CASE Set(o, [task[o] EXCEPT !.pc = "hello", !.side = "callee"]) /\ UNCHANGED raced
  <2> DEFINE t == [task[o] EXCEPT !.pc = "hello", !.side = "callee"]
  <2>1. /\ t \in TaskRec /\ t.pc = "hello" /\ t.sig = task[o].sig /\ t.who = task[o].who
    BY <1>1 DEF TaskRec, Phase
  <2>2. Set(o, t) BY <1>4
  <2> HIDE DEF t
  <2>3. Rest' BY <1>4, HereOK, RestStays DEF Verify, ghosts
  <2>4. UNCHANGED <<key, pin>> /\ Answer(t, key) BY <2>1 DEF Verify, Answer
  <2> QED BY <2>1, <2>2, <2>3, <2>4, RecordInv
<1> QED BY <1>2, <1>3, <1>4 DEF Verify

LEMMA ServeInv ==
  ASSUME Inv, NEW o \in Task, Serve(o)
  PROVE  Inv'
<1>1. Rest' /\ UNCHANGED <<key, pin>> BY HereOK, RestStays DEF Serve
<1>2. task[o] \in TaskRec /\ row[To(o)][Asked(o)] \in Key BY Parts DEF Inv, TypeOK
<1>3. CASE Error(o) BY <1>1, <1>3, OnwardInv DEF Error, Onward
<1>4. CASE Set(o, [task[o] EXCEPT !.pc = "cache", !.key = row[To(o)][Asked(o)]])
  <2> DEFINE t == [task[o] EXCEPT !.pc = "cache", !.key = row[To(o)][Asked(o)]]
  <2>1. /\ t \in TaskRec /\ t.pc = "cache" /\ t.sig = task[o].sig /\ t.who = task[o].who
    BY <1>2 DEF TaskRec, Phase
  <2>2. Set(o, t) BY <1>4
  <2> HIDE DEF t
  <2>3. Answer(t, key) BY <2>1 DEF Answer
  <2> QED BY <1>1, <2>1, <2>2, <2>3, RecordInv
<1> QED BY <1>3, <1>4 DEF Serve

LEMMA AddRowInv ==
  ASSUME Inv, NEW o \in Task, AddRow(o)
  PROVE  Inv'
<1>1. At(o) \in Server /\ Asked(o) \in Account /\ task[o].key \in Key
  BY Parts DEF Inv, TaskRec
<1>2. Rest'
  <2>1. CASE row' = row BY <2>1, HereOK, RestStays DEF AddRow
  <2>2. CASE row' = [row EXCEPT ![At(o)][Asked(o)] = task[o].key]
    <3>1. row' \in [Server -> [Account -> Key]] BY <1>1, <2>2, HereOK, RowWritten
    <3> QED BY <3>1, HereOK DEF Rest, AddRow, ghosts
  <2> QED BY <2>1, <2>2 DEF AddRow
<1>3. \E t : Onward(o, t) /\ Set(o, t)
  <2>1. CASE Error(o) BY <2>1 DEF Error, Onward
  <2>2. CASE Resolved(o) BY <2>2, ResolvedOnward
  <2> QED BY <2>1, <2>2 DEF AddRow
<1>4. UNCHANGED <<key, pin>> BY DEF AddRow
<1> QED BY <1>2, <1>3, <1>4, OnwardInv

LEMMA AddOwnerInv ==
  ASSUME Inv, NEW o \in Task, AddOwner(o)
  PROVE  Inv'
<1>1. To(o) \in Server /\ task[o].who \in Account /\ task[o].card \in Key
  BY Parts DEF Inv, TaskRec
<1>2. CASE Fails(o) /\ UNCHANGED row
  BY <1>2, FailsInv, HereOK DEF AddOwner, Rest
<1>3. CASE /\ row' = [row EXCEPT ![To(o)][task[o].who] = task[o].card]
           /\ Goto(o, "addroom") /\ UNCHANGED raced
  <2>1. row' \in [Server -> [Account -> Key]] BY <1>1, <1>3, HereOK, RowWritten
  <2>2. Rest' BY <1>3, <2>1, HereOK DEF Rest, AddOwner
  <2>3. Onward(o, [task[o] EXCEPT !.pc = "addroom"]) BY DEF Onward, Phase
  <2> QED BY <1>3, <2>2, <2>3, GotoSet, OnwardInv DEF AddOwner
<1> QED BY <1>2, <1>3 DEF AddOwner

\* The rooms of one server are written.
LEMMA RoomInv ==
  ASSUME Inv, NEW o \in Task, NEW s \in Server, NEW t, Set(o, t), TaskOK(t, key),
         NEW rooms \in SUBSET [host : Server, id : Task, with : SUBSET Account],
         room' = [room EXCEPT ![s] = rooms],
         UNCHANGED <<key, pin, row, made, ghosts, troubles>>
  PROVE  Inv'
<1>1. Rest' BY HereOK DEF Rest, ghosts
<1> QED BY <1>1, KeysStay

LEMMA MakeInv ==
  ASSUME Inv, NEW o \in Task, Make(o)
  PROVE  Inv'
<1>1. /\ task[o] \in TaskRec /\ At(o) \in Server /\ Pair(o) \in SUBSET Account
      /\ row[At(o)][task[o].who] \in Key
  <2>1. task[o] \in TaskRec /\ At(o) \in Server /\ Pair(o) \in SUBSET Account
    BY Parts DEF Inv
  <2> QED BY <2>1 DEF Inv, TypeOK, TaskRec
<1> DEFINE rooms == room[At(o)] \cup {[host |-> At(o), id |-> o, with |-> Pair(o)]}
<1>2. rooms \in SUBSET [host : Server, id : Task, with : SUBSET Account]
  BY <1>1, HereOK DEF Rest
<1>3. room' = [room EXCEPT ![At(o)] = rooms] BY DEF Make
<1> HIDE DEF rooms
<1>4. CASE Grant(o)
  BY <1>1, <1>2, <1>3, <1>4, RoomInv, Ended DEF Make, Grant
<1>5. ASSUME NEW f \in {"sign", "hello"},
             Set(o, [task[o] EXCEPT !.pc = f, !.call = "import", !.side = "caller",
                                    !.card = row[At(o)][task[o].who]])
      PROVE  Inv'
  <2> DEFINE t == [task[o] EXCEPT !.pc = f, !.call = "import", !.side = "caller",
                                  !.card = row[At(o)][task[o].who]]
  <2>1. /\ t \in TaskRec /\ t.pc = f /\ t.sig = task[o].sig /\ t.who = task[o].who
    BY <1>1 DEF TaskRec, Phase
  <2>2. Set(o, t) BY <1>5
  <2> HIDE DEF t
  <2>3. TaskOK(t, key) BY <2>1, HereOK DEF TaskOK, Answer
  <2> QED BY <1>1, <1>2, <1>3, <2>2, <2>3, RoomInv DEF Make
<1> QED BY <1>4, <1>5 DEF Make

LEMMA MirrorInv ==
  ASSUME Inv, NEW o \in Task, AddRoom(o) \/ Members(o)
  PROVE  Inv'
<1>1. /\ task[o] \in TaskRec /\ At(o) \in Server /\ To(o) \in Server
      /\ Pair(o) \in SUBSET Account
  BY Parts DEF Inv
<1>2. room[To(o)] \in SUBSET [host : Server, id : Task, with : SUBSET Account]
  BY <1>1, HereOK DEF Rest
<1>3. CASE AddRoom(o)
  <2> DEFINE rooms == room[To(o)] \cup {[host |-> At(o), id |-> o, with |-> {}]}
  <2>1. rooms \in SUBSET [host : Server, id : Task, with : SUBSET Account] BY <1>1, <1>2
  <2>2. room' = [room EXCEPT ![To(o)] = rooms] BY <1>3 DEF AddRoom
  <2> HIDE DEF rooms
  <2>3. Onward(o, [task[o] EXCEPT !.pc = "members"]) BY DEF Onward, Phase
  <2>4. Set(o, [task[o] EXCEPT !.pc = "members"]) BY <1>3, GotoSet DEF AddRoom
  <2>5. TaskOK([task[o] EXCEPT !.pc = "members"], key) BY <2>3, OnwardOK
  <2> QED BY <1>1, <1>3, <2>1, <2>2, <2>4, <2>5, RoomInv DEF AddRoom
<1>4. CASE Members(o)
  <2> DEFINE rooms == {IF r.host = At(o) /\ r.id = o THEN [r EXCEPT !.with = Pair(o)] ELSE r :
                         r \in room[To(o)]}
  <2>1. rooms \in SUBSET [host : Server, id : Task, with : SUBSET Account] BY <1>1, <1>2
  <2>2. room' = [room EXCEPT ![To(o)] = rooms] BY <1>4 DEF Members
  <2> HIDE DEF rooms
  <2>3. Set(o, Granted(task[o])) BY <1>4 DEF Members, Grant
  <2>4. TaskOK(Granted(task[o]), key) BY <1>1, Ended
  <2> QED BY <1>1, <1>4, <2>1, <2>2, <2>3, <2>4, RoomInv DEF Members
<1> QED BY <1>3, <1>4

LEMMA LoseInv ==
  ASSUME Inv, NEW o \in Task, Lose(o)
  PROVE  Inv'
BY FailsInv, TroubleType DEF Lose, Inv

LEMMA GiveUpInv ==
  ASSUME Inv, NEW o \in Task, GiveUp(o)
  PROVE  Inv'
<1>1. task[o] \in TaskRec /\ Pair(o) \in SUBSET Account BY Parts DEF Inv
<1> DEFINE t == [task[o] EXCEPT !.left = TRUE]
<1>2. /\ t \in TaskRec /\ t.pc = task[o].pc /\ t.sig = task[o].sig /\ t.who = task[o].who
      /\ t.key = task[o].key /\ OtherOf(t) = OtherOf(task[o])
  BY <1>1 DEF TaskRec, OtherOf
<1>3. Set(o, t) BY DEF GiveUp
<1> HIDE DEF t
<1>4. Answer(t, key) BY <1>2, HereOK DEF TaskOK, Answer
<1>5. raced' \in SUBSET SUBSET Account
  <2>1. raced' \in {raced, raced \cup {Pair(o)}} BY DEF GiveUp
  <2> QED BY <1>1, <2>1, HereOK DEF Rest
<1>6. troubles' \in 0..MaxLoad BY TroubleType DEF GiveUp, Inv
<1>7. Rest' BY <1>5, <1>6, HereOK DEF Rest, GiveUp
<1> QED BY <1>2, <1>3, <1>4, <1>7, RecordInv DEF GiveUp

\* A row that came with a group room, for an account that had none.
LEMMA Introduced ==
  ASSUME Inv, NEW s \in Server, NEW t \in Server, NEW a \in Account, Introduce(s, t, a)
  PROVE  \E k \in Key : /\ row' = [row EXCEPT ![t][a] = k]
                        /\ k \in published[a] \/ (k = row[s][a] /\ k # 0)
<1>1. published[a] \subseteq Key /\ row[s][a] \in Key BY DEF Inv, TypeOK
<1>2. /\ row[s][a] # 0
      /\ \E k \in published[a] \cup {row[s][a]} : row' = [row EXCEPT ![t][a] = k]
  BY Zenon DEF Introduce
<1> QED BY <1>1, <1>2, Zenon

LEMMA IntroduceInv ==
  ASSUME Inv, NEW s \in Server, NEW t \in Server, NEW a \in Account, Introduce(s, t, a)
  PROVE  Inv'
<1>1. PICK k \in Key : row' = [row EXCEPT ![t][a] = k] BY Introduced
<1>2. row' \in [Server -> [Account -> Key]] BY <1>1 DEF Inv, TypeOK
<1>3. troubles' \in 0..MaxLoad BY TroubleType DEF Introduce, Inv
<1>4. UNCHANGED <<key, pin, room, task, made, published, raced>> BY DEF Introduce, ghosts
<1>5. TypeOK' BY <1>2, <1>3, <1>4 DEF Inv, TypeOK
<1> QED BY <1>4, <1>5 DEF Inv, PinsAreReal, Answers, Answer, OtherOf, At, Home

\* A crash changes many tasks, and none of what they wrote.
LEMMA CrashInv ==
  ASSUME Inv, NEW s \in Server, Crash(s)
  PROVE  Inv'
<1> DEFINE Hit(o)  == Active(o) /\ (At(o) = s \/ (Remote(o) /\ To(o) = s))
           Lost(o) == IF At(o) # s THEN Failed(task[o])
                      ELSE IF Remote(o) /\ To(o) # s THEN [task[o] EXCEPT !.left = TRUE]
                      ELSE Nothing
           hit == {o \in Task : Hit(o)}
<1>1. task' = [o \in Task |-> IF o \in hit THEN Lost(o) ELSE task[o]] BY DEF Crash
<1>2. \A o \in Task : TaskOK(Lost(o), key)
  <2> SUFFICES ASSUME NEW o \in Task PROVE TaskOK(Lost(o), key) OBVIOUS
  <2>1. TaskOK(task[o], key) /\ task[o] \in TaskRec BY HereOK DEF TaskOK
  <2>2. TaskOK([task[o] EXCEPT !.left = TRUE], key)
    <3> DEFINE t == [task[o] EXCEPT !.left = TRUE]
    <3>1. /\ t \in TaskRec /\ t.pc = task[o].pc /\ t.sig = task[o].sig /\ t.who = task[o].who
          /\ t.key = task[o].key /\ OtherOf(t) = OtherOf(task[o])
      BY <2>1 DEF TaskRec, OtherOf
    <3> HIDE DEF t
    <3>2. TaskOK(t, key) BY <2>1, <3>1 DEF TaskOK, Answer
    <3> QED BY <3>2 DEF t
  <2> QED BY <2>1, <2>2, Ended
<1>3. \A o \in Task : TaskOK(task[o], key) BY HereOK
<1>4. raced' \in SUBSET SUBSET Account
  <2>1. raced' = raced \cup {Pair(o) : o \in {p \in hit : Mirroring(p)}} BY DEF Crash
  <2>2. \A o \in Task : Pair(o) \in SUBSET Account BY Parts DEF Inv
  <2>3. hit \subseteq Task OBVIOUS
  <2> HIDE DEF Lost, hit
  <2>4. {Pair(o) : o \in {p \in hit : Mirroring(p)}} \in SUBSET SUBSET Account BY <2>2, <2>3
  <2>5. raced \in SUBSET SUBSET Account BY DEF Inv, TypeOK
  <2> HIDE DEF Pair, Mirroring
  <2> QED BY <2>1, <2>4, <2>5
<1> HIDE DEF Lost, hit
<1>5. task' \in [Task -> TaskRec] /\ \A o \in Task : TaskOK(task'[o], key)
  BY <1>1, <1>2, <1>3 DEF TaskOK
<1>6. troubles' \in 0..MaxLoad BY TroubleType DEF Crash, Inv
<1>7. UNCHANGED <<key, pin, row, room, made, published>> BY DEF Crash
<1>8. TypeOK' BY <1>4, <1>5, <1>6, <1>7 DEF Inv, TypeOK, TaskRec
<1>9. PinsAreReal' BY <1>5, <1>7 DEF Inv, PinsAreReal, TaskOK, At, Home
<1>10. Answers' BY <1>5, <1>7 DEF Answers, TaskOK, Answer
<1> QED BY <1>8, <1>9, <1>10 DEF Inv

LEMMA NextInv == Inv /\ [Next]_vars => Inv'
<1> SUFFICES ASSUME Inv, [Next]_vars PROVE Inv' OBVIOUS
<1>1. CASE UNCHANGED vars
  BY <1>1 DEF Inv, TypeOK, PinsAreReal, Answers, Answer, OtherOf, At, Home, vars, ghosts
<1>2. ASSUME NEW o \in Task, NEW k \in {"register", "update"}, NEW a \in Account,
             BeginKeys(o, k, a)
      PROVE  Inv'
  BY <1>2, BeginKeysInv
<1>3. ASSUME NEW o \in Task, NEW k \in {"lookup", "chat"}, NEW a \in Account,
             NEW n \in Name, NEW h \in Address, BeginAsk(o, k, a, n, h)
      PROVE  Inv'
  BY <1>3, BeginAskInv
<1>4. ASSUME NEW o \in Task, Step(o) PROVE Inv'
  BY <1>4, AccountStepsInv, LookInv, HelloInv, PinInv, NewKeyInv, OwnKeyInv, AddPinInv,
     SignInv, VerifyInv, ServeInv, AddRowInv, AddOwnerInv, MakeInv, MirrorInv DEF Step
<1>5. ASSUME NEW o \in Task, Lose(o) \/ GiveUp(o) PROVE Inv'
  BY <1>5, LoseInv, GiveUpInv
<1>6. ASSUME NEW s \in Server, Crash(s) PROVE Inv'
  BY <1>6, CrashInv
<1>7. ASSUME NEW s \in Server, NEW t \in Server, NEW a \in Account, Introduce(s, t, a)
      PROVE  Inv'
  BY <1>7, IntroduceInv
<1> QED BY <1>1, <1>2, <1>3, <1>4, <1>5, <1>6, <1>7 DEF Next

\* Every variable keeps to its type, for every number of servers and requests.
THEOREM DirectoryTypes == Spec => []TypeOK
<1>1. Inv => TypeOK BY DEF Inv
<1> QED BY <1>1, InitInv, NextInv, PTL DEF Spec

\* However first contacts meet, requests are lost and servers crash, nobody pins
\* a key that its owner does not sign with (get_local_server, _discover_server,
\* verify_request).
THEOREM DirectoryPins == Spec => []PinsAreReal
<1>1. Inv => PinsAreReal BY DEF Inv
<1> QED BY <1>1, InitInv, NextInv, PTL DEF Spec

-----------------------------------------------------------------------------
(* The rows of users.                                                       *)

\* The keys of users that a task carries, to send them or to store them.
Carries(t, pub) ==
    /\ t.card \in pub[t.who] \cup {0}
    /\ t.pc \in {"cache", "addrow"} => t.key \in pub[<<t.name, Reaches[t.addr]>>]

Registers(t, pub) ==
    t.kind = "register" =>
        /\ t.call = "lookup" /\ t.pc \in {"register", "insert", "ok"}
        /\ t.pc = "ok" => t.key \in pub[t.who]

Genuine(t, pub) == Carries(t, pub) /\ Registers(t, pub)

UserInv ==
    /\ CachedKeysAreGenuine
    /\ \A o \in Task : Genuine(task[o], published)

-----------------------------------------------------------------------------
(* The parts of the argument.                                               *)

\* What was published stays so.
Grows(pub, pub2) == \A a \in Account : pub[a] \subseteq pub2[a]

LEMMA TaskParts ==
  ASSUME NEW t \in TaskRec
  PROVE  /\ t.who \in Account /\ t.who[2] \in Server /\ Reaches[t.addr] \in Server
         /\ <<t.name, Reaches[t.addr]>> \in Account
BY DirectoryAssumption DEF TaskRec, Account

LEMMA GenuineStays ==
  ASSUME NEW t \in TaskRec, NEW pub, NEW pub2,
         Genuine(t, pub), Grows(pub, pub2)
  PROVE  Genuine(t, pub2)
<1>1. Carries(t, pub2) BY TaskParts DEF Genuine, Carries, Grows
<1>2. Registers(t, pub2) BY TaskParts DEF Genuine, Registers, Grows
<1> QED BY <1>1, <1>2 DEF Genuine

LEMMA OneUserTask ==
  ASSUME Inv, UserInv, NEW o \in Task, NEW t, Set(o, t),
         Grows(published, published'),
         Genuine(t, published'), CachedKeysAreGenuine'
  PROVE  UserInv'
<1>1. task \in [Task -> TaskRec] BY DEF Inv, TypeOK, TaskRec
<1>2. \A p \in Task : Genuine(task'[p], published')
  <2> SUFFICES ASSUME NEW p \in Task PROVE Genuine(task'[p], published')
    OBVIOUS
  <2>1. CASE p = o BY <1>1, <2>1 DEF Set
  <2>2. CASE p # o
    <3>1. task'[p] = task[p] /\ task[p] \in TaskRec BY <1>1, <2>2 DEF Set
    <3> QED BY <3>1, GenuineStays DEF UserInv
  <2> QED BY <2>1, <2>2
<1> QED BY <1>2 DEF UserInv

LEMMA GrowsSame ==
  ASSUME published' = published
  PROVE  Grows(published, published')
BY DEF Grows

\* Steps that change nothing of rows, pins and key pairs.
LEMMA TaskOnly ==
  ASSUME Inv, UserInv, NEW o \in Task, NEW t, Set(o, t),
         UNCHANGED <<row, published>>, Genuine(t, published)
  PROVE  UserInv'
<1>1. CachedKeysAreGenuine' BY DEF UserInv, CachedKeysAreGenuine
<1>2. Genuine(t, published') OBVIOUS
<1> QED BY <1>1, <1>2, GrowsSame, OneUserTask

LEMMA Here ==
  ASSUME Inv, UserInv, NEW o \in Task
  PROVE  /\ task[o] \in TaskRec /\ Genuine(task[o], published)
         /\ At(o) = task[o].who[2] /\ To(o) = Reaches[task[o].addr]
         /\ Asked(o) = <<task[o].name, Reaches[task[o].addr]>>
         /\ At(o) \in Server /\ To(o) \in Server /\ Asked(o) \in Account
         /\ Me(o) \in Server /\ Other(o) \in Server
BY Parts DEF Inv, UserInv, At, Home, To, Asked

\* Tasks that ended.
LEMMA EndedGenuine ==
  ASSUME NEW pub
  PROVE  /\ Genuine(Nothing, pub) /\ Genuine(Answered, pub)
         /\ \A t \in TaskRec : t.kind # "register" => Genuine(Granted(t), pub)
         /\ \A t \in TaskRec : Genuine(t, pub) => Genuine(Failed(t), pub)
<1>1. Genuine(Nothing, pub) /\ Genuine(Answered, pub)
  BY DEF Nothing, Answered, Idle, Genuine, Carries, Registers
<1>2. ASSUME NEW t \in TaskRec, t.kind # "register" PROVE Genuine(Granted(t), pub)
  <2> DEFINE g == Granted(t)
  <2>1. g.pc = "ok" /\ g.card = 0 /\ g.kind # "register"
    BY <1>2 DEF Granted, TaskRec
  <2> HIDE DEF g
  <2>2. Genuine(g, pub) BY <2>1 DEF Genuine, Carries, Registers
  <2> QED BY <2>2 DEF g
<1>3. ASSUME NEW t \in TaskRec, Genuine(t, pub) PROVE Genuine(Failed(t), pub)
  <2>1. CASE t.call = "import"
    <3>1. t.kind # "register" BY <1>3, <2>1 DEF Genuine, Registers
    <3> QED BY <1>2, <2>1, <3>1 DEF Failed
  <2>2. CASE t.call # "import" BY <1>1, <2>2 DEF Failed
  <2> QED BY <2>1, <2>2
<1> QED BY <1>1, <1>2, <1>3

\* A task that goes on, and is not about to cache.
LEMMA OnwardGenuine ==
  ASSUME NEW t \in TaskRec, NEW pub, Genuine(t, pub), t.kind # "register",
         NEW f, f \notin {"cache", "addrow"}
  PROVE  Genuine([t EXCEPT !.pc = f], pub)
<1> DEFINE g == [t EXCEPT !.pc = f]
<1>1. g.pc = f /\ g.who = t.who /\ g.card = t.card /\ g.kind = t.kind
  BY DEF TaskRec
<1> HIDE DEF g
<1>2. Genuine(g, pub) BY <1>1 DEF Genuine, Carries, Registers
<1> QED BY <1>2 DEF g

-----------------------------------------------------------------------------
(* The steps.                                                               *)

LEMMA UserInit == Init => UserInv
<1> SUFFICES ASSUME Init PROVE UserInv OBVIOUS
<1>1. ASSUME NEW s \in Server, NEW a \in Account, row[s][a] # 0
      PROVE  row[s][a] \in published[a]
  BY <1>1 DEF Init
<1>2. CachedKeysAreGenuine BY <1>1 DEF CachedKeysAreGenuine
<1>3. \A o \in Task : Genuine(task[o], published)
  BY DEF Init, Idle, Genuine, Carries, Registers
<1> QED BY <1>2, <1>3 DEF UserInv

LEMMA BeginGenuine ==
  ASSUME Inv, UserInv, NEW o \in Task,
         \/ \E k \in {"register", "update"}, a \in Account : BeginKeys(o, k, a)
         \/ \E k \in {"lookup", "chat"}, a \in Account, n \in Name, h \in Address :
              BeginAsk(o, k, a, n, h)
  PROVE  UserInv'
<1>1. CASE \E k \in {"register", "update"}, a \in Account : BeginKeys(o, k, a)
  <2>1. PICK k \in {"register", "update"}, a \in Account : BeginKeys(o, k, a) BY <1>1
  <2> DEFINE t == [Idle EXCEPT !.pc = k, !.kind = k, !.who = a, !.key = made + 1]
  <2>2. t.pc = k /\ t.kind = k /\ t.card = 0 /\ t.call = "lookup" /\ t.side = "caller"
    BY DEF Idle
  <2>3. Set(o, t) /\ UNCHANGED <<row, published>>
    BY <2>1 DEF BeginKeys, Begin
  <2> HIDE DEF t
  <2>4. Genuine(t, published)
    BY <2>2 DEF Genuine, Carries, Registers
  <2> QED BY <2>3, <2>4, TaskOnly
<1>2. CASE \E k \in {"lookup", "chat"}, a \in Account, n \in Name, h \in Address :
             BeginAsk(o, k, a, n, h)
  <2>1. PICK k \in {"lookup", "chat"}, a \in Account, n \in Name, h \in Address :
               BeginAsk(o, k, a, n, h)
    BY <1>2
  <2> DEFINE t == [Idle EXCEPT !.pc = "resolve", !.kind = k, !.who = a, !.name = n, !.addr = h]
  <2>2. t.pc = "resolve" /\ t.card = 0 /\ t.kind = k /\ t.side = "caller" BY DEF Idle
  <2>3. Set(o, t) /\ UNCHANGED <<row, published>>
    BY <2>1 DEF BeginAsk, Begin
  <2> HIDE DEF t
  <2>4. Genuine(t, published)
    BY <2>2 DEF Genuine, Carries, Registers
  <2> QED BY <2>3, <2>4, TaskOnly
<1> QED BY <1>1, <1>2

\* A row of one account is written with keys the account had.
LEMMA RowGenuine ==
  ASSUME Inv, UserInv, NEW s \in Server, NEW a \in Account, NEW k,
         row' = [row EXCEPT ![s][a] = k],
         Grows(published, published'),
         k # 0 => k \in published'[a]
  PROVE  CachedKeysAreGenuine'
<1> SUFFICES ASSUME NEW u \in Server, NEW b \in Account, row'[u][b] # 0
             PROVE  row'[u][b] \in published'[b]
  BY DEF CachedKeysAreGenuine
<1>1. row \in [Server -> [Account -> Key]] BY DEF Inv, TypeOK
<1>2. CASE u = s /\ b = a BY <1>1, <1>2
<1>3. CASE ~(u = s /\ b = a)
  <2>1. row'[u][b] = row[u][b] BY <1>1, <1>3
  <2>2. row[u][b] \in published[b] BY <2>1 DEF UserInv, CachedKeysAreGenuine
  <2> QED BY <2>1, <2>2 DEF Grows
<1> QED BY <1>2, <1>3

LEMMA AccountGenuine ==
  ASSUME Inv, UserInv, NEW o \in Task, Taken(o) \/ Insert(o) \/ Update(o)
  PROVE  UserInv'
<1> DEFINE a == task[o].who
<1>1. /\ task[o] \in TaskRec /\ Genuine(task[o], published)
      /\ a \in Account /\ At(o) \in Server /\ At(o) = Home(a)
  BY Here, TaskParts DEF At
<1>2. CASE Error(o) /\ UNCHANGED <<row, published>>
  BY <1>2, TaskOnly, EndedGenuine DEF Error
<1>3. CASE Taken(o) /\ Goto(o, "insert")
  <2> DEFINE t == [task[o] EXCEPT !.pc = "insert"]
  <2>1. /\ t.pc = "insert" /\ t.card = task[o].card /\ t.call = task[o].call
        /\ t.who = task[o].who /\ t.side = task[o].side /\ t.kind = task[o].kind
        /\ task[o].pc = "register"
    BY <1>1, <1>3 DEF TaskRec, Taken
  <2>2. Set(o, t) /\ UNCHANGED <<row, published>>
    BY <1>3, GotoSet DEF Taken, ghosts
  <2> HIDE DEF t
  <2>3. Genuine(t, published)
    BY <1>1, <2>1 DEF Genuine, Carries, Registers
  <2> QED BY <2>2, <2>3, TaskOnly
<1>4. CASE /\ Grant(o) \/ Served(o)
           /\ row' = [row EXCEPT ![At(o)][a] = task[o].key]
           /\ published' = [published EXCEPT ![a] = @ \cup {task[o].key}]
           /\ UNCHANGED <<key, pin>>
  <2>1. published \in [Account -> SUBSET Key] BY DEF Inv, TypeOK
  <2>2. task[o].key \in published'[a] BY <1>1, <1>4, <2>1
  <2>3. Grows(published, published')
    BY <1>1, <1>4, <2>1 DEF Grows
  <2>4. CachedKeysAreGenuine' BY <1>1, <1>4, <2>2, <2>3, RowGenuine
  <2>5. CASE Served(o)
    <3>1. Genuine(Answered, published') BY EndedGenuine
    <3> QED BY <2>3, <2>4, <2>5, <3>1, OneUserTask DEF Served
  <2>6. CASE Grant(o)
    <3> DEFINE t == Granted(task[o])
    <3>1. /\ t.pc = "ok" /\ t.card = 0 /\ t.call = "lookup" /\ t.side = "caller"
          /\ t.who = a /\ t.kind = task[o].kind
          /\ t.kind = "register" => t.key = task[o].key
      BY <1>1 DEF Granted, TaskRec
    <3>2. Set(o, t) BY <2>6 DEF Grant
    <3> HIDE DEF t
    <3>3. Genuine(t, published')
      BY <2>2, <3>1 DEF Genuine, Carries, Registers
    <3> QED BY <2>3, <2>4, <3>2, <3>3, OneUserTask
  <2> QED BY <1>4, <2>5, <2>6
<1> QED BY <1>2, <1>3, <1>4 DEF Taken, Insert, Update, ghosts

\* A task is not about to register while it deals with another server.
LEMMA NotRegistering ==
  ASSUME Inv, UserInv, NEW o \in Task, task[o].pc \notin {"register", "insert", "ok"}
  PROVE  task[o].kind # "register"
BY Here DEF Genuine, Registers

\* A step that only moves the task on, to where no more is asked of it.
LEMMA OnwardKeepsUsers ==
  ASSUME Inv, UserInv, NEW o \in Task, task[o].pc \notin {"register", "insert", "ok"},
         NEW f, f \notin {"cache", "addrow"}, Goto(o, f), UNCHANGED <<row, published>>
  PROVE  UserInv'
<1>1. Genuine([task[o] EXCEPT !.pc = f], published)
  BY Here, NotRegistering, OnwardGenuine
<1> QED BY <1>1, GotoSet, TaskOnly

LEMMA ResolvedGenuine ==
  ASSUME Inv, UserInv, NEW o \in Task, task[o].pc \notin {"register", "insert", "ok"},
         Resolved(o), UNCHANGED <<row, published>>
  PROVE  UserInv'
<1>1. CASE Served(o) BY <1>1, EndedGenuine, TaskOnly DEF Served
<1>2. CASE Goto(o, "find") BY <1>2, OnwardKeepsUsers
<1> QED BY <1>1, <1>2 DEF Resolved

LEMMA ResolveGenuine ==
  ASSUME Inv, UserInv, NEW o \in Task, Resolve(o)
  PROVE  UserInv'
<1>1. UNCHANGED <<row, published>> /\ task[o].pc = "resolve" BY DEF Resolve, ghosts
<1>2. CASE Resolved(o) BY <1>1, <1>2, ResolvedGenuine
<1>3. CASE Error(o) BY <1>1, <1>3, EndedGenuine, TaskOnly DEF Error
<1>4. CASE \E f \in {"sign", "hello"} : Goto(o, f) BY <1>1, <1>4, OnwardKeepsUsers
<1> QED BY <1>2, <1>3, <1>4 DEF Resolve

LEMMA HelloGenuine ==
  ASSUME Inv, UserInv, NEW o \in Task, Hello(o)
  PROVE  UserInv'
<1>1. UNCHANGED <<row, published>> /\ task[o].pc = "hello" BY DEF Hello, ghosts
<1>2. /\ task[o] \in TaskRec /\ Genuine(task[o], published)
      /\ task[o].kind # "register"
  BY <1>1, Here, NotRegistering
<1>3. CASE Goto(o, "newkey") BY <1>1, <1>3, OnwardKeepsUsers
<1>4. CASE Set(o, [task[o] EXCEPT !.pc = "pin", !.key = key[Other(o)]])
  <2> DEFINE t == [task[o] EXCEPT !.pc = "pin", !.key = key[Other(o)]]
  <2>1. /\ t.pc = "pin" /\ t.call = task[o].call /\ t.who = task[o].who
        /\ t.addr = task[o].addr /\ t.card = task[o].card /\ t.kind = task[o].kind
        /\ t.side = task[o].side
    BY <1>2 DEF TaskRec
  <2>2. Set(o, t) BY <1>4
  <2> HIDE DEF t
  <2>3. Genuine(t, published)
    BY <1>1, <1>2, <2>1 DEF Genuine, Carries, Registers
  <2> QED BY <1>1, <2>2, <2>3, TaskOnly
<1> QED BY <1>3, <1>4 DEF Hello

\* A request that fails.
LEMMA FailsGenuine ==
  ASSUME Inv, UserInv, NEW o \in Task, Fails(o),
         CachedKeysAreGenuine', Grows(published, published')
  PROVE  UserInv'
<1>1. task[o] \in TaskRec /\ Genuine(task[o], published')
  BY Here, GenuineStays
<1> QED BY <1>1, EndedGenuine, OneUserTask DEF Fails

LEMMA FailsKeepsUsers ==
  ASSUME Inv, UserInv, NEW o \in Task, Fails(o), UNCHANGED <<row, published>>
  PROVE  UserInv'
<1>1. CachedKeysAreGenuine' BY DEF UserInv, CachedKeysAreGenuine
<1> QED BY <1>1, GrowsSame, FailsGenuine

LEMMA NewKeyGenuine ==
  ASSUME Inv, UserInv, NEW o \in Task, NewKey(o)
  PROVE  UserInv'
<1>1. task[o].pc = "newkey" /\ UNCHANGED <<row, published>> BY DEF NewKey
<1>2. /\ task[o] \in TaskRec /\ Genuine(task[o], published)
      /\ task[o].kind # "register" /\ Other(o) \in Server
  BY <1>1, Here, NotRegistering
<1>3. CASE Fails(o) BY <1>1, <1>3, FailsKeepsUsers
<1>4. CASE Set(o, [task[o] EXCEPT !.pc = "pin", !.key = made + 1])
  <2> DEFINE t == [task[o] EXCEPT !.pc = "pin", !.key = made + 1]
  <2>1. t.pc = "pin" /\ t.who = task[o].who /\ t.card = task[o].card /\ t.kind = task[o].kind
    BY <1>2 DEF TaskRec
  <2>2. Set(o, t) BY <1>4
  <2> HIDE DEF t
  <2>3. Genuine(t, published) BY <1>2, <2>1 DEF Genuine, Carries, Registers
  <2> QED BY <1>1, <2>2, <2>3, TaskOnly
<1> QED BY <1>3, <1>4 DEF NewKey

LEMMA SignGenuine ==
  ASSUME Inv, UserInv, NEW o \in Task, Sign(o) \/ OwnKey(o)
  PROVE  UserInv'
<1>1. task[o].pc \in {"sign", "ownkey"} /\ UNCHANGED <<row, published>>
  BY DEF Sign, OwnKey, ghosts
<1>2. /\ task[o] \in TaskRec /\ Genuine(task[o], published)
      /\ task[o].kind # "register"
  BY <1>1, Here, NotRegistering
<1>3. CASE Fails(o) BY <1>1, <1>3, FailsKeepsUsers
<1>4. CASE Goto(o, "ownkey") BY <1>1, <1>4, OnwardKeepsUsers
<1>5. ASSUME NEW k, Set(o, [task[o] EXCEPT !.pc = "verify", !.sig = k]) PROVE UserInv'
  <2> DEFINE t == [task[o] EXCEPT !.pc = "verify", !.sig = k]
  <2>1. t.pc = "verify" /\ t.who = task[o].who /\ t.card = task[o].card /\ t.kind = task[o].kind
    BY <1>2 DEF TaskRec
  <2>2. Set(o, t) BY <1>5
  <2> HIDE DEF t
  <2>3. Genuine(t, published) BY <1>2, <2>1 DEF Genuine, Carries, Registers
  <2> QED BY <1>1, <2>2, <2>3, TaskOnly
<1> QED BY <1>3, <1>4, <1>5, Zenon DEF Sign, OwnKey

\* A phase changes nothing else of a task.
LEMMA Moved ==
  ASSUME NEW t \in TaskRec, NEW f
  PROVE  LET g == [t EXCEPT !.pc = f]
         IN  /\ g.pc = f /\ g.call = t.call /\ g.who = t.who /\ g.addr = t.addr
             /\ g.card = t.card /\ g.kind = t.kind /\ g.side = t.side /\ g.name = t.name
             /\ g.key = t.key
BY DEF TaskRec

\* The key of a server goes from the answer to the row.
LEMMA PinGenuine ==
  ASSUME Inv, UserInv, NEW o \in Task, Pin(o) \/ AddPin(o)
  PROVE  UserInv'
<1>1. UNCHANGED <<row, published>> /\ task[o].pc \in {"pin", "addpin"}
  BY DEF Pin, AddPin, ghosts
<1>2. CASE Fails(o) BY <1>1, <1>2, FailsKeepsUsers
<1>3. CASE \E f \in {"addpin", "known", "verify", "sign"} : Goto(o, f)
  BY <1>1, <1>3, OnwardKeepsUsers
<1> QED BY <1>2, <1>3 DEF Pin, AddPin, AfterPin

LEMMA KnownGenuine ==
  ASSUME Inv, UserInv, NEW o \in Task, Known(o)
  PROVE  UserInv'
<1>1. UNCHANGED <<row, published>> /\ task[o].pc = "known" BY DEF Known, ghosts
<1>2. CASE Resolved(o) BY <1>1, <1>2, ResolvedGenuine
<1>3. CASE Goto(o, "sign") BY <1>1, <1>3, OnwardKeepsUsers
<1> QED BY <1>2, <1>3 DEF Known

LEMMA VerifyGenuine ==
  ASSUME Inv, UserInv, NEW o \in Task, Verify(o)
  PROVE  UserInv'
<1>1. UNCHANGED <<row, published>> /\ task[o].pc = "verify" BY DEF Verify
<1>2. /\ task[o] \in TaskRec /\ Genuine(task[o], published)
      /\ task[o].kind # "register"
  BY <1>1, Here, NotRegistering
<1>3. CASE Fails(o) BY <1>1, <1>3, FailsKeepsUsers
<1>4. CASE Set(o, [task[o] EXCEPT !.pc = "hello", !.side = "callee"])
  <2> DEFINE t == [task[o] EXCEPT !.pc = "hello", !.side = "callee"]
  <2>1. /\ t.pc = "hello" /\ t.call = task[o].call /\ t.who = task[o].who
        /\ t.addr = task[o].addr /\ t.card = task[o].card /\ t.kind = task[o].kind
    BY <1>2 DEF TaskRec
  <2>2. Set(o, t) BY <1>4
  <2> HIDE DEF t
  <2>3. Genuine(t, published)
    BY <1>1, <1>2, <2>1 DEF Genuine, Carries, Registers
  <2> QED BY <1>1, <2>2, <2>3, TaskOnly
<1>5. CASE \E f \in {"serve", "import"} : Goto(o, f) BY <1>1, <1>5, OnwardKeepsUsers
<1> QED BY <1>3, <1>4, <1>5 DEF Verify, Handler

\* What a server answers is in the row of one of its own users.
LEMMA ServeGenuine ==
  ASSUME Inv, UserInv, NEW o \in Task, Serve(o)
  PROVE  UserInv'
<1>1. UNCHANGED <<row, published>> /\ task[o].pc = "serve" BY DEF Serve, ghosts
<1>2. /\ task[o] \in TaskRec /\ Genuine(task[o], published)
      /\ task[o].kind # "register" /\ To(o) \in Server /\ Asked(o) \in Account
      /\ Asked(o) = <<task[o].name, Reaches[task[o].addr]>>
  BY <1>1, Here, NotRegistering
<1>3. CASE Error(o) BY <1>1, <1>3, EndedGenuine, TaskOnly DEF Error
<1>4. CASE /\ row[To(o)][Asked(o)] # 0
           /\ Set(o, [task[o] EXCEPT !.pc = "cache", !.key = row[To(o)][Asked(o)]])
  <2> DEFINE t == [task[o] EXCEPT !.pc = "cache", !.key = row[To(o)][Asked(o)]]
  <2>1. /\ t.pc = "cache" /\ t.call = task[o].call /\ t.who = task[o].who
        /\ t.addr = task[o].addr /\ t.card = task[o].card /\ t.kind = task[o].kind
        /\ t.name = task[o].name /\ t.key = row[To(o)][Asked(o)]
    BY <1>2 DEF TaskRec
  <2>2. Set(o, t) BY <1>4
  <2> HIDE DEF t
  <2>3. t.key \in published[<<t.name, Reaches[t.addr]>>]
    BY <1>2, <1>4, <2>1 DEF UserInv, CachedKeysAreGenuine
  <2>4. Genuine(t, published)
    BY <1>1, <1>2, <2>1, <2>3 DEF Genuine, Carries, Registers
  <2> QED BY <1>1, <2>2, <2>4, TaskOnly
<1> QED BY <1>3, <1>4 DEF Serve

LEMMA CacheGenuine ==
  ASSUME Inv, UserInv, NEW o \in Task, Cache(o)
  PROVE  UserInv'
<1>1. UNCHANGED <<row, published>> /\ task[o].pc = "cache" BY DEF Cache, ghosts
<1>2. /\ task[o] \in TaskRec /\ Genuine(task[o], published)
      /\ task[o].kind # "register"
  BY <1>1, Here, NotRegistering
<1>3. CASE Resolved(o) BY <1>1, <1>3, ResolvedGenuine
<1>4. CASE Goto(o, "addrow")
  <2> DEFINE t == [task[o] EXCEPT !.pc = "addrow"]
  <2>1. /\ t.pc = "addrow" /\ t.call = task[o].call /\ t.who = task[o].who
        /\ t.addr = task[o].addr /\ t.card = task[o].card /\ t.kind = task[o].kind
        /\ t.name = task[o].name /\ t.key = task[o].key
    BY <1>2, Moved
  <2>2. Set(o, t) BY <1>4, GotoSet
  <2> HIDE DEF t
  <2>3. Genuine(t, published)
    BY <1>1, <1>2, <2>1 DEF Genuine, Carries, Registers
  <2> QED BY <1>1, <2>2, <2>3, TaskOnly
<1> QED BY <1>3, <1>4 DEF Cache

\* The row of a remote user gets keys that user had.
LEMMA AddRowGenuine ==
  ASSUME Inv, UserInv, NEW o \in Task, AddRow(o)
  PROVE  UserInv'
<1>1. UNCHANGED published /\ task[o].pc = "addrow" BY DEF AddRow, ghosts
<1>2. /\ task[o] \in TaskRec /\ Genuine(task[o], published)
      /\ task[o].kind # "register" /\ At(o) \in Server /\ Asked(o) \in Account
      /\ Asked(o) = <<task[o].name, Reaches[task[o].addr]>>
      /\ Home(Asked(o)) = Reaches[task[o].addr] /\ At(o) = task[o].who[2]
  BY <1>1, Here, NotRegistering DEF Home
<1>3. CASE Error(o) /\ UNCHANGED row BY <1>1, <1>3, EndedGenuine, TaskOnly DEF Error
<1>4. CASE Resolved(o) /\ row' = [row EXCEPT ![At(o)][Asked(o)] = task[o].key]
  <2>1. Grows(published, published') BY <1>1, GrowsSame
  <2>2. task[o].key \in published'[Asked(o)] BY <1>1, <1>2 DEF Genuine, Carries
  <2>4. CachedKeysAreGenuine' BY <1>2, <1>4, <2>1, <2>2, RowGenuine
  <2>5. CASE Served(o)
    <3>1. Genuine(Answered, published') BY EndedGenuine
    <3> QED BY <2>1, <2>4, <2>5, <3>1, OneUserTask DEF Served
  <2>6. CASE Goto(o, "find")
    <3>2. Genuine([task[o] EXCEPT !.pc = "find"], published) BY <1>2, OnwardGenuine
    <3>3. Genuine([task[o] EXCEPT !.pc = "find"], published')
      BY <1>1, <3>2
    <3> QED BY <2>1, <2>4, <2>6, <3>3, GotoSet, OneUserTask
  <2> QED BY <1>4, <2>5, <2>6 DEF Resolved
<1> QED BY <1>3, <1>4 DEF AddRow

\* The chat: the card is the row of the user who asks.
LEMMA FindGenuine ==
  ASSUME Inv, UserInv, NEW o \in Task, Find(o) \/ Make(o)
  PROVE  UserInv'
<1>1. UNCHANGED <<row, published>> /\ task[o].pc \in {"find", "make"}
  BY DEF Find, Make, ghosts
<1>2. /\ task[o] \in TaskRec /\ Genuine(task[o], published)
      /\ task[o].kind # "register" /\ At(o) \in Server /\ task[o].who \in Account
  BY <1>1, Here, NotRegistering, TaskParts
<1>3. CASE Error(o) BY <1>1, <1>3, EndedGenuine, TaskOnly DEF Error
<1>4. CASE Grant(o) BY <1>1, <1>2, <1>4, EndedGenuine, TaskOnly DEF Grant
<1>5. CASE Goto(o, "make") BY <1>1, <1>5, OnwardKeepsUsers
<1>6. ASSUME NEW f \in {"sign", "hello"},
             Set(o, [task[o] EXCEPT !.pc = f, !.call = "import", !.side = "caller",
                                    !.card = row[At(o)][task[o].who]])
      PROVE  UserInv'
  <2> DEFINE t == [task[o] EXCEPT !.pc = f, !.call = "import", !.side = "caller",
                                  !.card = row[At(o)][task[o].who]]
  <2>1. /\ t.pc = f /\ t.who = task[o].who
        /\ t.card = row[At(o)][task[o].who] /\ t.kind = task[o].kind
    BY <1>2 DEF TaskRec
  <2>2. Set(o, t) BY <1>6
  <2> HIDE DEF t
  <2>3. t.card \in published[t.who] \cup {0}
    BY <1>2, <2>1 DEF UserInv, CachedKeysAreGenuine
  <2>4. Genuine(t, published)
    BY <1>2, <2>1, <2>3 DEF Genuine, Carries, Registers
  <2> QED BY <1>1, <2>2, <2>4, TaskOnly
<1> QED BY <1>3, <1>4, <1>5, <1>6 DEF Find, Make

\* The mirror: its owner's row is the card.
LEMMA ImportGenuine ==
  ASSUME Inv, UserInv, NEW o \in Task, Import(o) \/ AddOwner(o) \/ AddRoom(o) \/ Members(o)
  PROVE  UserInv'
<1>1. /\ published' = published
      /\ task[o].pc \in {"import", "addowner", "addroom", "members"}
  BY DEF Import, AddOwner, AddRoom, Members, ghosts
<1>2. /\ task[o] \in TaskRec /\ Genuine(task[o], published)
      /\ task[o].kind # "register" /\ To(o) \in Server /\ task[o].who \in Account
      /\ Home(task[o].who) = task[o].who[2] /\ To(o) = Reaches[task[o].addr]
  BY <1>1, Here, NotRegistering, TaskParts DEF Home
<1>3. CASE Fails(o) /\ UNCHANGED row BY <1>1, <1>3, FailsKeepsUsers
<1>4. CASE Grant(o) /\ UNCHANGED row BY <1>1, <1>2, <1>4, EndedGenuine, TaskOnly DEF Grant
<1>6. CASE UNCHANGED row /\ \E f \in {"addowner", "addroom", "members"} : Goto(o, f)
  BY <1>1, <1>6, OnwardKeepsUsers
<1>7. CASE /\ task[o].pc = "addowner" /\ Goto(o, "addroom")
           /\ row' = [row EXCEPT ![To(o)][task[o].who] = task[o].card]
  <2>1. Grows(published, published') BY <1>1, GrowsSame
  <2>2. task[o].card # 0 => task[o].card \in published'[task[o].who]
    BY <1>1, <1>2 DEF Genuine, Carries
  <2>3. CachedKeysAreGenuine' BY <1>2, <1>7, <2>1, <2>2, RowGenuine
  <2>4. Genuine([task[o] EXCEPT !.pc = "addroom"], published')
    BY <1>1, <1>2, OnwardGenuine
  <2> QED BY <1>7, <2>1, <2>3, <2>4, GotoSet, OneUserTask
<1>8. CASE Import(o) BY <1>6, <1>8 DEF Import, ghosts
<1>9. CASE AddOwner(o) BY <1>3, <1>7, <1>9 DEF AddOwner
<1>10. CASE AddRoom(o) BY <1>6, <1>10 DEF AddRoom, ghosts
<1>11. CASE Members(o) BY <1>4, <1>11 DEF Members, ghosts
<1> QED BY <1>8, <1>9, <1>10, <1>11

LEMMA LeftGenuine ==
  ASSUME NEW t \in TaskRec, NEW pub, Genuine(t, pub)
  PROVE  Genuine([t EXCEPT !.left = TRUE], pub)
<1> DEFINE g == [t EXCEPT !.left = TRUE]
<1>1. /\ g.pc = t.pc /\ g.call = t.call /\ g.who = t.who /\ g.addr = t.addr
      /\ g.card = t.card /\ g.kind = t.kind /\ g.side = t.side /\ g.name = t.name
      /\ g.key = t.key
  BY DEF TaskRec
<1> HIDE DEF g
<1>2. Genuine(g, pub) BY <1>1 DEF Genuine, Carries, Registers
<1> QED BY <1>2 DEF g

LEMMA TroubleGenuine ==
  ASSUME Inv, UserInv, NEW o \in Task, Lose(o) \/ GiveUp(o)
  PROVE  UserInv'
<1>1. CASE Lose(o) BY <1>1, FailsKeepsUsers DEF Lose
<1>2. CASE GiveUp(o)
  <2>1. Set(o, [task[o] EXCEPT !.left = TRUE]) /\ UNCHANGED <<row, published>>
    BY <1>2 DEF GiveUp
  <2> QED BY <2>1, Here, LeftGenuine, TaskOnly
<1> QED BY <1>1, <1>2

LEMMA CrashGenuine ==
  ASSUME Inv, UserInv, NEW s \in Server, Crash(s)
  PROVE  UserInv'
<1> DEFINE Hit(o)  == Active(o) /\ (At(o) = s \/ (Remote(o) /\ To(o) = s))
           Lost(o) == IF At(o) # s THEN Failed(task[o])
                      ELSE IF Remote(o) /\ To(o) # s THEN [task[o] EXCEPT !.left = TRUE]
                      ELSE Nothing
           hit == {o \in Task : Hit(o)}
<1>1. /\ task' = [o \in Task |-> IF o \in hit THEN Lost(o) ELSE task[o]]
      /\ UNCHANGED <<row, published>>
  BY DEF Crash
<1>2. ASSUME NEW o \in Task
      PROVE  Genuine(Lost(o), published) /\ Genuine(task[o], published)
  BY Here, EndedGenuine, LeftGenuine
<1> HIDE DEF Lost, hit
<1>3. \A o \in Task : Genuine(task'[o], published) BY <1>1, <1>2
<1>4. CachedKeysAreGenuine' BY <1>1 DEF UserInv, CachedKeysAreGenuine
<1> QED BY <1>1, <1>3, <1>4 DEF UserInv

\* Keys are passed on by their owner's server, or as they were passed to it.
LEMMA IntroduceGenuine ==
  ASSUME Inv, UserInv, NEW s \in Server, NEW t \in Server, NEW a \in Account, Introduce(s, t, a)
  PROVE  UserInv'
<1>1. UNCHANGED <<task, published>> BY DEF Introduce, ghosts
<1>2. PICK k \in Key : row' = [row EXCEPT ![t][a] = k]
                       /\ (k \in published[a] \/ (k = row[s][a] /\ k # 0))
  BY Introduced
<1>3. k \in published'[a] BY <1>1, <1>2 DEF UserInv, CachedKeysAreGenuine
<1>4. CachedKeysAreGenuine' BY <1>1, <1>2, <1>3, GrowsSame, RowGenuine
<1> QED BY <1>1, <1>4 DEF UserInv

LEMMA UserNext == Inv /\ UserInv /\ [Next]_vars => UserInv'
<1> SUFFICES ASSUME Inv, UserInv, [Next]_vars PROVE UserInv' OBVIOUS
<1>1. CASE UNCHANGED vars
  BY <1>1 DEF UserInv, CachedKeysAreGenuine, vars, ghosts
<1>2. ASSUME NEW o \in Task,
             \/ \E k \in {"register", "update"}, a \in Account : BeginKeys(o, k, a)
             \/ \E k \in {"lookup", "chat"}, a \in Account, n \in Name, h \in Address :
                  BeginAsk(o, k, a, n, h)
      PROVE  UserInv'
  BY <1>2, BeginGenuine
<1>3. ASSUME NEW o \in Task, Step(o) PROVE UserInv'
  BY <1>3, AccountGenuine, ResolveGenuine, HelloGenuine, NewKeyGenuine, PinGenuine,
     KnownGenuine, SignGenuine, VerifyGenuine, ServeGenuine, CacheGenuine,
     AddRowGenuine, FindGenuine, ImportGenuine DEF Step
<1>4. ASSUME NEW o \in Task, Lose(o) \/ GiveUp(o) PROVE UserInv' BY <1>4, TroubleGenuine
<1>5. ASSUME NEW s \in Server, Crash(s) PROVE UserInv' BY <1>5, CrashGenuine
<1>6. ASSUME NEW s \in Server, NEW t \in Server, NEW a \in Account, Introduce(s, t, a)
      PROVE  UserInv'
  BY <1>6, IntroduceGenuine
<1> QED BY <1>1, <1>2, <1>3, <1>4, <1>5, <1>6 DEF Next

LEMMA UsersAlways == Spec => []UserInv
<1>1. Init => Inv BY InitInv
<1>2. Inv /\ [Next]_vars => Inv' BY NextInv
<1> QED BY <1>1, <1>2, UserInit, UserNext, PTL DEF Spec

\* The keys a server has of an account are or were the account's own, however
\* look-ups, imports and registrations meet, and through however many servers they
\* were passed on (cache_remote_user, federation_room_import, register_user).
THEOREM CachedKeysAreTheUsers == Spec => []CachedKeysAreGenuine
<1>1. UserInv => CachedKeysAreGenuine BY DEF UserInv
<1> QED BY <1>1, UsersAlways, PTL

\* A client that was told it is registered is so with the keys it sent, however
\* many register the same name (register_user).
THEOREM GrantedIsRegistered == Spec => []RegisteredIsStored
<1>1. UserInv => RegisteredIsStored
  BY DEF UserInv, Genuine, Registers, RegisteredIsStored
<1> QED BY <1>1, UsersAlways, PTL

-----------------------------------------------------------------------------
(* Personal chats.                                                          *)

\* The two users a task is about.
PairOf(t)   == {t.who, <<t.name, Reaches[t.addr]>>}
Alive(t)    == t.pc \notin {"new", "ok", "error"}
Chatting(t) == t.kind = "chat" /\ Alive(t)
Mirrors(t)  == t.call = "import"
Pairs       == {p \in SUBSET Account : \E x, y \in Account : x # y /\ p = {x, y}}

ChatRooms(rm, s, p) == {r \in rm[s] : p \subseteq r.with}
Mirror(t, o, with)  == [host |-> t.who[2], id |-> o, with |-> with]

\* Which phases a task goes through, and for what.
Way(t) ==
    /\ t.pc \in {"register", "insert"} => t.kind = "register"
    /\ t.pc \in {"find", "make"} => t.kind = "chat" /\ ~Mirrors(t)
    /\ t.pc \in {"update", "resolve", "known", "serve", "cache", "addrow", "ok"} => ~Mirrors(t)
    /\ t.pc \in {"import", "addowner", "addroom", "members"} => Mirrors(t)
    /\ Mirrors(t) => /\ Chatting(t) /\ t.who[2] # Reaches[t.addr]
    /\ t.pc = "make" \/ Mirrors(t) \/ (t.kind = "chat" /\ t.pc = "ok") => PairOf(t) \in Pairs

\* A room is of two users, or of nobody yet, and while the task that made it runs,
\* it is that task's.
Lasting(tk, rm) ==
    \A s \in Server : \A r \in rm[s] :
        /\ r.with = {} \/ r.with \in Pairs
        /\ tk[r.id].pc # "new"
        /\ Alive(tk[r.id]) => Mirrors(tk[r.id]) /\ r.with \in {{}, PairOf(tk[r.id])}

\* One task at a time is about a chat.
OneAsks(tk, rc) ==
    \A o, q \in Task :
        Chatting(tk[o]) /\ Chatting(tk[q]) /\ PairOf(tk[o]) = PairOf(tk[q])
        /\ PairOf(tk[o]) \notin rc => o = q

\* A chat is one room, and unless it is being mirrored, both servers have it.
Alike(p, tk, rm) ==
    /\ \A s \in Server : \A r, x \in ChatRooms(rm, s, p) : r = x
    /\ (\A o \in Task : Mirrors(tk[o]) => PairOf(tk[o]) # p) =>
          \A x, y \in p : ChatRooms(rm, Home(x), p) = ChatRooms(rm, Home(y), p)

\* How far a task has come with its chat.
Stage(t, o, rm) ==
    /\ t.pc = "make" => ChatRooms(rm, t.who[2], PairOf(t)) = {}
    /\ Mirrors(t) => /\ ChatRooms(rm, t.who[2], PairOf(t)) = {Mirror(t, o, PairOf(t))}
                     /\ ChatRooms(rm, Reaches[t.addr], PairOf(t)) = {}
    /\ t.pc = "members" => Mirror(t, o, {}) \in rm[Reaches[t.addr]]
    /\ t.kind = "chat" /\ t.pc = "ok" =>
          \E r \in ChatRooms(rm, t.who[2], PairOf(t)) :
              r \in ChatRooms(rm, Reaches[t.addr], PairOf(t))

ChatInv ==
    /\ \A o \in Task : Way(task[o])
    /\ Lasting(task, room) /\ OneAsks(task, raced)
    /\ \A p \in Pairs \ raced : Alike(p, task, room)
    /\ \A o \in Task : PairOf(task[o]) \notin raced => Stage(task[o], o, room)

-----------------------------------------------------------------------------
(* The parts of the argument.                                               *)

\* A set of two is in another only if it is the other.
LEMMA PairsAreEqual ==
  ASSUME NEW p \in Pairs, NEW q \in Pairs, p \subseteq q
  PROVE  p = q
<1>1. PICK a, b \in Account : a # b /\ p = {a, b} BY DEF Pairs
<1>2. PICK c, d \in Account : c # d /\ q = {c, d} BY DEF Pairs
<1>3. a \in {c, d} /\ b \in {c, d} BY <1>1, <1>2
<1> QED BY <1>1, <1>2, <1>3

LEMMA RoomIsOfPair ==
  ASSUME Lasting(task, room), NEW s \in Server, NEW r \in room[s], NEW p \in Pairs
  PROVE  p \subseteq r.with <=> r.with = p
<1>1. r.with = {} \/ r.with \in Pairs BY DEF Lasting
<1>2. p # {} BY DEF Pairs
<1> QED BY <1>1, <1>2, PairsAreEqual

LEMMA Places ==
  ASSUME Inv, NEW o \in Task
  PROVE  /\ task[o] \in TaskRec /\ task[o].who \in Account
         /\ At(o) = task[o].who[2] /\ At(o) \in Server
         /\ To(o) = Reaches[task[o].addr] /\ To(o) \in Server
         /\ Asked(o) = <<task[o].name, Reaches[task[o].addr]>>
         /\ Pair(o) = PairOf(task[o]) /\ PairOf(task[o]) \in SUBSET Account
         /\ Home(task[o].who) = At(o) /\ Home(Asked(o)) = To(o)
         /\ \A s, p : RoomsOf(s, p) = ChatRooms(room, s, p)
         /\ \A s, p : Chats(s, p) = ChatRooms(room, s, p)
<1>1. task[o] \in TaskRec /\ At(o) \in Server /\ To(o) \in Server /\ Pair(o) \in SUBSET Account
  BY Parts DEF Inv
<1>2. task[o].who \in Account BY <1>1, TaskParts
<1> QED BY <1>1, <1>2 DEF At, Home, To, Asked, Pair, PairOf, RoomsOf, Chats, ChatRooms

LEMMA OtherTasks ==
  ASSUME Inv, NEW o \in Task, NEW t, Set(o, t)
  PROVE  task'[o] = t /\ \A q \in Task \ {o} : task'[q] = task[q]
BY DEF Inv, TypeOK, Set

-----------------------------------------------------------------------------
(* Steps that leave the rooms alone.                                        *)

\* The task goes on, or is over, or begins.
Further(t, u) ==
    /\ Alive(t) /\ Alive(u)
    /\ u.who = t.who /\ u.name = t.name /\ u.addr = t.addr
    /\ u.kind = t.kind /\ u.call = t.call
    /\ u.pc \in {"make", "members"} => u.pc = t.pc

Over(t, u, rc) ==
    /\ u.pc \in {"ok", "error"} /\ ~Mirrors(u)
    /\ u.kind = "chat" /\ u.pc = "ok" => PairOf(u) \in rc
    /\ Mirrors(t) => PairOf(t) \in rc

Begins(t, u) == t.pc = "new" /\ Alive(u) /\ ~Mirrors(u) /\ u.pc # "make"

LEMMA StageStays ==
  ASSUME NEW t, NEW u, NEW o, NEW rm, NEW rc, Way(u),
         t = u \/ Further(t, u) \/ Over(t, u, rc) \/ Begins(t, u),
         PairOf(u) \notin rc, PairOf(t) \notin rc => Stage(t, o, rm)
  PROVE  Stage(u, o, rm)
<1>1. CASE t = u BY <1>1
<1>2. CASE Further(t, u)
  <2>1. PairOf(t) = PairOf(u) /\ \A with : Mirror(t, o, with) = Mirror(u, o, with)
    BY <1>2 DEF Further, PairOf, Mirror
  <2>2. Stage(t, o, rm) BY <2>1
  <2>3. t.who = u.who /\ t.addr = u.addr /\ (Mirrors(u) => Mirrors(t)) /\ u.pc # "ok"
        /\ (u.pc \in {"make", "members"} => u.pc = t.pc)
    BY <1>2 DEF Further, Mirrors, Alive
  <2> QED BY <2>1, <2>2, <2>3 DEF Stage
<1>3. CASE Over(t, u, rc) BY <1>3 DEF Over, Stage
<1>4. CASE Begins(t, u) BY <1>4 DEF Begins, Stage, Way, Alive
<1> QED BY <1>1, <1>2, <1>3, <1>4

LEMMA CalmStep ==
  ASSUME Inv, ChatInv, room' = room, raced \subseteq raced', OneAsks(task', raced'),
         \A o \in Task : Way(task'[o]),
         \A o \in Task : \/ task[o] = task'[o] \/ Further(task[o], task'[o])
                         \/ Over(task[o], task'[o], raced') \/ Begins(task[o], task'[o])
  PROVE  ChatInv'
<1>1. Lasting(task', room')
  <2> SUFFICES ASSUME NEW s \in Server, NEW r \in room[s]
               PROVE  /\ r.with = {} \/ r.with \in Pairs
                      /\ task'[r.id].pc # "new"
                      /\ Alive(task'[r.id]) =>
                           Mirrors(task'[r.id]) /\ r.with \in {{}, PairOf(task'[r.id])}
    BY DEF Lasting
  <2>1. r.id \in Task BY DEF Inv, TypeOK
  <2>2. /\ r.with = {} \/ r.with \in Pairs
        /\ task[r.id].pc # "new"
        /\ Alive(task[r.id]) => Mirrors(task[r.id]) /\ r.with \in {{}, PairOf(task[r.id])}
    BY DEF ChatInv, Lasting
  <2> DEFINE t == task[r.id]
             u == task'[r.id]
  <2>3. t = u \/ Further(t, u) \/ Over(t, u, raced') \/ Begins(t, u) BY <2>1
  <2> HIDE DEF t, u
  <2>4. /\ t.pc # "new" /\ (Alive(t) => Mirrors(t) /\ r.with \in {{}, PairOf(t)})
    BY <2>2 DEF t
  <2>5. /\ u.pc # "new" /\ (Alive(u) => Mirrors(u) /\ r.with \in {{}, PairOf(u)})
    BY <2>3, <2>4 DEF Further, Over, Begins, Alive, Mirrors, PairOf
  <2> QED BY <2>2, <2>5 DEF u
<1>2. ASSUME NEW p \in Pairs \ raced' PROVE Alike(p, task', room')
  <2>1. Alike(p, task, room) BY DEF ChatInv
  <2>2. ASSUME NEW o \in Task, Mirrors(task[o]), PairOf(task[o]) = p
        PROVE  Mirrors(task'[o]) /\ PairOf(task'[o]) = p
    <3>1. task[o].pc # "new" BY <2>2 DEF ChatInv, Way, Chatting, Alive
    <3>2. task[o] = task'[o] \/ Further(task[o], task'[o]) BY <2>2, <3>1 DEF Over, Begins
    <3> QED BY <2>2, <3>2 DEF Further, Mirrors, PairOf
  <2>3. (\A o \in Task : Mirrors(task'[o]) => PairOf(task'[o]) # p) =>
           (\A o \in Task : Mirrors(task[o]) => PairOf(task[o]) # p)
    BY <2>2
  <2> QED BY <2>1, <2>3 DEF Alike
<1>3. ASSUME NEW o \in Task, PairOf(task'[o]) \notin raced' PROVE Stage(task'[o], o, room')
  <2>1. PairOf(task[o]) \notin raced' => Stage(task[o], o, room) BY DEF ChatInv
  <2>2. Way(task'[o]) OBVIOUS
  <2> QED BY <1>3, <2>1, <2>2, StageStays
<1> QED BY <1>1, <1>2, <1>3 DEF ChatInv

\* A step of one task that goes on or is over.
LEMMA OneCalm ==
  ASSUME Inv, ChatInv, NEW o \in Task, NEW t, Set(o, t), Way(t),
         room' = room, raced \subseteq raced',
         Further(task[o], t) \/ Over(task[o], t, raced')
  PROVE  ChatInv'
<1>1. task'[o] = t /\ \A q \in Task \ {o} : task'[q] = task[q] BY OtherTasks
<1>2. \A q \in Task : task[q] = task'[q] \/ Further(task[q], task'[q])
                      \/ Over(task[q], task'[q], raced')
  BY <1>1
<1>3. \A q \in Task : Chatting(task'[q]) => Chatting(task[q]) /\ PairOf(task'[q]) = PairOf(task[q])
  <2> SUFFICES ASSUME NEW q \in Task, Chatting(task'[q])
               PROVE  Chatting(task[q]) /\ PairOf(task'[q]) = PairOf(task[q])
    OBVIOUS
  <2>1. task[q] = task'[q] \/ Further(task[q], task'[q]) \/ Over(task[q], task'[q], raced') BY <1>2
  <2> QED BY <2>1 DEF Further, Over, Chatting, Alive, PairOf
<1>4. OneAsks(task', raced') BY <1>3 DEF ChatInv, OneAsks
<1>5. \A q \in Task : Way(task'[q]) BY <1>1 DEF ChatInv
<1> QED BY <1>2, <1>4, <1>5, CalmStep

\* A task that moves to another phase, with nothing else changed but its keys.
MovesTo(t, u) ==
    /\ u.who = t.who /\ u.name = t.name /\ u.addr = t.addr
    /\ u.kind = t.kind /\ u.call = t.call

LEMMA MovesFurther ==
  ASSUME NEW t, NEW u, Alive(t), Alive(u), MovesTo(t, u), u.pc \notin {"make", "members"}
  PROVE  Further(t, u)
BY DEF MovesTo, Further

LEMMA GotoMoves ==
  ASSUME NEW t \in TaskRec, NEW f
  PROVE  LET u == [t EXCEPT !.pc = f]
         IN  u.pc = f /\ u.side = t.side /\ MovesTo(t, u)
BY DEF TaskRec, MovesTo

\* The phases between the first and the last, with what must hold to be there.
LEMMA WayOn ==
  ASSUME NEW t, NEW u, Way(t), Alive(t), MovesTo(t, u),
         u.pc \notin {"register", "insert", "update", "new", "ok", "error", "make"},
         u.pc = "find" => t.kind = "chat" /\ ~Mirrors(t),
         u.pc \in {"resolve", "known", "serve", "cache", "addrow"} => ~Mirrors(t),
         u.pc \in {"import", "addowner", "addroom", "members"} => Mirrors(t)
  PROVE  Way(u) /\ Alive(u)
BY DEF Way, Alive, MovesTo, Mirrors, Chatting, PairOf

LEMMA CalmMove ==
  ASSUME Inv, ChatInv, NEW o \in Task, Alive(task[o]), NEW u, Set(o, u), MovesTo(task[o], u),
         u.pc \notin {"register", "insert", "update", "new", "ok", "error", "make", "members"},
         u.pc = "find" => task[o].kind = "chat" /\ ~Mirrors(task[o]),
         u.pc \in {"resolve", "known", "serve", "cache", "addrow"} => ~Mirrors(task[o]),
         u.pc \in {"import", "addowner", "addroom", "members"} => Mirrors(task[o]),
         room' = room, raced' = raced
  PROVE  ChatInv'
<1>1. Way(task[o]) BY DEF ChatInv
<1>2. Way(u) /\ Alive(u) BY <1>1, WayOn
<1>3. Further(task[o], u) BY <1>2, MovesFurther
<1> QED BY <1>2, <1>3, OneCalm

\* The same for a step that changes the phase alone.
LEMMA CalmGoto ==
  ASSUME Inv, ChatInv, NEW o \in Task, Alive(task[o]), NEW f, Goto(o, f),
         f \notin {"register", "insert", "update", "new", "ok", "error", "make", "members"},
         f = "find" => task[o].kind = "chat" /\ ~Mirrors(task[o]),
         f \in {"resolve", "known", "serve", "cache", "addrow"} => ~Mirrors(task[o]),
         f \in {"import", "addowner", "addroom", "members"} => Mirrors(task[o]),
         room' = room, raced' = raced
  PROVE  ChatInv'
<1> DEFINE u == [task[o] EXCEPT !.pc = f]
<1>1. task[o] \in TaskRec BY Places
<1>2. u.pc = f /\ u.side = task[o].side /\ MovesTo(task[o], u) BY <1>1, GotoMoves
<1>3. Set(o, u) BY GotoSet
<1> HIDE DEF u
<1> QED BY <1>2, <1>3, CalmMove

\* Tasks that ended.
LEMMA WayEnded ==
  /\ Way(Nothing) /\ Nothing.pc = "error" /\ ~Mirrors(Nothing)
  /\ Way(Answered) /\ Answered.pc = "ok" /\ ~Mirrors(Answered) /\ Answered.kind # "chat"
BY DEF Nothing, Answered, Idle, Way, Mirrors

LEMMA WayGranted ==
  ASSUME NEW t \in TaskRec, t.kind = "chat" => PairOf(t) \in Pairs
  PROVE  LET u == Granted(t)
         IN  /\ Way(u) /\ u.pc = "ok" /\ ~Mirrors(u) /\ u.kind = t.kind
             /\ u.who = t.who /\ u.addr = t.addr /\ PairOf(u) = PairOf(t)
<1> DEFINE u == Granted(t)
<1>1. /\ u.pc = "ok" /\ u.call = "lookup" /\ u.kind = t.kind
      /\ u.who = t.who /\ u.name = t.name /\ u.addr = t.addr
  BY DEF Granted, TaskRec
<1> HIDE DEF u
<1>2. PairOf(u) = PairOf(t) /\ ~Mirrors(u) BY <1>1 DEF PairOf, Mirrors
<1>3. Way(u) BY <1>1, <1>2 DEF Way
<1> QED BY <1>1, <1>2, <1>3 DEF u

LEMMA CalmError ==
  ASSUME Inv, ChatInv, NEW o \in Task, Error(o) \/ Served(o), ~Mirrors(task[o]),
         room' = room, raced' = raced
  PROVE  ChatInv'
<1>1. PICK u \in {Nothing, Answered} : Set(o, u) BY DEF Error, Served
<1>2. Way(u) /\ Over(task[o], u, raced') BY WayEnded DEF Over
<1> QED BY <1>1, <1>2, OneCalm

\* What is left of a request that failed; a chat without a mirror is in raced.
LEMMA FailedOver ==
  ASSUME NEW t \in TaskRec, Way(t), NEW rc, Mirrors(t) => PairOf(t) \in rc
  PROVE  /\ Way(Failed(t)) /\ Over(t, Failed(t), rc)
         /\ Way(Nothing) /\ Over(t, Nothing, rc)
<1>1. Way(Nothing) /\ Over(t, Nothing, rc) BY WayEnded DEF Over
<1>2. CASE Mirrors(t)
  <2>1. PairOf(t) \in Pairs BY <1>2 DEF Way
  <2>2. Failed(t) = Granted(t) BY <1>2 DEF Failed, Mirrors
  <2>3. Way(Failed(t)) /\ Over(t, Failed(t), rc) BY <1>2, <2>1, <2>2, WayGranted DEF Over
  <2> QED BY <1>1, <2>3
<1>3. CASE ~Mirrors(t)
  <2>1. Failed(t) = Nothing BY <1>3 DEF Failed, Mirrors
  <2> QED BY <1>1, <2>1
<1> QED BY <1>2, <1>3

LEMMA MirrorsAlive ==
  ASSUME Inv, ChatInv, NEW o \in Task
  PROVE  /\ Active(o) <=> Alive(task[o])
         /\ Mirroring(o) <=> Mirrors(task[o])
         /\ Mirrors(task[o]) => Chatting(task[o])
<1>1. Way(task[o]) BY DEF ChatInv
<1> QED BY <1>1 DEF Active, Alive, Mirroring, Mirrors, Way, Chatting

LEMMA CalmFails ==
  ASSUME Inv, ChatInv, NEW o \in Task, Fails(o), room' = room
  PROVE  ChatInv'
<1>1. PICK t \in {Failed(task[o]), Nothing} :
        Set(o, t) /\ raced' = IF Mirroring(o) THEN raced \cup {Pair(o)} ELSE raced
  BY DEF Fails
<1>2. raced \subseteq raced' /\ (Mirrors(task[o]) => PairOf(task[o]) \in raced')
  BY <1>1, MirrorsAlive, Places
<1>3. task[o] \in TaskRec /\ Way(task[o]) BY Places DEF ChatInv
<1>4. Way(t) /\ Over(task[o], t, raced') BY <1>2, <1>3, FailedOver
<1> QED BY <1>1, <1>2, <1>4, OneCalm

-----------------------------------------------------------------------------
(* The steps, those that leave the rooms alone first.                       *)

LEMMA ChatInit == Init => ChatInv
<1> SUFFICES ASSUME Init PROVE ChatInv OBVIOUS
<1>1. \A o \in Task : task[o] = Idle BY DEF Init
<1>2. Idle.pc = "new" /\ Idle.call = "lookup" /\ Idle.kind = "none" BY DEF Idle
<1>3. room = [s \in Server |-> {}] BY DEF Init
<1>4. Lasting(task, room) BY <1>3 DEF Lasting
<1>5. OneAsks(task, raced) BY <1>1, <1>2 DEF OneAsks, Chatting
<1>6. ASSUME NEW p \in Pairs PROVE Alike(p, task, room)
  <2>1. \A x \in p : Home(x) \in Server BY DEF Pairs, Account, Home
  <2>2. \A s \in Server : ChatRooms(room, s, p) = {} BY <1>3 DEF ChatRooms
  <2> QED BY <2>1, <2>2 DEF Alike
<1>7. \A o \in Task : Way(task[o]) BY <1>1, <1>2 DEF Way, Mirrors
<1>8. \A o \in Task : Stage(task[o], o, room) BY <1>1, <1>2 DEF Stage, Mirrors
<1> QED BY <1>4, <1>5, <1>6, <1>7, <1>8 DEF ChatInv

LEMMA CalmBegin ==
  ASSUME Inv, ChatInv, NEW o \in Task, NEW t, Begin(o, t), Way(t), Alive(t), ~Mirrors(t),
         t.pc # "make", raced \subseteq raced',
         Chatting(t) /\ PairOf(t) \notin raced' =>
            \A q \in Task : Chatting(task[q]) => PairOf(task[q]) # PairOf(t)
  PROVE  ChatInv'
<1>1. task[o].pc = "new" /\ Set(o, t) /\ room' = room BY DEF Begin
<1>2. task'[o] = t /\ \A q \in Task \ {o} : task'[q] = task[q] BY <1>1, OtherTasks
<1>3. Begins(task[o], task'[o]) BY <1>1, <1>2 DEF Begins
<1>4. OneAsks(task', raced')
  <2> SUFFICES ASSUME NEW q \in Task, NEW x \in Task, Chatting(task'[q]), Chatting(task'[x]),
                      PairOf(task'[q]) = PairOf(task'[x]), PairOf(task'[q]) \notin raced', q # x
               PROVE  FALSE
    BY DEF OneAsks
  <2>1. CASE q # o /\ x # o BY <1>2, <2>1 DEF ChatInv, OneAsks
  <2>2. CASE q = o BY <1>2, <2>2
  <2>3. CASE x = o BY <1>2, <2>3
  <2> QED BY <2>1, <2>2, <2>3
<1>5. \A q \in Task : Way(task'[q]) BY <1>2 DEF ChatInv
<1>6. \A q \in Task : task[q] = task'[q] \/ Begins(task[q], task'[q]) BY <1>2, <1>3
<1> QED BY <1>1, <1>4, <1>5, <1>6, CalmStep

LEMMA BeginChats ==
  ASSUME Inv, ChatInv, NEW o \in Task,
         \/ \E k \in {"register", "update"}, a \in Account : BeginKeys(o, k, a)
         \/ \E k \in {"lookup", "chat"}, a \in Account, n \in Name, h \in Address :
              BeginAsk(o, k, a, n, h)
  PROVE  ChatInv'
<1>1. CASE \E k \in {"register", "update"}, a \in Account : BeginKeys(o, k, a)
  <2>1. PICK k \in {"register", "update"}, a \in Account : BeginKeys(o, k, a) BY <1>1
  <2> DEFINE t == [Idle EXCEPT !.pc = k, !.kind = k, !.who = a, !.key = made + 1]
  <2>2. t.pc = k /\ t.kind = k /\ t.call = "lookup" BY DEF Idle
  <2>3. Begin(o, t) /\ raced' = raced BY <2>1, Zenon DEF BeginKeys
  <2> HIDE DEF t
  <2>4. Way(t) /\ Alive(t) /\ ~Mirrors(t) /\ ~Chatting(t)
    BY <2>2 DEF Way, Alive, Mirrors, Chatting
  <2> QED BY <2>2, <2>3, <2>4, CalmBegin
<1>2. CASE \E k \in {"lookup", "chat"}, a \in Account, n \in Name, h \in Address :
             BeginAsk(o, k, a, n, h)
  <2>1. PICK k \in {"lookup", "chat"}, a \in Account, n \in Name, h \in Address :
               BeginAsk(o, k, a, n, h)
    BY <1>2
  <2> DEFINE t == [Idle EXCEPT !.pc = "resolve", !.kind = k, !.who = a, !.name = n, !.addr = h]
             p == {a, <<n, Reaches[h]>>}
             Same(q) == Active(q) /\ task[q].kind = "chat" /\ Pair(q) = p
  <2>2. t.pc = "resolve" /\ t.kind = k /\ t.call = "lookup" /\ PairOf(t) = p
    BY DEF Idle, PairOf
  <2>3. Begin(o, t) /\ raced' = IF k = "chat" /\ \E q \in Task : Same(q)
                                  THEN raced \cup {p} ELSE raced
    BY <2>1, Zenon DEF BeginAsk
  <2>4. \A q \in Task : Chatting(task[q]) /\ PairOf(task[q]) = p => Same(q)
    BY Places DEF Chatting, Active, Alive
  <2> HIDE DEF t, p, Same
  <2>5. Way(t) /\ Alive(t) /\ ~Mirrors(t) BY <2>2 DEF Way, Alive, Mirrors
  <2>6. Chatting(t) => k = "chat" BY <2>2 DEF Chatting
  <2>7. Chatting(t) /\ PairOf(t) \notin raced' =>
           \A q \in Task : Chatting(task[q]) => PairOf(task[q]) # PairOf(t)
    BY <2>2, <2>3, <2>4, <2>6
  <2>8. raced \subseteq raced' BY <2>3
  <2> QED BY <2>2, <2>3, <2>5, <2>7, <2>8, CalmBegin
<1> QED BY <1>1, <1>2

LEMMA AccountChats ==
  ASSUME Inv, ChatInv, NEW o \in Task, Taken(o) \/ Insert(o) \/ Update(o)
  PROVE  ChatInv'
<1>1. /\ room' = room /\ raced' = raced /\ task[o].pc \in {"register", "insert", "update"}
      /\ Alive(task[o])
  BY DEF Taken, Insert, Update, ghosts, Alive
<1>2. task[o] \in TaskRec /\ Way(task[o]) BY Places DEF ChatInv
<1>3. CASE Error(o) \/ Served(o)
  <2>1. ~Mirrors(task[o]) BY <1>1, <1>2 DEF Way, Chatting
  <2> QED BY <1>1, <1>3, <2>1, CalmError
<1>4. CASE task[o].pc = "register" /\ Goto(o, "insert")
  <2> DEFINE u == [task[o] EXCEPT !.pc = "insert"]
  <2>1. u.pc = "insert" /\ MovesTo(task[o], u) BY <1>2, GotoMoves
  <2>2. Set(o, u) BY <1>4, GotoSet
  <2>3. task[o].kind = "register" BY <1>2, <1>4 DEF Way
  <2> HIDE DEF u
  <2>4. Way(u) /\ Further(task[o], u)
    BY <1>1, <1>2, <2>1, <2>3 DEF Way, Further, Alive, MovesTo, Mirrors, Chatting
  <2> QED BY <1>1, <2>2, <2>4, OneCalm
<1>5. CASE task[o].pc = "insert" /\ Grant(o)
  <2>1. task[o].kind = "register" BY <1>2, <1>5 DEF Way
  <2>2. ~Mirrors(task[o]) BY <1>2, <2>1 DEF Way, Chatting
  <2>3. Way(Granted(task[o])) /\ Over(task[o], Granted(task[o]), raced')
    BY <1>2, <2>1, <2>2, WayGranted DEF Over
  <2> QED BY <1>1, <1>5, <2>3, OneCalm DEF Grant
<1> QED BY <1>3, <1>4, <1>5 DEF Taken, Insert, Update

LEMMA ResolvedChats ==
  ASSUME Inv, ChatInv, NEW o \in Task, Resolved(o), Alive(task[o]), ~Mirrors(task[o]),
         room' = room, raced' = raced
  PROVE  ChatInv'
<1>1. CASE task[o].kind = "chat" /\ Goto(o, "find") BY <1>1, CalmGoto
<1>2. CASE Served(o) BY <1>2, CalmError
<1> QED BY <1>1, <1>2 DEF Resolved

LEMMA ResolveChats ==
  ASSUME Inv, ChatInv, NEW o \in Task, Resolve(o) \/ Known(o) \/ Cache(o) \/ AddRow(o) \/ Serve(o)
  PROVE  ChatInv'
<1>1. /\ room' = room /\ raced' = raced
      /\ task[o].pc \in {"resolve", "known", "cache", "addrow", "serve"}
  BY DEF Resolve, Known, Cache, AddRow, Serve, ghosts
<1>2. Way(task[o]) /\ Alive(task[o]) BY <1>1 DEF ChatInv, Alive
<1>3. ~Mirrors(task[o]) BY <1>1, <1>2 DEF Way
<1>4. CASE Resolved(o) BY <1>1, <1>2, <1>3, <1>4, ResolvedChats
<1>5. CASE Error(o) BY <1>1, <1>2, <1>3, <1>5, CalmError
<1>6. CASE Goto(o, "sign") BY <1>1, <1>2, <1>3, <1>6, CalmGoto
<1>7. CASE Goto(o, "hello") BY <1>1, <1>2, <1>3, <1>7, CalmGoto
<1>8. CASE Goto(o, "addrow") BY <1>1, <1>2, <1>3, <1>8, CalmGoto
<1>9. CASE \E k : Set(o, [task[o] EXCEPT !.pc = "cache", !.key = k])
  <2>1. PICK k : Set(o, [task[o] EXCEPT !.pc = "cache", !.key = k]) BY <1>9, Zenon
  <2> DEFINE u == [task[o] EXCEPT !.pc = "cache", !.key = k]
  <2>2. u.pc = "cache" /\ MovesTo(task[o], u) BY Places DEF TaskRec, MovesTo
  <2>3. Set(o, u) BY <2>1
  <2> HIDE DEF u
  <2> QED BY <1>1, <1>2, <1>3, <2>2, <2>3, CalmMove
<1>10. CASE Resolve(o) BY <1>4, <1>5, <1>6, <1>7, <1>10 DEF Resolve
<1>11. CASE Known(o) BY <1>4, <1>6, <1>11 DEF Known
<1>12. CASE Cache(o) BY <1>4, <1>8, <1>12 DEF Cache
<1>13. CASE AddRow(o) BY <1>4, <1>5, <1>13 DEF AddRow
<1>14. CASE Serve(o) BY <1>5, <1>9, <1>14, Zenon DEF Serve
<1> QED BY <1>10, <1>11, <1>12, <1>13, <1>14

\* A hello keeps to the side it is on.
LEMMA HelloChats ==
  ASSUME Inv, ChatInv, NEW o \in Task, Hello(o) \/ NewKey(o) \/ Pin(o) \/ AddPin(o)
  PROVE  ChatInv'
<1>1. room' = room /\ task[o].pc \in {"hello", "newkey", "pin", "addpin"}
  BY DEF Hello, NewKey, Pin, AddPin
<1>2. Way(task[o]) /\ Alive(task[o]) /\ task[o] \in TaskRec BY <1>1, Places DEF ChatInv, Alive
<1>4. CASE Fails(o) BY <1>1, <1>4, CalmFails
<1>5. CASE raced' = raced /\ \E f \in {"newkey", "addpin"} : Goto(o, f)
  BY <1>1, <1>2, <1>5, CalmGoto
<1>6. CASE raced' = raced /\ Goto(o, AfterPin(o))
  <2>1. /\ AfterPin(o) \in {"known", "verify", "sign"}
        /\ Mirrors(task[o]) => AfterPin(o) # "known"
    BY DEF AfterPin, Mirrors
  <2> QED BY <1>1, <1>2, <1>6, <2>1, CalmGoto
<1>7. CASE raced' = raced /\ \E k : Set(o, [task[o] EXCEPT !.pc = "pin", !.key = k])
  <2>1. PICK k : Set(o, [task[o] EXCEPT !.pc = "pin", !.key = k]) BY <1>7, Zenon
  <2> DEFINE u == [task[o] EXCEPT !.pc = "pin", !.key = k]
  <2>2. u.pc = "pin" /\ MovesTo(task[o], u) /\ u.side = task[o].side
    BY <1>2 DEF TaskRec, MovesTo
  <2>3. Set(o, u) BY <2>1
  <2> HIDE DEF u
  <2> QED BY <1>1, <1>2, <1>7, <2>2, <2>3, CalmMove
<1>8. CASE Hello(o) BY <1>5, <1>7, <1>8, Zenon DEF Hello, ghosts
<1>9. CASE NewKey(o) BY <1>4, <1>7, <1>9, Zenon DEF NewKey
<1>10. CASE Pin(o) BY <1>5, <1>6, <1>10 DEF Pin, ghosts
<1>11. CASE AddPin(o) BY <1>4, <1>6, <1>11 DEF AddPin
<1> QED BY <1>8, <1>9, <1>10, <1>11

LEMMA SignChats ==
  ASSUME Inv, ChatInv, NEW o \in Task, Sign(o) \/ OwnKey(o) \/ Verify(o)
  PROVE  ChatInv'
<1>1. room' = room /\ task[o].pc \in {"sign", "ownkey", "verify"} BY DEF Sign, OwnKey, Verify
<1>2. Alive(task[o]) /\ task[o] \in TaskRec BY <1>1, Places DEF Alive
<1>3. CASE Fails(o) BY <1>1, <1>3, CalmFails
<1>4. CASE raced' = raced /\ Goto(o, "ownkey") BY <1>1, <1>2, <1>4, CalmGoto
<1>5. CASE raced' = raced /\ \E k : Set(o, [task[o] EXCEPT !.pc = "verify", !.sig = k])
  <2>1. PICK k : Set(o, [task[o] EXCEPT !.pc = "verify", !.sig = k]) BY <1>5, Zenon
  <2> DEFINE u == [task[o] EXCEPT !.pc = "verify", !.sig = k]
  <2>2. u.pc = "verify" /\ MovesTo(task[o], u) BY <1>2 DEF TaskRec, MovesTo
  <2>3. Set(o, u) BY <2>1
  <2> HIDE DEF u
  <2> QED BY <1>1, <1>2, <1>5, <2>2, <2>3, CalmMove
<1>6. CASE raced' = raced /\ Set(o, [task[o] EXCEPT !.pc = "hello", !.side = "callee"])
  <2> DEFINE u == [task[o] EXCEPT !.pc = "hello", !.side = "callee"]
  <2>1. u.pc = "hello" /\ u.side = "callee" /\ MovesTo(task[o], u) BY <1>2 DEF TaskRec, MovesTo
  <2>2. Set(o, u) BY <1>6
  <2> HIDE DEF u
  <2> QED BY <1>1, <1>2, <1>6, <2>1, <2>2, CalmMove
<1>7. CASE raced' = raced /\ Goto(o, Handler(o))
  <2>1. \/ Handler(o) = "serve" /\ ~Mirrors(task[o])
        \/ Handler(o) = "import" /\ Mirrors(task[o])
    BY <1>2 DEF Handler, Mirrors, TaskRec
  <2> QED BY <1>1, <1>2, <1>7, <2>1, CalmGoto
<1>8. CASE Sign(o) BY <1>4, <1>5, <1>8, Zenon DEF Sign, ghosts
<1>9. CASE OwnKey(o) BY <1>3, <1>5, <1>9, Zenon DEF OwnKey
<1>10. CASE Verify(o) BY <1>3, <1>6, <1>7, <1>10 DEF Verify
<1> QED BY <1>8, <1>9, <1>10

LEMMA OwnerChats ==
  ASSUME Inv, ChatInv, NEW o \in Task, Import(o) \/ AddOwner(o)
  PROVE  ChatInv'
<1>1. room' = room /\ task[o].pc \in {"import", "addowner"} BY DEF Import, AddOwner
<1>2. Way(task[o]) /\ Alive(task[o]) BY <1>1 DEF ChatInv, Alive
<1>3. Mirrors(task[o]) BY <1>1, <1>2 DEF Way
<1>4. CASE Fails(o) BY <1>1, <1>4, CalmFails
<1>5. CASE raced' = raced /\ \E f \in {"addroom", "addowner"} : Goto(o, f)
  BY <1>1, <1>2, <1>3, <1>5, CalmGoto
<1> QED BY <1>4, <1>5 DEF Import, AddOwner, ghosts

\* A request that nobody waits for any more goes on as before.
LEMMA LeftMoves ==
  ASSUME NEW t \in TaskRec, Way(t), Alive(t)
  PROVE  LET u == [t EXCEPT !.left = TRUE] IN Way(u) /\ Further(t, u)
<1> DEFINE u == [t EXCEPT !.left = TRUE]
<1>1. u.pc = t.pc /\ u.side = t.side /\ MovesTo(t, u) BY DEF TaskRec, MovesTo
<1> HIDE DEF u
<1>2. Further(t, u) BY <1>1 DEF Further, MovesTo, Alive
<1>3. Way(u) BY <1>1 DEF Way, MovesTo, Mirrors, Chatting, Alive, PairOf
<1> QED BY <1>2, <1>3 DEF u

LEMMA TroubleChats ==
  ASSUME Inv, ChatInv, NEW o \in Task, Lose(o) \/ GiveUp(o)
  PROVE  ChatInv'
<1>1. CASE Lose(o) BY <1>1, CalmFails DEF Lose
<1>2. CASE GiveUp(o)
  <2>1. Set(o, [task[o] EXCEPT !.left = TRUE]) /\ room' = room /\ raced \subseteq raced' /\ Remote(o)
    BY <1>2 DEF GiveUp
  <2>2. Way(task[o]) /\ Alive(task[o]) /\ task[o] \in TaskRec
    BY <2>1, Places DEF ChatInv, Remote, Alive
  <2> QED BY <2>1, <2>2, LeftMoves, OneCalm
<1> QED BY <1>1, <1>2

\* A crash ends or leaves alone; the chats whose mirror it met are in raced.
LEMMA CrashChats ==
  ASSUME Inv, ChatInv, NEW s \in Server, Crash(s)
  PROVE  ChatInv'
<1> DEFINE Hit(o)  == Active(o) /\ (At(o) = s \/ (Remote(o) /\ To(o) = s))
           Lost(o) == IF At(o) # s THEN Failed(task[o])
                      ELSE IF Remote(o) /\ To(o) # s THEN [task[o] EXCEPT !.left = TRUE]
                      ELSE Nothing
           hit == {o \in Task : Hit(o)}
<1>1. /\ task' = [o \in Task |-> IF o \in hit THEN Lost(o) ELSE task[o]]
      /\ raced' = raced \cup {Pair(o) : o \in {p \in hit : Mirroring(p)}}
      /\ room' = room
  BY DEF Crash
<1>2. ASSUME NEW o \in hit
      PROVE  Way(Lost(o)) /\ (Further(task[o], Lost(o)) \/ Over(task[o], Lost(o), raced'))
  <2>1. o \in Task /\ Active(o) OBVIOUS
  <2>2. Way(task[o]) /\ Alive(task[o]) /\ task[o] \in TaskRec /\ Pair(o) = PairOf(task[o])
    BY <2>1, Places, MirrorsAlive DEF ChatInv
  <2>3. Mirrors(task[o]) => PairOf(task[o]) \in raced'
    <3> HIDE DEF hit
    <3> QED BY <1>1, <2>1, <2>2, MirrorsAlive
  <2>4. Way(Failed(task[o])) /\ Over(task[o], Failed(task[o]), raced') BY <2>2, <2>3, FailedOver
  <2>5. Way(Nothing) /\ Over(task[o], Nothing, raced') BY <2>2, <2>3, FailedOver
  <2>6. Way([task[o] EXCEPT !.left = TRUE]) /\ Further(task[o], [task[o] EXCEPT !.left = TRUE])
    BY <2>2, LeftMoves
  <2> QED BY <2>4, <2>5, <2>6
<1> HIDE DEF hit, Lost
<1>3. \A o \in Task : IF o \in hit THEN task'[o] = Lost(o) ELSE task'[o] = task[o] BY <1>1
<1>4. \A o \in Task : Way(task'[o]) BY <1>2, <1>3 DEF ChatInv
<1>5. \A o \in Task : task[o] = task'[o] \/ Further(task[o], task'[o])
                      \/ Over(task[o], task'[o], raced')
  BY <1>2, <1>3
<1>6. \A q \in Task : Chatting(task'[q]) => Chatting(task[q]) /\ PairOf(task'[q]) = PairOf(task[q])
  <2> SUFFICES ASSUME NEW q \in Task, Chatting(task'[q])
               PROVE  Chatting(task[q]) /\ PairOf(task'[q]) = PairOf(task[q])
    OBVIOUS
  <2>1. task[q] = task'[q] \/ Further(task[q], task'[q]) \/ Over(task[q], task'[q], raced') BY <1>5
  <2> QED BY <2>1 DEF Further, Over, Chatting, Alive, PairOf
<1>7. raced \subseteq raced' BY <1>1
<1>8. OneAsks(task', raced') BY <1>6, <1>7 DEF ChatInv, OneAsks
<1> QED BY <1>1, <1>4, <1>5, <1>7, <1>8, CalmStep

-----------------------------------------------------------------------------
(* The steps that look for a chat, make it, and mirror it.                  *)

\* A step of one task that changes no room of other users.
LEMMA ChatStep ==
  ASSUME Inv, ChatInv, NEW o \in Task, NEW t, Set(o, t), Way(t), raced' = raced,
         Chatting(task[o]), NEW p, p = PairOf(task[o]), p = PairOf(t),
         Lasting(task', room'),
         \A s \in Server : \A q \in Pairs \ {p} : ChatRooms(room', s, q) = ChatRooms(room, s, q),
         \A s \in Server : ChatRooms(room, s, p) \subseteq ChatRooms(room', s, p),
         \A s \in Server : \A r \in room[s] : r.id # o => r \in room'[s],
         p \notin raced => Alike(p, task', room') /\ Stage(t, o, room')
  PROVE  ChatInv'
<1>1. task'[o] = t /\ \A q \in Task \ {o} : task'[q] = task[q] BY OtherTasks
<1>2. \A q \in Task : Chatting(task'[q]) => Chatting(task[q]) /\ PairOf(task'[q]) = PairOf(task[q])
  BY <1>1
<1>3. OneAsks(task', raced') BY <1>2 DEF ChatInv, OneAsks
<1>4. \A q \in Task : Way(task'[q]) BY <1>1 DEF ChatInv
<1>5. ASSUME NEW q \in Pairs \ raced' PROVE Alike(q, task', room')
  <2>1. CASE q = p BY <1>5, <2>1
  <2>2. CASE q # p
    <3>1. Alike(q, task, room) BY <1>5 DEF ChatInv
    <3>2. \A x \in Task : Mirrors(task[x]) /\ PairOf(task[x]) = q =>
             Mirrors(task'[x]) /\ PairOf(task'[x]) = q
      BY <1>1, <2>2
    <3>3. \A s \in Server : ChatRooms(room', s, q) = ChatRooms(room, s, q) BY <1>5, <2>2
    <3>4. \A x \in q : Home(x) \in Server BY DEF Pairs, Account, Home
    <3>5. \A s \in Server : \A r, x \in ChatRooms(room', s, q) : r = x BY <3>1, <3>3 DEF Alike
    <3>6. ASSUME \A x \in Task : Mirrors(task'[x]) => PairOf(task'[x]) # q,
                 NEW x \in q, NEW y \in q
          PROVE  ChatRooms(room', Home(x), q) = ChatRooms(room', Home(y), q)
      <4>1. ChatRooms(room, Home(x), q) = ChatRooms(room, Home(y), q)
        BY <3>1, <3>2, <3>6 DEF Alike
      <4> QED BY <3>3, <3>4, <4>1
    <3> QED BY <3>5, <3>6 DEF Alike
  <2> QED BY <2>1, <2>2
<1>6. ASSUME NEW q \in Task, PairOf(task'[q]) \notin raced' PROVE Stage(task'[q], q, room')
  <2>1. CASE q = o BY <1>1, <1>6, <2>1
  <2>2. CASE q # o
    <3> DEFINE u == task[q]
    <3>1. task'[q] = u BY <1>1, <2>2
    <3>2. Way(u) /\ Stage(u, q, room) BY <1>6, <3>1 DEF ChatInv
    <3>3. u.who[2] \in Server /\ Reaches[u.addr] \in Server BY Places
    <3>4. PairOf(u) = p => ~Chatting(u)
      BY <1>6, <2>2, <3>1 DEF ChatInv, OneAsks
    <3>5. \A with : Mirror(u, q, with).id = q BY DEF Mirror
    <3> HIDE DEF u
    <3>6. u.pc \in {"make", "members"} \/ Mirrors(u) => Chatting(u) /\ PairOf(u) \in Pairs
      BY <3>2 DEF Way, Chatting, Alive
    <3>7. u.pc = "make" => ChatRooms(room', u.who[2], PairOf(u)) = {}
      BY <3>2, <3>3, <3>4, <3>6 DEF Stage
    <3>8. Mirrors(u) => /\ ChatRooms(room', u.who[2], PairOf(u)) = {Mirror(u, q, PairOf(u))}
                        /\ ChatRooms(room', Reaches[u.addr], PairOf(u)) = {}
      BY <3>2, <3>3, <3>4, <3>6 DEF Stage
    <3>9. u.pc = "members" => Mirror(u, q, {}) \in room'[Reaches[u.addr]]
      BY <2>2, <3>2, <3>3, <3>5 DEF Stage
    <3>10. u.kind = "chat" /\ u.pc = "ok" =>
             \E r \in ChatRooms(room', u.who[2], PairOf(u)) :
                 r \in ChatRooms(room', Reaches[u.addr], PairOf(u))
      <4>1. u.kind = "chat" /\ u.pc = "ok" => PairOf(u) \in Pairs BY <3>2 DEF Way
      <4>2. PairOf(u) \in Pairs => \A s \in Server :
               ChatRooms(room, s, PairOf(u)) \subseteq ChatRooms(room', s, PairOf(u))
        OBVIOUS
      <4> QED BY <3>2, <3>3, <4>1, <4>2 DEF Stage
    <3>11. Stage(u, q, room') BY <3>7, <3>8, <3>9, <3>10 DEF Stage
    <3> QED BY <3>1, <3>11
  <2> QED BY <2>1, <2>2
<1> QED BY <1>3, <1>4, <1>5, <1>6 DEF ChatInv

\* The pair of two accounts.
LEMMA PairOfTwo ==
  ASSUME Inv, NEW o \in Task
  PROVE  /\ Cardinality(Pair(o)) = 2 => PairOf(task[o]) \in Pairs
         /\ \A x \in PairOf(task[o]) : Home(x) \in {At(o), To(o)}
         /\ Asked(o) \in PairOf(task[o]) /\ task[o].who \in PairOf(task[o])
<1>1. Asked(o) \in Account /\ task[o].who \in Account BY Parts, Places DEF Inv
<1>2. PairOf(task[o]) = {task[o].who, Asked(o)} BY Places DEF PairOf
<1>3. Cardinality(Pair(o)) = 2 => task[o].who # Asked(o)
  <2> SUFFICES ASSUME task[o].who = Asked(o) PROVE Cardinality(Pair(o)) # 2 OBVIOUS
  <2>1. Pair(o) = {Asked(o)} BY DEF Pair
  <2> QED BY <2>1, FS_Singleton
<1>4. Cardinality(Pair(o)) = 2 => PairOf(task[o]) \in Pairs BY <1>1, <1>2, <1>3 DEF Pairs
<1>5. \A x \in PairOf(task[o]) : Home(x) \in {At(o), To(o)} BY <1>2, Places
<1> QED BY <1>2, <1>4, <1>5

\* At most one room, so the query finds none, or one, by what it counts.
LEMMA FoundSome ==
  ASSUME NEW S, \A r, x \in S : r = x
  PROVE  /\ IsFiniteSet(S) /\ Cardinality(S) <= 1
         /\ Cardinality(S) = 0 <=> S = {}
<1>1. CASE S = {} BY <1>1, FS_EmptySet
<1>2. CASE S # {}
  <2>1. PICK r : S = {r} BY <1>2
  <2> QED BY <2>1, FS_Singleton
<1> QED BY <1>1, <1>2

\* While a task looks for its chat, nobody mirrors it.
LEMMA NobodyMirrors ==
  ASSUME Inv, ChatInv, NEW o \in Task, Chatting(task[o]), ~Mirrors(task[o]),
         PairOf(task[o]) \notin raced, PairOf(task[o]) \in Pairs
  PROVE  /\ ChatRooms(room, At(o), PairOf(task[o])) = ChatRooms(room, To(o), PairOf(task[o]))
         /\ \A s \in Server : \A r, x \in ChatRooms(room, s, PairOf(task[o])) : r = x
<1>1. \A q \in Task : Mirrors(task[q]) => PairOf(task[q]) # PairOf(task[o])
  BY MirrorsAlive DEF ChatInv, OneAsks
<1>2. Alike(PairOf(task[o]), task, room) BY DEF ChatInv
<1>3. Asked(o) \in PairOf(task[o]) /\ task[o].who \in PairOf(task[o]) BY PairOfTwo
<1>4. Home(task[o].who) = At(o) /\ Home(Asked(o)) = To(o) BY Places
<1> QED BY <1>1, <1>2, <1>3, <1>4 DEF Alike

LEMMA FindChats ==
  ASSUME Inv, ChatInv, NEW o \in Task, Find(o)
  PROVE  ChatInv'
<1>1. room' = room /\ raced' = raced /\ task[o].pc = "find" BY DEF Find, ghosts
<1>2. Way(task[o]) /\ Alive(task[o]) /\ task[o] \in TaskRec /\ Chatting(task[o]) /\ ~Mirrors(task[o])
  BY <1>1, Places DEF ChatInv, Alive, Way, Chatting
<1> DEFINE p == PairOf(task[o])
<1>3. CASE Error(o) BY <1>1, <1>2, <1>3, CalmError
<1>4. ASSUME NEW t, Set(o, t), Way(t), PairOf(t) = p, Cardinality(Pair(o)) = 2,
             t.pc \in {"make", "ok"}, t.who = task[o].who, t.addr = task[o].addr, ~Mirrors(t),
             t.pc = "make" => Cardinality(Chats(At(o), Pair(o))) = 0,
             t.pc = "ok" => Cardinality(Chats(At(o), Pair(o))) = 1
      PROVE  ChatInv'
  <2>1. p \in Pairs BY <1>4, PairOfTwo
  <2>2. task'[o] = t /\ \A q \in Task \ {o} : task'[q] = task[q] BY <1>4, OtherTasks
  <2>3. Lasting(task', room')
    <3>1. \A s \in Server : \A r \in room[s] : r.id \in Task BY DEF Inv, TypeOK
    <3>2. \A s \in Server : \A r \in room[s] : r.id # o BY <1>2 DEF ChatInv, Lasting
    <3> QED BY <1>1, <2>2, <3>1, <3>2 DEF ChatInv, Lasting
  <2>4. ASSUME p \notin raced PROVE Alike(p, task', room') /\ Stage(t, o, room')
    <3> DEFINE here  == ChatRooms(room, At(o), p)
               there == ChatRooms(room, To(o), p)
    <3>1. here = there /\ \A s \in Server : \A r, x \in ChatRooms(room, s, p) : r = x
      BY <1>2, <2>1, <2>4, NobodyMirrors
    <3>2. IsFiniteSet(here) /\ (Cardinality(here) = 0 <=> here = {}) /\ Chats(At(o), Pair(o)) = here
      <4>1. Chats(At(o), Pair(o)) = here BY Places
      <4>2. \A r, x \in here : r = x BY <3>1, Places
      <4> HIDE DEF here
      <4> QED BY <4>1, <4>2, FoundSome
    <3>3. \A x \in p : Home(x) \in {At(o), To(o)} BY PairOfTwo
    <3>4. Alike(p, task', room') BY <1>1, <3>1, <3>3 DEF Alike
    <3>5. t.pc = "make" => here = {} BY <1>4, <3>2
    <3>6. t.pc = "ok" => here # {} BY <1>4, <3>2
    <3>7. At(o) = t.who[2] /\ To(o) = Reaches[t.addr] BY <1>4, Places
    <3>8. t.pc = "ok" => \E r \in here : r \in there BY <3>1, <3>6
    <3>9. Stage(t, o, room') BY <1>1, <1>4, <3>5, <3>7, <3>8 DEF Stage
    <3> QED BY <3>4, <3>9
  <2>5. /\ \A s \in Server : \A q \in Pairs \ {p} : ChatRooms(room', s, q) = ChatRooms(room, s, q)
        /\ \A s \in Server : ChatRooms(room, s, p) \subseteq ChatRooms(room', s, p)
        /\ \A s \in Server : \A r \in room[s] : r.id # o => r \in room'[s]
    BY <1>1
  <2> HIDE DEF p
  <2>6. p = PairOf(task[o]) BY DEF p
  <2> QED BY <1>1, <1>2, <1>4, <2>3, <2>4, <2>5, <2>6, ChatStep
<1>5. CASE Grant(o) /\ Cardinality(Pair(o)) = 2 /\ Cardinality(Chats(At(o), Pair(o))) = 1
  <2> DEFINE t == Granted(task[o])
  <2>1. PairOf(task[o]) \in Pairs BY <1>5, PairOfTwo
  <2>2. /\ Way(t) /\ t.pc = "ok" /\ ~Mirrors(t) /\ t.who = task[o].who /\ t.addr = task[o].addr
        /\ PairOf(t) = p
    BY <1>2, <2>1, WayGranted
  <2>3. Set(o, t) BY <1>5 DEF Grant
  <2> HIDE DEF t, p
  <2> QED BY <1>4, <1>5, <2>2, <2>3
<1>6. CASE Goto(o, "make") /\ Cardinality(Pair(o)) = 2 /\ Cardinality(Chats(At(o), Pair(o))) = 0
  <2> DEFINE t == [task[o] EXCEPT !.pc = "make"]
  <2>1. PairOf(task[o]) \in Pairs BY <1>6, PairOfTwo
  <2>2. t.pc = "make" /\ MovesTo(task[o], t) BY <1>2, GotoMoves
  <2>3. Set(o, t) BY <1>6, GotoSet
  <2> HIDE DEF t
  <2>4. PairOf(t) = PairOf(task[o]) /\ t.who = task[o].who /\ t.addr = task[o].addr
        /\ t.kind = "chat" /\ ~Mirrors(t)
    BY <1>2, <2>2 DEF MovesTo, PairOf, Mirrors, Chatting
  <2>5. Way(t) BY <2>1, <2>2, <2>4 DEF Way
  <2> QED BY <1>4, <1>6, <2>2, <2>3, <2>4, <2>5
<1>7. \/ Error(o)
      \/ Grant(o) /\ Cardinality(Pair(o)) = 2 /\ Cardinality(Chats(At(o), Pair(o))) = 1
      \/ Goto(o, "make") /\ Cardinality(Pair(o)) = 2 /\ Cardinality(Chats(At(o), Pair(o))) = 0
  BY Zenon DEF Find
<1> QED BY <1>3, <1>5, <1>6, <1>7

\* Room r of the pair p, or of nobody yet, is added to the rooms of server u.
OneMore(old, new, u, p, r) ==
    /\ \A s \in Server : old[s] \subseteq new[s] /\ (s # u => new[s] = old[s])
    /\ new[u] = old[u] \cup {r}
    /\ \A s \in Server : \A q \in Pairs \ {p} : ChatRooms(new, s, q) = ChatRooms(old, s, q)
    /\ r.with = {} => \A s \in Server : ChatRooms(new, s, p) = ChatRooms(old, s, p)
    /\ r.with = p => ChatRooms(new, u, p) = ChatRooms(old, u, p) \cup {r}
    /\ \A s \in Server : ChatRooms(old, s, p) \subseteq ChatRooms(new, s, p)
    /\ \A s \in Server \ {u} : ChatRooms(new, s, p) = ChatRooms(old, s, p)

Adds(u, p, r) ==
    /\ u \in Server /\ p \in Pairs /\ r.with \in {{}, p}
    /\ room' = [room EXCEPT ![u] = @ \cup {r}]

LEMMA RoomAdded ==
  ASSUME Inv, NEW u, NEW p, NEW r, Adds(u, p, r)
  PROVE  OneMore(room, room', u, p, r)
<1>1. /\ u \in Server /\ p \in Pairs /\ r.with \in {{}, p}
      /\ \A s \in Server : room'[s] = IF s = u THEN room[u] \cup {r} ELSE room[s]
  BY DEF Inv, TypeOK, Adds
<1>2. \A q \in Pairs : q # {} BY DEF Pairs
<1>3. \A q \in Pairs \ {p} : ~(q \subseteq r.with) BY <1>1, <1>2, PairsAreEqual
<1> QED BY <1>1, <1>2, <1>3 DEF ChatRooms, OneMore

LEMMA MakeChats ==
  ASSUME Inv, ChatInv, NEW o \in Task, Make(o)
  PROVE  ChatInv'
<1> DEFINE p == PairOf(task[o])
           r == [host |-> At(o), id |-> o, with |-> p]
           here  == ChatRooms(room, At(o), p)
           there == ChatRooms(room, To(o), p)
<1>1. /\ task[o].pc = "make" /\ raced' = raced
      /\ room' = [room EXCEPT ![At(o)] = @ \cup {r}]
  <2>1. Pair(o) = p BY Places
  <2> QED BY <2>1 DEF Make, ghosts
<1>2. /\ task[o] \in TaskRec /\ Way(task[o]) /\ Chatting(task[o]) /\ ~Mirrors(task[o]) /\ p \in Pairs
      /\ At(o) \in Server /\ To(o) \in Server /\ At(o) = task[o].who[2] /\ To(o) = Reaches[task[o].addr]
  BY <1>1, Places DEF ChatInv, Way, Chatting, Alive
<1>3. r.with = p /\ r.id = o /\ r = Mirror(task[o], o, p) BY Places DEF Mirror
<1>4. \A s \in Server : \A x \in room[s] : x.id # o BY <1>2 DEF ChatInv, Lasting, Chatting
<1>5. p \notin raced => /\ here = {} /\ there = {}
                        /\ \A s \in Server : \A y, x \in ChatRooms(room, s, p) : x = y
  <2> SUFFICES ASSUME p \notin raced
               PROVE  /\ here = {} /\ there = {}
                      /\ \A s \in Server : \A y, x \in ChatRooms(room, s, p) : x = y
    OBVIOUS
  <2>1. Stage(task[o], o, room) BY DEF ChatInv
  <2>2. here = {} BY <1>1, <1>2, <2>1 DEF Stage
  <2> QED BY <1>2, <2>2, NobodyMirrors
<1>6. \A x \in p : Home(x) \in {At(o), To(o)} BY PairOfTwo
<1> HIDE DEF r
<1>7. /\ \A s \in Server : room[s] \subseteq room'[s] /\ (s # At(o) => room'[s] = room[s])
      /\ room'[At(o)] = room[At(o)] \cup {r}
      /\ \A s \in Server : \A q \in Pairs \ {p} : ChatRooms(room', s, q) = ChatRooms(room, s, q)
      /\ ChatRooms(room', At(o), p) = here \cup {r}
      /\ \A s \in Server : ChatRooms(room, s, p) \subseteq ChatRooms(room', s, p)
      /\ \A s \in Server \ {At(o)} : ChatRooms(room', s, p) = ChatRooms(room, s, p)
  <2>1. Adds(At(o), p, r) BY <1>1, <1>2, <1>3 DEF Adds
  <2>2. OneMore(room, room', At(o), p, r) BY <2>1, RoomAdded
  <2> QED BY <1>3, <2>2 DEF OneMore
<1> HIDE DEF p, here, there
<1>8. ASSUME NEW t, Set(o, t), Way(t), PairOf(t) = p, t.pc # "new",
             Alive(t) => Mirrors(t),
             p \notin raced => Alike(p, task', room') /\ Stage(t, o, room')
      PROVE  ChatInv'
  <2>1. task'[o] = t /\ \A q \in Task \ {o} : task'[q] = task[q] BY <1>8, OtherTasks
  <2>2. Lasting(task', room')
    <3>1. \A s \in Server : \A x \in room[s] : x.id \in Task BY DEF Inv, TypeOK
    <3>2. ASSUME NEW s \in Server, NEW x \in room'[s]
          PROVE  /\ x.with = {} \/ x.with \in Pairs
                 /\ task'[x.id].pc # "new"
                 /\ Alive(task'[x.id]) => Mirrors(task'[x.id]) /\ x.with \in {{}, PairOf(task'[x.id])}
      <4>1. CASE x = r BY <1>2, <1>3, <1>8, <2>1, <4>1
      <4>2. CASE x \in room[s]
        <5>1. task'[x.id] = task[x.id] BY <1>4, <2>1, <3>1, <4>2
        <5> QED BY <4>2, <5>1 DEF ChatInv, Lasting
      <4>3. x = r \/ x \in room[s] BY <1>2, <1>7
      <4> QED BY <4>1, <4>2, <4>3
    <3> QED BY <3>2 DEF Lasting
  <2>3. p = PairOf(task[o]) BY DEF p
  <2>4. \A s \in Server : \A x \in room[s] : x.id # o => x \in room'[s] BY <1>7
  <2> QED BY <1>1, <1>2, <1>7, <1>8, <2>2, <2>3, <2>4, ChatStep
<1>9. p \notin raced => \A s \in Server : \A x, y \in ChatRooms(room', s, p) : x = y
  <2> SUFFICES ASSUME p \notin raced, NEW s \in Server, NEW x \in ChatRooms(room', s, p),
                      NEW y \in ChatRooms(room', s, p)
               PROVE  x = y
    OBVIOUS
  <2>1. CASE s = At(o) BY <1>5, <1>7, <2>1
  <2>2. CASE s # At(o) BY <1>5, <1>7, <2>2
  <2> QED BY <2>1, <2>2
<1>10. CASE To(o) = At(o) /\ Grant(o)
  <2> DEFINE t == Granted(task[o])
  <2>1. /\ Way(t) /\ t.pc = "ok" /\ ~Mirrors(t) /\ t.who = task[o].who /\ t.addr = task[o].addr
        /\ PairOf(t) = p
    BY <1>2, WayGranted DEF p
  <2>2. Set(o, t) BY <1>10 DEF Grant
  <2> HIDE DEF t
  <2>3. \A x, y \in p : ChatRooms(room', Home(x), p) = ChatRooms(room', Home(y), p)
    BY <1>6, <1>10
  <2>4. p \notin raced => Alike(p, task', room') BY <1>9, <2>3 DEF Alike
  <2>5. r \in ChatRooms(room', At(o), p) BY <1>7
  <2>6. Stage(t, o, room') BY <1>2, <1>10, <2>1, <2>5 DEF Stage
  <2> QED BY <1>8, <2>1, <2>2, <2>4, <2>6 DEF Alive
<1>11. CASE To(o) # At(o) /\ \E f \in {"sign", "hello"} : \E k :
              Set(o, [task[o] EXCEPT !.pc = f, !.call = "import", !.side = "caller", !.card = k])
  <2>0. PICK f \in {"sign", "hello"} : \E k :
          Set(o, [task[o] EXCEPT !.pc = f, !.call = "import", !.side = "caller", !.card = k])
    BY <1>11, Zenon
  <2>1. PICK k :
          Set(o, [task[o] EXCEPT !.pc = f, !.call = "import", !.side = "caller", !.card = k])
    BY <2>0, Zenon
  <2> DEFINE t == [task[o] EXCEPT !.pc = f, !.call = "import", !.side = "caller", !.card = k]
  <2>2. /\ t.pc = f /\ t.call = "import" /\ t.who = task[o].who /\ t.addr = task[o].addr
        /\ t.name = task[o].name /\ t.kind = task[o].kind
    BY <1>2 DEF TaskRec
  <2>3. Set(o, t) BY <2>1
  <2> HIDE DEF t
  <2>4. PairOf(t) = p /\ Mirrors(t) /\ Alive(t) /\ Chatting(t) /\ Mirror(t, o, p) = r
    BY <1>2, <1>3, <2>2 DEF p, PairOf, Mirrors, Alive, Chatting, Mirror
  <2>5. Way(t) BY <1>2, <1>11, <2>2, <2>4 DEF Way
  <2>6. task'[o] = t BY <2>3, OtherTasks
  <2>7. p \notin raced => Alike(p, task', room') BY <1>9, <2>4, <2>6 DEF Alike
  <2>8. ASSUME p \notin raced PROVE Stage(t, o, room')
    <3>1. ChatRooms(room', At(o), p) = {r} BY <1>5, <1>7, <2>8
    <3>2. ChatRooms(room', To(o), p) = {} BY <1>2, <1>5, <1>7, <1>11, <2>8 DEF there
    <3> QED BY <1>2, <2>2, <2>4, <3>1, <3>2 DEF Stage
  <2> QED BY <1>8, <2>2, <2>3, <2>4, <2>5, <2>7, <2>8
<1> QED BY <1>10, <1>11, Zenon DEF Make

LEMMA AddRoomChats ==
  ASSUME Inv, ChatInv, NEW o \in Task, AddRoom(o)
  PROVE  ChatInv'
<1> DEFINE p == PairOf(task[o])
           r == [host |-> At(o), id |-> o, with |-> {}]
           t == [task[o] EXCEPT !.pc = "members"]
<1>1. /\ task[o].pc = "addroom" /\ raced' = raced
      /\ room' = [room EXCEPT ![To(o)] = @ \cup {r}] /\ Goto(o, "members")
  BY DEF AddRoom, ghosts
<1>2. /\ task[o] \in TaskRec /\ Way(task[o]) /\ Mirrors(task[o]) /\ Chatting(task[o]) /\ p \in Pairs
      /\ At(o) \in Server /\ To(o) \in Server /\ At(o) = task[o].who[2] /\ To(o) = Reaches[task[o].addr]
  BY <1>1, Places DEF ChatInv, Way
<1>3. t.pc = "members" /\ MovesTo(task[o], t) /\ Set(o, t) BY <1>1, <1>2, GotoMoves, GotoSet
<1>4. r.with = {} /\ r.id = o /\ r = Mirror(task[o], o, {}) BY <1>2 DEF Mirror
<1> HIDE DEF t, r
<1>5. /\ PairOf(t) = p /\ Mirrors(t) /\ Alive(t) /\ Chatting(t)
      /\ t.who = task[o].who /\ t.addr = task[o].addr
      /\ \A with : Mirror(t, o, with) = Mirror(task[o], o, with)
  BY <1>2, <1>3 DEF PairOf, Mirrors, Alive, Chatting, MovesTo, Mirror
<1>6. Way(t) BY <1>2, <1>3, <1>5 DEF Way
<1>7. /\ \A s \in Server : room[s] \subseteq room'[s] /\ (s # To(o) => room'[s] = room[s])
      /\ room'[To(o)] = room[To(o)] \cup {r}
      /\ \A s \in Server : \A q \in Pairs \ {p} : ChatRooms(room', s, q) = ChatRooms(room, s, q)
      /\ \A s \in Server : ChatRooms(room', s, p) = ChatRooms(room, s, p)
  <2>1. Adds(To(o), p, r) BY <1>1, <1>2, <1>4 DEF Adds
  <2>2. OneMore(room, room', To(o), p, r) BY <2>1, RoomAdded
  <2> QED BY <1>4, <2>2 DEF OneMore
<1> HIDE DEF p
<1>8. task'[o] = t /\ \A q \in Task \ {o} : task'[q] = task[q] BY <1>3, OtherTasks
<1>9. Lasting(task', room')
  <2>1. \A s \in Server : \A x \in room[s] : x.id \in Task BY DEF Inv, TypeOK
  <2>2. ASSUME NEW s \in Server, NEW x \in room'[s]
        PROVE  /\ x.with = {} \/ x.with \in Pairs
               /\ task'[x.id].pc # "new"
               /\ Alive(task'[x.id]) => Mirrors(task'[x.id]) /\ x.with \in {{}, PairOf(task'[x.id])}
    <3>1. CASE x = r BY <1>3, <1>4, <1>5, <1>8, <3>1
    <3>2. CASE x \in room[s] /\ x.id # o
      <4>1. task'[x.id] = task[x.id] BY <1>8, <2>1, <3>2
      <4> QED BY <3>2, <4>1 DEF ChatInv, Lasting
    <3>3. CASE x \in room[s] /\ x.id = o
      <4>1. x.with \in {{}, p} BY <1>2, <3>3 DEF ChatInv, Lasting, Chatting, p
      <4> QED BY <1>2, <1>3, <1>5, <1>8, <3>3, <4>1
    <3>4. x = r \/ x \in room[s] BY <1>2, <1>7
    <3> QED BY <3>1, <3>2, <3>3, <3>4
  <2> QED BY <2>2 DEF Lasting
<1>10. ASSUME p \notin raced PROVE Alike(p, task', room') /\ Stage(t, o, room')
  <2>1. Alike(p, task, room) /\ Stage(task[o], o, room) BY <1>2, <1>10 DEF ChatInv, p
  <2>2. Alike(p, task', room') BY <1>5, <1>7, <1>8, <2>1 DEF Alike
  <2>3. Stage(t, o, room')
    <3>1. r \in room'[To(o)] BY <1>7
    <3> QED BY <1>2, <1>3, <1>4, <1>5, <1>7, <2>1, <3>1 DEF Stage, p
  <2> QED BY <2>2, <2>3
<1>11. p = PairOf(task[o]) BY DEF p
<1>12. /\ \A s \in Server : ChatRooms(room, s, p) \subseteq ChatRooms(room', s, p)
       /\ \A s \in Server : \A x \in room[s] : x.id # o => x \in room'[s]
  BY <1>7
<1> QED BY <1>1, <1>2, <1>3, <1>5, <1>6, <1>7, <1>9, <1>10, <1>11, <1>12, ChatStep

LEMMA MembersChats ==
  ASSUME Inv, ChatInv, NEW o \in Task, Members(o)
  PROVE  ChatInv'
<1> DEFINE p == PairOf(task[o])
           t == Granted(task[o])
           m == Mirror(task[o], o, p)
           Filled(x) == IF x.host = At(o) /\ x.id = o THEN [x EXCEPT !.with = p] ELSE x
<1>1. /\ task[o].pc = "members" /\ raced' = raced /\ Set(o, t)
      /\ room' = [room EXCEPT ![To(o)] = {Filled(x) : x \in @}]
  <2>1. Pair(o) = p BY Places
  <2> QED BY <2>1 DEF Members, ghosts, Grant
<1>2. /\ task[o] \in TaskRec /\ Way(task[o]) /\ Mirrors(task[o]) /\ Chatting(task[o]) /\ p \in Pairs
      /\ At(o) \in Server /\ To(o) \in Server /\ At(o) = task[o].who[2] /\ To(o) = Reaches[task[o].addr]
      /\ At(o) # To(o)
  BY <1>1, Places DEF ChatInv, Way
<1>3. /\ Way(t) /\ t.pc = "ok" /\ ~Mirrors(t) /\ PairOf(t) = p
      /\ t.who = task[o].who /\ t.addr = task[o].addr
  BY <1>2, WayGranted
<1>4. task'[o] = t /\ \A q \in Task \ {o} : task'[q] = task[q] BY <1>1, OtherTasks
<1>5. \A s \in Server : /\ s # To(o) => room'[s] = room[s]
                        /\ s = To(o) => room'[s] = {Filled(x) : x \in room[To(o)]}
  BY <1>1, <1>2 DEF Inv, TypeOK
<1>6. \A x \in room[To(o)] : x.id = o => x.with \in {{}, p}
  BY <1>2 DEF ChatInv, Lasting, Chatting
<1>7. ASSUME NEW x \in room[To(o)]
      PROVE  /\ x.host # At(o) \/ x.id # o => Filled(x) = x
             /\ x.host = At(o) /\ x.id = o => Filled(x) = m
             /\ x.id \in Task
  <2>1. x \in [host : Server, id : Task, with : SUBSET Account] BY <1>2 DEF Inv, TypeOK
  <2> HIDE DEF p
  <2> QED BY <1>2, <2>1 DEF Mirror
<1>8. m.with = p /\ m.id = o /\ m.host = At(o) BY <1>2 DEF Mirror
<1> HIDE DEF t, p, m, Filled
<1>9. ASSUME NEW y \in room'[To(o)]
      PROVE  y = m \/ (y \in room[To(o)] /\ (y.id = o => y.host # At(o)))
  <2>1. PICK x \in room[To(o)] : y = Filled(x) BY <1>2, <1>5
  <2> QED BY <1>7, <2>1
<1>10. ASSUME NEW x \in room[To(o)]
       PROVE  x \in room'[To(o)] \/ (m \in room'[To(o)] /\ x.id = o /\ x.host = At(o))
  <2>1. Filled(x) \in room'[To(o)] BY <1>2, <1>5
  <2> QED BY <1>7, <2>1
<1>11. \A s \in Server : \A x \in room[s] : x.id # o => x \in room'[s] BY <1>5, <1>10
<1>12. ASSUME NEW s \in Server, NEW q \in Pairs \ {p}
       PROVE  ChatRooms(room', s, q) = ChatRooms(room, s, q)
  <2>1. CASE s # To(o) BY <1>5, <2>1 DEF ChatRooms
  <2>2. CASE s = To(o)
    <3>1. ~(q \subseteq p) /\ q # {} BY <1>2, PairsAreEqual DEF Pairs
    <3>2. ASSUME NEW y \in ChatRooms(room', To(o), q) PROVE y \in ChatRooms(room, To(o), q)
      <4>1. y \in room'[To(o)] /\ q \subseteq y.with BY DEF ChatRooms
      <4>2. y # m BY <1>8, <3>1, <4>1
      <4> QED BY <1>9, <4>1, <4>2 DEF ChatRooms
    <3>3. ASSUME NEW x \in ChatRooms(room, To(o), q) PROVE x \in ChatRooms(room', To(o), q)
      <4>1. x \in room[To(o)] /\ q \subseteq x.with BY DEF ChatRooms
      <4>2. x.id # o BY <1>6, <3>1, <4>1
      <4>3. x \in room'[To(o)] BY <1>2, <1>11, <4>1, <4>2
      <4> QED BY <4>1, <4>3 DEF ChatRooms
    <3>4. ChatRooms(room', To(o), q) = ChatRooms(room, To(o), q) BY <3>2, <3>3
    <3> QED BY <2>2, <3>4
  <2> QED BY <2>1, <2>2
<1>13. ASSUME NEW s \in Server, NEW x \in ChatRooms(room, s, p)
       PROVE  x \in ChatRooms(room', s, p)
  <2>1. x \in room[s] /\ p \subseteq x.with BY DEF ChatRooms
  <2>2. CASE s # To(o) BY <1>5, <2>1, <2>2 DEF ChatRooms
  <2>3. CASE s = To(o) /\ (x.id # o \/ x.host # At(o))
    <3>1. x \in room'[s] BY <1>10, <2>1, <2>3
    <3> QED BY <2>1, <3>1 DEF ChatRooms
  <2>4. CASE s = To(o) /\ x.id = o /\ x.host = At(o)
    <3>1. x.with = p
      <4>1. p # {} BY <1>2 DEF Pairs
      <4> QED BY <1>6, <2>1, <2>4, <4>1
    <3>2. x \in [host : Server, id : Task, with : SUBSET Account] BY <2>1 DEF Inv, TypeOK
    <3>3. x = m BY <1>2, <2>4, <3>1, <3>2 DEF m, Mirror
    <3>4. m \in room'[To(o)] BY <1>10, <2>1, <2>4, <3>3
    <3> QED BY <2>1, <2>4, <3>3, <3>4 DEF ChatRooms
  <2> QED BY <2>2, <2>3, <2>4
<1>14. Lasting(task', room')
  <2>1. \A s \in Server : \A x \in room[s] : x.id \in Task BY DEF Inv, TypeOK
  <2>2. ASSUME NEW s \in Server, NEW y \in room'[s]
        PROVE  /\ y.with = {} \/ y.with \in Pairs
               /\ task'[y.id].pc # "new"
               /\ Alive(task'[y.id]) => Mirrors(task'[y.id]) /\ y.with \in {{}, PairOf(task'[y.id])}
    <3>1. CASE y = m BY <1>2, <1>3, <1>4, <1>8, <3>1 DEF Alive
    <3>2. CASE y \in room[s] /\ y.id = o
      <4>1. y.with = {} \/ y.with \in Pairs BY <3>2 DEF ChatInv, Lasting
      <4> QED BY <1>3, <1>4, <3>2, <4>1 DEF Alive
    <3>3. CASE y \in room[s] /\ y.id # o
      <4>1. task'[y.id] = task[y.id] BY <1>4, <2>1, <3>3
      <4> QED BY <3>3, <4>1 DEF ChatInv, Lasting
    <3>4. y = m \/ y \in room[s] BY <1>5, <1>9
    <3> QED BY <3>1, <3>2, <3>3, <3>4
  <2> QED BY <2>2 DEF Lasting
<1>15. ASSUME p \notin raced PROVE Alike(p, task', room') /\ Stage(t, o, room')
  <2>1. Alike(p, task, room) /\ Stage(task[o], o, room) BY <1>2, <1>15 DEF ChatInv, p
  <2>2. /\ ChatRooms(room, At(o), p) = {m} /\ ChatRooms(room, To(o), p) = {}
        /\ Mirror(task[o], o, {}) \in room[To(o)]
    BY <1>1, <1>2, <2>1 DEF Stage, p, m
  <2>3. ChatRooms(room', At(o), p) = {m} BY <1>2, <1>5, <2>2 DEF ChatRooms
  <2>4. m \in ChatRooms(room', To(o), p)
    <3>1. Mirror(task[o], o, {}).id = o /\ Mirror(task[o], o, {}).host = At(o)
      BY <1>2 DEF Mirror
    <3>2. Filled(Mirror(task[o], o, {})) = m BY <1>7, <2>2, <3>1
    <3>3. m \in room'[To(o)] BY <1>2, <1>5, <2>2, <3>2
    <3> QED BY <1>8, <3>3 DEF ChatRooms
  <2>5. \A y \in ChatRooms(room', To(o), p) : y = m
    BY <1>9, <2>2 DEF ChatRooms
  <2>6. ChatRooms(room', To(o), p) = {m} BY <2>4, <2>5
  <2>7. \A s \in Server \ {To(o)} : ChatRooms(room', s, p) = ChatRooms(room, s, p)
    BY <1>5 DEF ChatRooms
  <2>8. \A s \in Server : \A x, y \in ChatRooms(room', s, p) : x = y
    <3> SUFFICES ASSUME NEW s \in Server PROVE \A x, y \in ChatRooms(room', s, p) : x = y
      OBVIOUS
    <3>1. CASE s = To(o) BY <2>6, <3>1
    <3>2. CASE s # To(o) BY <2>1, <2>7, <3>2 DEF Alike
    <3> QED BY <3>1, <3>2
  <2>9. \A x \in p : Home(x) \in {At(o), To(o)} BY PairOfTwo DEF p
  <2>10. Alike(p, task', room') BY <2>3, <2>6, <2>8, <2>9 DEF Alike
  <2>11. Stage(t, o, room') BY <1>2, <1>3, <2>3, <2>6 DEF Stage
  <2> QED BY <2>10, <2>11
<1>16. p = PairOf(task[o]) BY DEF p
<1>17. \A s \in Server : ChatRooms(room, s, p) \subseteq ChatRooms(room', s, p) BY <1>13
<1> QED BY <1>1, <1>2, <1>3, <1>11, <1>12, <1>14, <1>15, <1>16, <1>17, ChatStep

LEMMA ChatNext == Inv /\ ChatInv /\ [Next]_vars => ChatInv'
<1> SUFFICES ASSUME Inv, ChatInv, [Next]_vars PROVE ChatInv' OBVIOUS
<1>1. CASE UNCHANGED vars
  BY <1>1 DEF ChatInv, vars, ghosts
<1>2. ASSUME NEW o \in Task,
             \/ \E k \in {"register", "update"}, a \in Account : BeginKeys(o, k, a)
             \/ \E k \in {"lookup", "chat"}, a \in Account, n \in Name, h \in Address :
                  BeginAsk(o, k, a, n, h)
      PROVE  ChatInv'
  BY <1>2, BeginChats
<1>3. ASSUME NEW o \in Task, Step(o) PROVE ChatInv'
  BY <1>3, AccountChats, ResolveChats, HelloChats, SignChats, FindChats, MakeChats, OwnerChats,
     AddRoomChats, MembersChats DEF Step
<1>4. ASSUME NEW o \in Task, Lose(o) \/ GiveUp(o) PROVE ChatInv' BY <1>4, TroubleChats
<1>5. ASSUME NEW s \in Server, Crash(s) PROVE ChatInv' BY <1>5, CrashChats
<1>6. ASSUME NEW s \in Server, NEW t \in Server, NEW a \in Account, Introduce(s, t, a)
      PROVE  ChatInv'
  BY <1>6 DEF Introduce, ghosts, ChatInv
<1> QED BY <1>1, <1>2, <1>3, <1>4, <1>5, <1>6 DEF Next

LEMMA ChatsAreOne ==
  ASSUME Inv, ChatInv
  PROVE  OneChat
<1>1. ASSUME NEW a \in Account, NEW b \in Account, a # b, {a, b} \notin raced, NEW s \in Server
      PROVE  Cardinality(RoomsOf(s, {a, b})) <= 1
  <2>1. {a, b} \in Pairs \ raced BY <1>1 DEF Pairs
  <2>2. \A r, x \in ChatRooms(room, s, {a, b}) : r = x BY <2>1 DEF ChatInv, Alike
  <2>3. RoomsOf(s, {a, b}) = ChatRooms(room, s, {a, b}) BY DEF RoomsOf, ChatRooms
  <2> QED BY <2>2, <2>3, FoundSome
<1>2. ASSUME NEW o \in Task, task[o].kind = "chat", task[o].pc = "ok", Pair(o) \notin raced
      PROVE  \E r \in RoomsOf(At(o), Pair(o)) : r \in RoomsOf(To(o), Pair(o))
  <2>1. Stage(task[o], o, room) BY <1>2, Places DEF ChatInv
  <2> QED BY <1>2, <2>1, Places DEF Stage
<1> QED BY <1>1, <1>2 DEF OneChat

\* Two users have one chat, which both servers have as the same room once it was
\* granted, whoever asked for it and by whichever handle, unless it was asked for
\* twice at once or its mirror failed (create_personal_chat, federation_room_import).
THEOREM OneChatEach == Spec => []OneChat
<1>1. Init => Inv BY InitInv
<1>2. Inv /\ [Next]_vars => Inv' BY NextInv
<1>3. Inv /\ ChatInv => OneChat BY ChatsAreOne
<1> QED BY <1>1, <1>2, <1>3, ChatInit, ChatNext, PTL DEF Spec
=============================================================================
