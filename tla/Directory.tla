----------------------------- MODULE Directory ------------------------------
(***************************************************************************)
(* What home servers know of each other and of each other's users: the key *)
(* pair a server makes for itself, the keys it pins of others when it      *)
(* first hears of them, the rows of users it registers or looks up, and    *)
(* the personal chats that are opened between two users, with the mirror   *)
(* on the other's server (app/services/federation_service.py,              *)
(* app/routers/federation.py, auth_service.py and room_service.py).        *)
(*                                                                         *)
(* Everything here is found or else inserted, and others run between the   *)
(* look and the insert; a row that came first makes the insert fail.  A    *)
(* Task is one request of a client, with the requests to the other server  *)
(* that it makes.                                                          *)
(*                                                                         *)
(* A definition named "Bad..." is a deliberately wrong variant of the one  *)
(* below it; the properties are tested against these variants.             *)
(***************************************************************************)
EXTENDS Naturals, FiniteSets

CONSTANTS
    Server, Name,
    Address, Reaches,  \* host names, and Reaches[h], the server that answers there
    Before,            \* Before[a]: the keys of account a at the start, 0 if there is none
    Someone,           \* one of them
    Own,               \* Own[s]: the key pair of server s at the start, 0 if there is none
    Met,               \* <<s, t>>: server s knows server t at the start
    Cached,            \* <<s, a>>: server s has a row of account a of another server then
    Made,              \* key pairs generated before the start
    MaxTasks,          \* bound: requests of clients
    MaxLoad            \* bound: two for each of them, and one for each trouble, which
                       \* is a request that overlaps another, a lost one, a crash,
                       \* or a row that comes with a group room

Account == Name \X Server
Home(a) == a[2]
Task    == 1..MaxTasks
Key     == Nat                  \* 0 for none

ASSUME DirectoryAssumption ==
    /\ Server \subseteq Address
    /\ Reaches \in [Address -> Server]
    /\ \A s \in Server : Reaches[s] = s
    /\ {MaxTasks, MaxLoad} \subseteq Nat
    /\ Made \in Nat
    /\ Before \in [Account -> 0..Made] /\ Own \in [Server -> 0..Made]
    /\ Met \subseteq {x \in Server \X Server : x[1] # x[2] /\ Own[x[2]] # 0}
    /\ Cached \subseteq Server \X Account
    /\ Someone \in Account

VARIABLES
    key,        \* key[s]: the key pair in the row a server has of itself
    pin,        \* pin[s][t]: the key in the row server s has of server t
    row,        \* row[s][a]: the keys in the row server s has of account a
    room,       \* room[s]: the personal rooms and mirrors of server s
    task,
    made,       \* key pairs generated so far
    published,  \* published[a]: the keys the row of a had at home (history)
    raced,      \* pairs whose chat was asked for twice at once, or whose mirror
                \* was not confirmed (history)
    troubles

ghosts == <<published, raced>>
vars == <<key, pin, row, room, task, made, ghosts, troubles>>

Idle == [pc |-> "new", kind |-> "none", who |-> Someone, name |-> Someone[1],
         addr |-> Home(Someone), call |-> "lookup", side |-> "caller",
         key |-> 0, sig |-> 0, card |-> 0, left |-> FALSE]

Active(o) == task[o].pc \notin {"new", "ok", "error"}
At(o)     == Home(task[o].who)              \* the server that was asked
To(o)     == Reaches[task[o].addr]          \* the server it asks
Asked(o)  == <<task[o].name, To(o)>>
Pair(o)   == {task[o].who, Asked(o)}
Me(o)     == IF task[o].side = "caller" THEN At(o) ELSE To(o)
Other(o)  == IF task[o].side = "caller" THEN To(o) ELSE At(o)

\* The key in the row that s has of t; its row of itself is one of them.
Knows(s, t) == IF s = t THEN key[s] ELSE pin[s][t]

\* The other server is at work for the task.
Remote(o) ==
    \/ task[o].pc \in {"verify", "serve", "import", "addowner", "addroom", "members"}
    \/ task[o].side = "callee" /\ task[o].pc \in {"hello", "newkey", "pin", "addpin"}

Spend(n)   == 2 * Cardinality({o \in Task : task[o].pc # "new"}) + troubles + n <= MaxLoad
Trouble    == Spend(1) /\ troubles' = troubles + 1
Set(o, t)  == task' = [task EXCEPT ![o] = t]
Goto(o, p) == task' = [task EXCEPT ![o].pc = p]
Mirroring(o) == task[o].call = "import" /\ Active(o)

\* What is kept of a request that was granted: who is registered with which key,
\* or which chat was asked for.
Granted(t) == [t EXCEPT !.pc = "ok", !.key = IF t.kind = "register" THEN @ ELSE 0,
                        !.call = "lookup", !.side = "caller", !.sig = 0, !.card = 0, !.left = FALSE]
Grant(o)   == Set(o, Granted(task[o]))
Answered   == [Idle EXCEPT !.pc = "ok"]
Served(o)  == Set(o, Answered)

\* A request that fails leaves nothing; a chat is granted without its mirror, too,
\* when it is the other server, or the way to it, that fails to import the room.
Nothing == [Idle EXCEPT !.pc = "error"]
Error(o) == Set(o, Nothing)
Failed(t) == IF t.call = "import" THEN Granted(t) ELSE Nothing
Fails(o) ==
    /\ Set(o, IF Remote(o) THEN Failed(task[o]) ELSE Nothing)
    /\ raced' = IF Mirroring(o) THEN raced \cup {Pair(o)} ELSE raced

Init ==
    /\ key = Own
    /\ pin = [s \in Server |-> [t \in Server |-> IF <<s, t>> \in Met THEN Own[t] ELSE 0]]
    /\ row = [s \in Server |-> [a \in Account |->
                IF Home(a) = s \/ <<s, a>> \in Cached THEN Before[a] ELSE 0]]
    /\ room = [s \in Server |-> {}]
    /\ task = [o \in Task |-> Idle]
    /\ made = Made
    /\ published = [a \in Account |-> {Before[a]} \ {0}]
    /\ raced = {} /\ troubles = 0

Begin(o, t) ==
    /\ task[o].pc = "new" /\ \A p \in Task : p < o => task[p].pc # "new"
    /\ Set(o, t)
    /\ IF \E p \in Task : Active(p)
         THEN Spend(3) /\ troubles' = troubles + 1
         ELSE Spend(2) /\ UNCHANGED troubles
    /\ UNCHANGED <<key, pin, row, room, published>>

-----------------------------------------------------------------------------
(* Accounts.                                                                *)

\* A user generates a key pair, to register or in place of the one there is.
BeginKeys(o, k, a) ==
    /\ k = "update" => row[Home(a)][a] # 0
    /\ Begin(o, [Idle EXCEPT !.pc = k, !.kind = k, !.who = a, !.key = made + 1])
    /\ made' = made + 1 /\ UNCHANGED raced

\* register_user looks for the name.
Taken(o) ==
    /\ task[o].pc = "register"
    /\ IF row[At(o)][task[o].who] # 0 THEN Error(o) ELSE Goto(o, "insert")
    /\ UNCHANGED <<key, pin, row, room, made, ghosts, troubles>>

BadInsert(o) ==
    /\ task[o].pc = "insert"
    /\ Grant(o)
    /\ IF row[At(o)][task[o].who] # 0
         THEN UNCHANGED <<row, published>>
         ELSE /\ row' = [row EXCEPT ![At(o)][task[o].who] = task[o].key]
              /\ published' = [published EXCEPT ![task[o].who] = @ \cup {task[o].key}]
    /\ UNCHANGED <<key, pin, room, made, raced, troubles>>

\* The row of register_user; the unique name refuses a second one.
Insert(o) ==
    /\ task[o].pc = "insert"
    /\ IF row[At(o)][task[o].who] # 0
         THEN Error(o) /\ UNCHANGED <<row, published>>
         ELSE /\ Grant(o)
              /\ row' = [row EXCEPT ![At(o)][task[o].who] = task[o].key]
              /\ published' = [published EXCEPT ![task[o].who] = @ \cup {task[o].key}]
    /\ UNCHANGED <<key, pin, room, made, raced, troubles>>

\* update_my_public_keys; the copies on other servers stay as they are.
Update(o) ==
    /\ task[o].pc = "update"
    /\ Served(o)
    /\ row' = [row EXCEPT ![At(o)][task[o].who] = task[o].key]
    /\ published' = [published EXCEPT ![task[o].who] = @ \cup {task[o].key}]
    /\ UNCHANGED <<key, pin, room, made, raced, troubles>>

-----------------------------------------------------------------------------
(* resolve_user.                                                            *)

\* A user asks for the keys of another, or for the chat with him, by a handle.
BeginAsk(o, k, a, n, h) ==
    /\ row[Home(a)][a] # 0
    /\ LET t == [Idle EXCEPT !.pc = "resolve", !.kind = k, !.who = a, !.name = n, !.addr = h]
           Same(p) == Active(p) /\ task[p].kind = "chat" /\ Pair(p) = {a, <<n, Reaches[h]>>}
       IN  /\ Begin(o, t)
           /\ raced' = IF k = "chat" /\ \E p \in Task : Same(p)
                         THEN raced \cup {{a, <<n, Reaches[h]>>}} ELSE raced
    /\ UNCHANGED made

\* The answer to a lookup is the row.
Resolved(o) == IF task[o].kind = "chat" THEN Goto(o, "find") ELSE Served(o)

\* The handle is local, or there is a row of the user, or a row of the server.
Resolve(o) ==
    /\ task[o].pc = "resolve"
    /\ LET h == task[o].addr
           a == <<task[o].name, h>>
       IN  \/ h \in Server /\ row[At(o)][a] # 0 /\ Resolved(o)
           \/ h = At(o) /\ row[At(o)][a] = 0 /\ Error(o)
           \/ /\ h \in Server \ {At(o)} /\ row[At(o)][a] = 0 /\ pin[At(o)][h] # 0
              /\ Goto(o, "sign")
           \/ /\ h # At(o)
              /\ h \in Server => row[At(o)][a] = 0 /\ pin[At(o)][h] = 0
              /\ Goto(o, "hello")
    /\ UNCHANGED <<key, pin, row, room, made, ghosts, troubles>>

\* _discover_server, by the caller or in verify_request: federation_hello runs
\* at the other server, and makes that server's key pair if it has none.
Hello(o) ==
    /\ task[o].pc = "hello"
    /\ IF key[Other(o)] # 0
         THEN Set(o, [task[o] EXCEPT !.pc = "pin", !.key = key[Other(o)]])
         ELSE Goto(o, "newkey")
    /\ UNCHANGED <<key, pin, row, room, made, ghosts, troubles>>

BadNewKey(o) ==
    /\ task[o].pc = "newkey"
    /\ key' = [key EXCEPT ![Other(o)] = IF @ # 0 THEN @ ELSE made + 1] /\ made' = made + 1
    /\ Set(o, [task[o] EXCEPT !.pc = "pin", !.key = made + 1])
    /\ UNCHANGED <<pin, row, room, ghosts, troubles>>

\* get_local_server after it found no row.
NewKey(o) ==
    /\ task[o].pc = "newkey"
    /\ IF key[Other(o)] # 0
         THEN Fails(o) /\ UNCHANGED <<key, made>>
         ELSE /\ key' = [key EXCEPT ![Other(o)] = made + 1] /\ made' = made + 1
              /\ Set(o, [task[o] EXCEPT !.pc = "pin", !.key = made + 1])
              /\ UNCHANGED raced
    /\ UNCHANGED <<pin, row, room, published, troubles>>

\* What the server was looked up for.
AfterPin(o) ==
    IF task[o].side = "callee" THEN "verify"
    ELSE IF task[o].call = "lookup" THEN "known" ELSE "sign"

Pin(o) ==
    /\ task[o].pc = "pin"
    /\ Goto(o, IF Knows(Me(o), Other(o)) # 0 THEN AfterPin(o) ELSE "addpin")
    /\ UNCHANGED <<key, pin, row, room, made, ghosts, troubles>>

\* The row is keyed by the name the server gives itself, whatever it was called.
AddPin(o) ==
    /\ task[o].pc = "addpin"
    /\ IF Knows(Me(o), Other(o)) # 0
         THEN Fails(o) /\ UNCHANGED pin
         ELSE /\ pin' = [pin EXCEPT ![Me(o)][Other(o)] = task[o].key]
              /\ Goto(o, AfterPin(o))
              /\ UNCHANGED raced
    /\ UNCHANGED <<key, row, room, made, published, troubles>>

\* The user may have a row under the server's own name.
Known(o) ==
    /\ task[o].pc = "known"
    /\ IF row[At(o)][Asked(o)] # 0 /\ task[o].addr # To(o) THEN Resolved(o) ELSE Goto(o, "sign")
    /\ UNCHANGED <<key, pin, row, room, made, ghosts, troubles>>

-----------------------------------------------------------------------------
(* A signed request to the other server.                                    *)

\* _sign_headers; a server that was not asked for its key yet makes one.
Sign(o) ==
    /\ task[o].pc = "sign"
    /\ IF key[At(o)] # 0
         THEN Set(o, [task[o] EXCEPT !.pc = "verify", !.sig = key[At(o)]])
         ELSE Goto(o, "ownkey")
    /\ UNCHANGED <<key, pin, row, room, made, ghosts, troubles>>

OwnKey(o) ==
    /\ task[o].pc = "ownkey"
    /\ IF key[At(o)] # 0
         THEN Fails(o) /\ UNCHANGED <<key, made>>
         ELSE /\ key' = [key EXCEPT ![At(o)] = made + 1] /\ made' = made + 1
              /\ Set(o, [task[o] EXCEPT !.pc = "verify", !.sig = made + 1])
              /\ UNCHANGED raced
    /\ UNCHANGED <<pin, row, room, published, troubles>>

Handler(o) == IF task[o].call = "lookup" THEN "serve" ELSE "import"

\* verify_request: the sender's key is looked up, with a hello to him if need be.
Verify(o) ==
    /\ task[o].pc = "verify"
    /\ LET known == Knows(To(o), At(o))
       IN  \/ known = 0
              /\ Set(o, [task[o] EXCEPT !.pc = "hello", !.side = "callee"])
              /\ UNCHANGED raced
           \/ known # 0 /\ known = task[o].sig
              /\ Goto(o, Handler(o)) /\ UNCHANGED raced
           \/ known # 0 /\ known # task[o].sig /\ Fails(o)
    /\ UNCHANGED <<key, pin, row, room, made, published, troubles>>

BadServe(o) ==
    /\ task[o].pc = "serve"
    /\ \E s \in Server :
         /\ row[To(o)][<<task[o].name, s>>] # 0
         /\ Set(o, [task[o] EXCEPT !.pc = "cache", !.key = row[To(o)][<<task[o].name, s>>]])
    /\ UNCHANGED <<key, pin, row, room, made, ghosts, troubles>>

\* federation_user_lookup: a user of that name and of this server.
Serve(o) ==
    /\ task[o].pc = "serve"
    /\ LET k == row[To(o)][Asked(o)]
       IN  IF k # 0 /\ ~task[o].left
             THEN Set(o, [task[o] EXCEPT !.pc = "cache", !.key = k])
             ELSE Error(o)
    /\ UNCHANGED <<key, pin, row, room, made, ghosts, troubles>>

\* cache_remote_user: a row there is stays as it is.
Cache(o) ==
    /\ task[o].pc = "cache"
    /\ IF row[At(o)][Asked(o)] # 0 THEN Resolved(o) ELSE Goto(o, "addrow")
    /\ UNCHANGED <<key, pin, row, room, made, ghosts, troubles>>

BadAddRow(o) ==
    /\ task[o].pc = "addrow"
    /\ Resolved(o) /\ row' = [row EXCEPT ![At(o)][Asked(o)] = task[o].name]
    /\ UNCHANGED <<key, pin, room, made, ghosts, troubles>>

AddRow(o) ==
    /\ task[o].pc = "addrow"
    /\ IF row[At(o)][Asked(o)] # 0
         THEN Error(o) /\ UNCHANGED row
         ELSE Resolved(o) /\ row' = [row EXCEPT ![At(o)][Asked(o)] = task[o].key]
    /\ UNCHANGED <<key, pin, room, made, ghosts, troubles>>

-----------------------------------------------------------------------------
(* create_personal_chat.                                                    *)

Chats(s, p) == {r \in room[s] : p \subseteq r.with}

\* The query of create_personal_chat.  A second room of the pair makes scalar_one_or_none raise.
Find(o) ==
    /\ task[o].pc = "find"
    /\ LET found == Cardinality(Chats(At(o), Pair(o)))
       IN  \/ (Cardinality(Pair(o)) = 1 \/ found > 1) /\ Error(o)
           \/ Cardinality(Pair(o)) = 2 /\ found = 0 /\ Goto(o, "make")
           \/ Cardinality(Pair(o)) = 2 /\ found = 1 /\ Grant(o)
    /\ UNCHANGED <<key, pin, row, room, made, ghosts, troubles>>

\* The room and both members are committed; then the other's server is asked to
\* import it, with the keys this server has of the user.  It need not be known: the
\* other's row may have come with a group room of a third server.
Make(o) ==
    /\ task[o].pc = "make"
    /\ room' = [room EXCEPT ![At(o)] = @ \cup {[host |-> At(o), id |-> o, with |-> Pair(o)]}]
    /\ IF To(o) = At(o)
         THEN Grant(o)
         ELSE Set(o, [task[o] EXCEPT !.pc = IF pin[At(o)][To(o)] # 0 THEN "sign" ELSE "hello",
                                     !.call = "import", !.side = "caller",
                                     !.card = row[At(o)][task[o].who]])
    /\ UNCHANGED <<key, pin, row, made, ghosts, troubles>>

\* federation_room_import of a room that has no mirror here: its owner first.
Import(o) ==
    /\ task[o].pc = "import"
    /\ Goto(o, IF row[To(o)][task[o].who] # 0 THEN "addroom" ELSE "addowner")
    /\ UNCHANGED <<key, pin, row, room, made, ghosts, troubles>>

AddOwner(o) ==
    /\ task[o].pc = "addowner"
    /\ IF row[To(o)][task[o].who] # 0
         THEN Fails(o) /\ UNCHANGED row
         ELSE /\ row' = [row EXCEPT ![To(o)][task[o].who] = task[o].card]
              /\ Goto(o, "addroom") /\ UNCHANGED raced
    /\ UNCHANGED <<key, pin, room, made, published, troubles>>

AddRoom(o) ==
    /\ task[o].pc = "addroom"
    /\ room' = [room EXCEPT ![To(o)] = @ \cup {[host |-> At(o), id |-> o, with |-> {}]}]
    /\ Goto(o, "members")
    /\ UNCHANGED <<key, pin, row, made, ghosts, troubles>>

BadMembers(o) ==
    /\ task[o].pc = "members"
    /\ room' = [room EXCEPT ![To(o)] =
         {IF r.host = At(o) /\ r.id = o THEN [r EXCEPT !.with = {task[o].who}] ELSE r : r \in @}]
    /\ Grant(o)
    /\ UNCHANGED <<key, pin, row, made, ghosts, troubles>>

\* _add_room_members.
Members(o) ==
    /\ task[o].pc = "members"
    /\ room' = [room EXCEPT ![To(o)] =
         {IF r.host = At(o) /\ r.id = o THEN [r EXCEPT !.with = Pair(o)] ELSE r : r \in @}]
    /\ Grant(o)
    /\ UNCHANGED <<key, pin, row, made, ghosts, troubles>>

-----------------------------------------------------------------------------
(* Group rooms (module Roster has their rosters).                           *)

\* A roster, a membership event or the author of a message that server s sends to
\* t, which knows s, names account a with the keys that s has, or had a moment
\* ago.  The home of a may be a third server that t never heard of.
Introduce(s, t, a) ==
    /\ pin[s][t] # 0 /\ pin[t][s] # 0 /\ pin[t][s] = key[s]
    /\ Home(a) # t /\ row[s][a] # 0 /\ row[t][a] = 0
    /\ \E k \in IF Home(a) = s THEN published[a] ELSE {row[s][a]} :
         row' = [row EXCEPT ![t][a] = k]
    /\ Trouble
    /\ UNCHANGED <<key, pin, room, task, made, ghosts>>

-----------------------------------------------------------------------------
(* Trouble.                                                                 *)

\* A request to the other server does not arrive, or runs into its time limit.
Lose(o) ==
    /\ task[o].pc \in {"hello", "verify"} /\ ~task[o].left /\ Trouble
    /\ Fails(o)
    /\ UNCHANGED <<key, pin, row, room, made, published>>

\* The caller waits no more, and the other server goes on.
GiveUp(o) ==
    /\ Remote(o) /\ ~task[o].left /\ Trouble
    /\ Set(o, [task[o] EXCEPT !.left = TRUE])
    /\ raced' = IF Mirroring(o) THEN raced \cup {Pair(o)} ELSE raced
    /\ UNCHANGED <<key, pin, row, room, made, published>>

\* The process of server s ends and starts again.
Crash(s) ==
    /\ Trouble
    /\ LET Hit(o)  == Active(o) /\ (At(o) = s \/ (Remote(o) /\ To(o) = s))
           Lost(o) == IF At(o) # s THEN Failed(task[o])
                      ELSE IF Remote(o) /\ To(o) # s THEN [task[o] EXCEPT !.left = TRUE]
                      ELSE Nothing
           hit == {o \in Task : Hit(o)}
       IN  /\ hit # {}
           /\ task' = [o \in Task |-> IF o \in hit THEN Lost(o) ELSE task[o]]
           /\ raced' = raced \cup {Pair(o) : o \in {p \in hit : Mirroring(p)}}
    /\ UNCHANGED <<key, pin, row, room, made, published>>

Step(o) ==
    \/ Taken(o) \/ Insert(o) \/ Update(o)
    \/ Resolve(o) \/ Hello(o) \/ NewKey(o) \/ Pin(o) \/ AddPin(o) \/ Known(o)
    \/ Sign(o) \/ OwnKey(o) \/ Verify(o) \/ Serve(o) \/ Cache(o) \/ AddRow(o)
    \/ Find(o) \/ Make(o) \/ Import(o) \/ AddOwner(o) \/ AddRoom(o) \/ Members(o)

Next ==
    \/ \E o \in Task :
         \/ \E k \in {"register", "update"}, a \in Account : BeginKeys(o, k, a)
         \/ \E k \in {"lookup", "chat"}, a \in Account, n \in Name, h \in Address :
              BeginAsk(o, k, a, n, h)
         \/ Step(o) \/ Lose(o) \/ GiveUp(o)
    \/ \E s, t \in Server, a \in Account : Introduce(s, t, a)
    \/ \E s \in Server : Crash(s)

Spec == Init /\ [][Next]_vars

-----------------------------------------------------------------------------
Phase == {"new", "ok", "error", "register", "insert", "update", "resolve", "hello", "newkey", "pin",
          "addpin", "known", "sign", "ownkey", "verify", "serve", "cache", "addrow", "find",
          "make", "import", "addowner", "addroom", "members"}

\* Every variable keeps to its type.
TypeOK ==
    /\ key \in [Server -> Key]
    /\ pin \in [Server -> [Server -> Key]]
    /\ row \in [Server -> [Account -> Key]]
    /\ room \in [Server -> SUBSET [host : Server, id : Task, with : SUBSET Account]]
    /\ task \in [Task -> [pc : Phase, kind : {"none", "register", "update", "lookup", "chat"},
                          who : Account, name : Name, addr : Address,
                          call : {"lookup", "import"}, side : {"caller", "callee"},
                          key : Key, sig : Key, card : Key, left : BOOLEAN]]
    /\ made \in Key
    /\ published \in [Account -> SUBSET Key]
    /\ raced \in SUBSET SUBSET Account
    /\ troubles \in 0..MaxLoad

\* However many first contacts meet, a pinned key is the one the other server
\* signs with from then on, and so is the one in any signature on its way.
PinsAreReal ==
    /\ \A s, t \in Server : pin[s][t] \in {0, key[t]}
    /\ \A o \in Task : task[o].sig \in {0, key[At(o)]}

\* The keys a server has of an account are keys of that account, not of one of the
\* same name elsewhere, whether they were looked up, came with a chat, or were
\* passed on by a server that had them from another.
CachedKeysAreGenuine ==
    \A s \in Server, a \in Account : row[s][a] # 0 => row[s][a] \in published[a]

\* A client that was told it is registered is so with the keys it sent.
RegisteredIsStored ==
    \A o \in Task : task[o].kind = "register" /\ task[o].pc = "ok" =>
        task[o].key \in published[task[o].who]

RoomsOf(s, p) == {r \in room[s] : p \subseteq r.with}

\* Two users have one chat, on either server, whoever asks for it and by whichever
\* handle; and once it was granted both servers have it, as the same room: unless
\* it was asked for twice at once or its mirror failed.
OneChat ==
    /\ \A a, b \in Account : a # b /\ {a, b} \notin raced =>
         \A s \in Server : Cardinality(RoomsOf(s, {a, b})) <= 1
    /\ \A o \in Task : task[o].kind = "chat" /\ task[o].pc = "ok" /\ Pair(o) \notin raced =>
         \E r \in RoomsOf(At(o), Pair(o)) : r \in RoomsOf(To(o), Pair(o))
=============================================================================
