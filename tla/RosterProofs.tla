---------------------------- MODULE RosterProofs ----------------------------
(***************************************************************************)
(* Proofs about Roster: every variable keeps to its type, an import that   *)
(* ran undisturbed heals its mirror, and without troubles the mirrors      *)
(* follow the host, for any servers, users, requests and troubles.         *)
(*                                                                         *)
(* Why it holds: an op sends one import, with the roster as it is after    *)
(* its own commit (Imports), and tells the mirrors of an addition only     *)
(* when the import is over (Confirmed); while it is alone, nothing else    *)
(* changes the host's roster or writes to a mirror (Undisturbed).  Without *)
(* troubles one op at most is under way, and what is on the network is the *)
(* request it waits for (OneAtATime, Requests); a mirror server has one    *)
(* room, the one the host has linked (OneRoom); and a mirror that          *)
(* disagrees is one the op still has to tell, or is being filled (Synced). *)
(***************************************************************************)
EXTENDS Roster, FiniteSetTheorems, TLAPS

\* An import that fills a room has found or created it.
Filling ==
  \A j \in imports : j.stage = "fill" => j.room # 0 /\ owner[j.to][j.room] # None

\* An op sends one import, when it is past its commit, and only to invite.
Imports ==
  /\ \A o \in Op : pc[o] = "mirrors" => kind[o] = "invite"
  /\ \A j \in imports : pc[j.op] \notin {"new", "commit", "mirrors"} /\ kind[j.op] = "invite"
  /\ \A i, j \in imports : i.op = j.op => i = j

\* An import that was confirmed is over.
Confirmed ==
  \A o \in Op : imported[o] # Host =>
    /\ pc[o] \notin {"new", "commit", "mirrors", "import"} /\ kind[o] = "invite"
    /\ \A j \in imports : j.op # o

\* While an op is alone, what is under way is its own, the host's roster does not
\* change once it is past its commit, and the mirror it filled agrees.
Undisturbed(o) ==
  /\ pc[o] # "new" /\ \A p \in Op \ {o} : ~Active(p)
  /\ \A r \in events : r.op = o
  /\ \A j \in imports : j.op = o /\ j.snap = hosted
  /\ kind[o] = "invite" /\ pc[o] # "commit" => who[o] \in hosted
  /\ imported[o] # Host => Agrees(imported[o], link[imported[o]])

Aloneness == \A o \in Op : alone[o] => Undisturbed(o)

TypeInv == TypeOK /\ Filling
Flow == Imports /\ Confirmed

-----------------------------------------------------------------------------
(* Types.                                                                   *)

LEMMA GotoType ==
  ASSUME pc \in [Op -> Phase], NEW o \in Op, NEW f \in Phase, Goto(o, f)
  PROVE  pc' \in [Op -> Phase]
BY DEF Goto

LEMMA AfterType ==
  ASSUME pc \in [Op -> Phase], NEW o \in Op, AfterMirrors(o)
  PROVE  pc' \in [Op -> Phase]
<1>1. {"links", "done"} \subseteq Phase BY DEF Phase
<1> QED BY <1>1, GotoType DEF AfterMirrors

LEMMA OverType ==
  ASSUME pc \in [Op -> Phase]
  PROVE  /\ \A j \in Import : ImportOver(j) => pc' \in [Op -> Phase]
         /\ \A r \in Event : EventOver(r) => pc' \in [Op -> Phase]
<1>1. ASSUME NEW j \in Import, ImportOver(j) PROVE pc' \in [Op -> Phase]
  BY <1>1, AfterType DEF ImportOver, Import
<1>2. ASSUME NEW r \in Event, EventOver(r) PROVE pc' \in [Op -> Phase]
  <2>1. "relay" \in Phase BY DEF Phase
  <2> QED BY <1>2, <2>1, GotoType DEF EventOver, Event
<1> QED BY <1>1, <1>2

LEMMA TroubleType ==
  ASSUME TypeOK, Trouble PROVE troubles' \in 0..MaxTroubles
BY RosterAssumption DEF TypeOK, Trouble

LEMMA TypeInit == Init => TypeInv
<1> SUFFICES ASSUME Init PROVE TypeInv OBVIOUS
<1>1. TypeOK
  BY RosterAssumption DEF Init, TypeOK, Phase, Kind, Mirrors, Local
<1>2. Filling BY DEF Init, Filling
<1> QED BY <1>1, <1>2 DEF TypeInv

\* The tables, the imports and the requests of one op.
LEMMA RunType ==
  ASSUME TypeInv, NEW o \in Op, Run(o) \/ NotDiscovered(o) \/ GiveUp(o)
  PROVE  TypeInv'
<1> USE DEF TypeInv
<1>1. CASE Commit(o)
  <2>1. {"dead", "mirrors", "links"} \subseteq Phase BY DEF Phase
  <2>2. pc' \in [Op -> Phase] BY <1>1, <2>1, GotoType DEF Commit, TypeOK
  <2>3. hosted' \subseteq User BY <1>1 DEF Commit, TypeOK
  <2> QED BY <1>1, <2>2, <2>3 DEF Commit, TypeOK, Filling, ops, net
<1>2. CASE SendImport(o)
  <2> DEFINE j == [op |-> o, to |-> Home[who[o]], snap |-> hosted,
                   room |-> 0, stage |-> "sent", seen |-> {}]
  <2>1. Home[who[o]] \in Server /\ Home[who[o]] \in Mirrors
    BY <1>2, RosterAssumption DEF SendImport, TypeOK, Mirrors
  <2>2. j \in Import BY <2>1 DEF Import, TypeOK
  <2>3. pc' \in [Op -> Phase] BY <1>2, GotoType DEF SendImport, TypeOK, Phase
  <2>4. imports' = imports \cup {j} /\ j.stage = "sent" BY <1>2 DEF SendImport
  <2> HIDE DEF j
  <2>5. Filling' BY <1>2, <2>4 DEF SendImport, Filling, tables
  <2>6. asked' \in [Op -> Server] BY <1>2, <2>1 DEF SendImport, TypeOK
  <2> QED BY <1>2, <2>2, <2>3, <2>4, <2>5, <2>6 DEF SendImport, TypeOK, tables
<1>3. CASE NoMirrorNeeded(o)
  <2>1. pc' \in [Op -> Phase] BY <1>3, AfterType DEF NoMirrorNeeded, TypeOK
  <2> QED BY <1>3, <2>1 DEF NoMirrorNeeded, TypeOK, Filling, tables, ops, net
<1>4. CASE Links(o)
  <2>1. pc' \in [Op -> Phase] BY <1>4, GotoType DEF Links, TypeOK, Phase
  <2>2. {<<m, link[m]>> : m \in {x \in Mirrors : link[x] # 0}} \in SUBSET (Mirrors \X MirrorRoom)
    BY DEF TypeOK
  <2>3. todo' \in [Op -> SUBSET (Mirrors \X MirrorRoom)] BY <1>4, <2>2 DEF Links, TypeOK
  <2> QED BY <1>4, <2>1, <2>3 DEF Links, TypeOK, Filling, tables, net
<1>5. CASE Tell(o)
  <2>1. pc' \in [Op -> Phase] BY <1>5, GotoType DEF Tell, TypeOK, Phase
  <2>2. PICK x \in todo[o] :
          /\ todo' = [todo EXCEPT ![o] = @ \ {x}]
          /\ asked' = [asked EXCEPT ![o] = x[1]]
          /\ events' = events \cup {[op |-> o, to |-> x[1], room |-> x[2]]}
    BY <1>5 DEF Tell
  <2>3. x \in Mirrors \X MirrorRoom BY DEF TypeOK
  <2>4. todo' \in [Op -> SUBSET (Mirrors \X MirrorRoom)] BY <2>2 DEF TypeOK
  <2>5. asked' \in [Op -> Server] BY <2>2, <2>3 DEF TypeOK, Mirrors
  <2>6. events' \subseteq Event BY <2>2, <2>3 DEF TypeOK, Event
  <2> QED BY <1>5, <2>1, <2>4, <2>5, <2>6 DEF Tell, TypeOK, Filling, tables
<1>6. CASE End(o)
  <2>1. pc' \in [Op -> Phase] BY <1>6, GotoType DEF End, TypeOK, Phase
  <2> QED BY <1>6, <2>1 DEF End, TypeOK, Filling, tables, ops, net
<1>7. CASE NotDiscovered(o)
  <2>1. pc' \in [Op -> Phase] BY <1>7, GotoType DEF NotDiscovered, TypeOK, Phase
  <2>2. troubles' \in 0..MaxTroubles BY <1>7, TroubleType DEF NotDiscovered
  <2> QED BY <1>7, <2>1, <2>2 DEF NotDiscovered, TypeOK, Filling, tables, ops, net
<1>8. CASE GiveUp(o)
  <2>1. "relay" \in Phase BY DEF Phase
  <2>2. pc' \in [Op -> Phase] BY <1>8, <2>1, GotoType, AfterType DEF GiveUp, TypeOK
  <2>3. troubles' \in 0..MaxTroubles BY <1>8, TroubleType DEF GiveUp
  <2> QED BY <1>8, <2>2, <2>3 DEF GiveUp, TypeOK, Filling, tables, ops, net
<1> QED BY <1>1, <1>2, <1>3, <1>4, <1>5, <1>6, <1>7, <1>8 DEF Run

LEMMA BeginType ==
  ASSUME TypeInv, NEW o \in Op, NEW k \in Kind, NEW u \in User, Begin(o, k, u)
  PROVE  TypeInv'
<1> USE DEF TypeInv
<1>1. {"mirrors", "commit"} \subseteq Phase BY DEF Phase
<1>2. pc' \in [Op -> Phase] BY <1>1, GotoType DEF Begin, TypeOK
<1>3. troubles' \in 0..MaxTroubles BY TroubleType DEF Begin, TypeOK
<1>4. kind' \in [Op -> Kind] /\ who' \in [Op -> User] /\ fresh' \in [Op -> BOOLEAN]
  BY DEF Begin, TypeOK
<1>5. alone' \in [Op -> BOOLEAN] BY DEF Begin
<1> QED BY <1>2, <1>3, <1>4, <1>5 DEF Begin, TypeOK, Filling, tables, net

LEMMA EventType ==
  ASSUME TypeInv, NEW r \in events, Apply(r) \/ LoseEvent(r)
  PROVE  TypeInv'
<1> USE DEF TypeInv
<1>1. r \in Event BY DEF TypeOK
<1>2. pc' \in [Op -> Phase] BY <1>1, OverType DEF Apply, LoseEvent, TypeOK
<1>3. events' \subseteq Event BY DEF Apply, LoseEvent, TypeOK
<1>4. CASE Apply(r)
  <2>1. who[r.op] \in User /\ r.to \in Mirrors /\ r.room \in MirrorRoom
    BY <1>1 DEF Event, TypeOK
  <2>2. roster' \in [Mirrors -> [MirrorRoom -> SUBSET User]] BY <1>4, <2>1 DEF Apply, TypeOK
  <2>3. cached' \in [Mirrors -> SUBSET User] BY <1>4, <2>1 DEF Apply, TypeOK
  <2> QED BY <1>2, <1>3, <1>4, <2>2, <2>3 DEF Apply, TypeOK, Filling, ops
<1>5. CASE LoseEvent(r)
  <2>1. troubles' \in 0..MaxTroubles BY <1>5, TroubleType DEF LoseEvent
  <2> QED BY <1>2, <1>3, <1>5, <2>1 DEF LoseEvent, TypeOK, Filling, tables, ops
<1> QED BY <1>4, <1>5

\* An import goes on as another record.
LEMMA BecomesType ==
  ASSUME TypeInv, NEW j \in imports, NEW k \in Import, Becomes(j, k),
         NEW w, w = owner', \A m \in Mirrors, i \in MirrorRoom :
           owner[m][i] # None => w[m][i] # None,
         k.stage = "fill" => k.room # 0 /\ w[k.to][k.room] # None
  PROVE  imports' \subseteq Import /\ Filling'
<1>1. imports \subseteq Import BY DEF TypeInv, TypeOK
<1>2. imports' \subseteq Import BY <1>1 DEF Becomes
<1>3. ASSUME NEW i \in imports', i.stage = "fill"
      PROVE  i.room # 0 /\ owner'[i.to][i.room] # None
  <2>1. CASE i = k BY <1>3, <2>1
  <2>2. CASE i # k
    <3>1. i \in imports BY <2>2 DEF Becomes
    <3>2. i.room # 0 /\ owner[i.to][i.room] # None BY <1>3, <3>1 DEF TypeInv, Filling
    <3>3. i.to \in Mirrors /\ i.room \in MirrorRoom BY <1>1, <3>1, <3>2 DEF Import
    <3> QED BY <3>2, <3>3
  <2> QED BY <2>1, <2>2
<1> QED BY <1>2, <1>3 DEF Filling

LEMMA LessFilling ==
  ASSUME TypeInv, imports' \subseteq imports, UNCHANGED owner
  PROVE  imports' \subseteq Import /\ Filling'
BY DEF TypeInv, TypeOK, Filling

LEMMA FindType ==
  ASSUME TypeInv, NEW j \in imports, Find(j)
  PROVE  TypeInv'
<1>1. j \in Import /\ imports \subseteq Import BY DEF TypeInv, TypeOK
<1>2. pc' \in [Op -> Phase] BY <1>1, OverType DEF Find, TypeInv, TypeOK
<1>3. UNCHANGED <<tables, ops, events, alone, troubles>> BY DEF Find
<1>4. imports' \subseteq Import /\ Filling'
  <2>1. CASE Becomes(j, [j EXCEPT !.stage = "create"])
    <3> DEFINE k == [j EXCEPT !.stage = "create"]
    <3>1. k \in Import /\ k.stage = "create" BY <1>1 DEF Import
    <3>2. Becomes(j, k) BY <2>1
    <3> HIDE DEF k
    <3> QED BY <1>3, <3>1, <3>2, BecomesType DEF tables
  <2>2. CASE \E i \in Rooms(j.to) : Becomes(j, [j EXCEPT !.stage = "fill", !.room = i])
    <3>1. PICK i \in Rooms(j.to) : Becomes(j, [j EXCEPT !.stage = "fill", !.room = i])
      BY <2>2
    <3> DEFINE k == [j EXCEPT !.stage = "fill", !.room = i]
    <3>2. i \in MirrorRoom /\ owner[j.to][i] # None BY DEF Rooms
    <3>3. i # 0 BY <3>2 DEF MirrorRoom, Op
    <3>4. k \in Import /\ k.room = i /\ k.to = j.to BY <1>1, <3>2 DEF Import
    <3>5. Becomes(j, k) BY <3>1
    <3> HIDE DEF k
    <3> QED BY <1>3, <3>2, <3>3, <3>4, <3>5, BecomesType DEF tables
  <2>3. CASE imports' = imports \ {j} BY <1>3, <2>3, LessFilling DEF tables
  <2> QED BY <2>1, <2>2, <2>3 DEF Find
<1> QED BY <1>2, <1>3, <1>4 DEF TypeInv, TypeOK, tables, ops

LEMMA CreateType ==
  ASSUME TypeInv, NEW j \in imports, Create(j)
  PROVE  TypeInv'
<1>1. j \in Import /\ imports \subseteq Import BY DEF TypeInv, TypeOK
<1>2. j.to \in Mirrors /\ j.op \in MirrorRoom /\ j.snap \subseteq User
  BY <1>1 DEF Import, MirrorRoom
<1>3. PICK w \in j.snap :
        /\ owner' = [owner EXCEPT ![j.to][j.op] = w]
        /\ cached' = [cached EXCEPT ![j.to] = @ \cup {w}]
  BY DEF Create
<1>4. w \in User /\ w # None BY <1>2, RosterAssumption
<1>5. /\ owner' \in [Mirrors -> [MirrorRoom -> User \cup {None}]]
      /\ cached' \in [Mirrors -> SUBSET User]
      /\ owner'[j.to][j.op] # None
      /\ \A m \in Mirrors, i \in MirrorRoom : owner[m][i] # None => owner'[m][i] # None
  BY <1>2, <1>3, <1>4 DEF TypeInv, TypeOK
<1> DEFINE k == [j EXCEPT !.stage = "fill", !.room = j.op]
<1>a. j.op # 0 BY <1>2 DEF MirrorRoom, Op
<1>6. k \in Import /\ k.to = j.to /\ k.room = j.op BY <1>1, <1>2 DEF Import
<1>7. Becomes(j, k) BY DEF Create
<1> HIDE DEF k
<1>8. imports' \subseteq Import /\ Filling' BY <1>5, <1>6, <1>7, <1>a, BecomesType
<1> QED BY <1>5, <1>8 DEF Create, TypeInv, TypeOK, ops

LEMMA FillPartlyType ==
  ASSUME TypeInv, NEW j \in imports, FillPartly(j)
  PROVE  TypeInv'
<1>1. j \in Import /\ imports \subseteq Import /\ j.stage = "fill"
  BY DEF TypeInv, TypeOK, FillPartly
<1>2. /\ j.to \in Mirrors /\ j.room \in MirrorRoom /\ j.snap \subseteq User
      /\ j.seen \subseteq User /\ j.room # 0 /\ owner[j.to][j.room] # None
  BY <1>1 DEF Import, TypeInv, Filling
<1>3. PICK u \in j.snap \ (j.seen \cup cached[j.to]),
           more \in SUBSET ((j.snap \cap cached[j.to]) \ j.seen) :
        /\ roster' = [roster EXCEPT ![j.to][j.room] = j.seen \cup more]
        /\ cached' = [cached EXCEPT ![j.to] = @ \cup {u}]
        /\ Becomes(j, [j EXCEPT !.seen = @ \cup more \cup {u}])
  BY DEF FillPartly
<1>4. u \in User /\ more \subseteq User BY <1>2
<1>5. roster' \in [Mirrors -> [MirrorRoom -> SUBSET User]]
  BY <1>2, <1>3, <1>4 DEF TypeInv, TypeOK
<1>6. cached' \in [Mirrors -> SUBSET User] BY <1>2, <1>3, <1>4 DEF TypeInv, TypeOK
<1> DEFINE k == [j EXCEPT !.seen = @ \cup more \cup {u}]
<1>7. k \in Import /\ k.to = j.to /\ k.room = j.room BY <1>1, <1>2, <1>4 DEF Import
<1>8. Becomes(j, k) BY <1>3
<1> HIDE DEF k
<1>9. imports' \subseteq Import /\ Filling'
  BY <1>2, <1>7, <1>8, BecomesType DEF FillPartly
<1> QED BY <1>5, <1>6, <1>9 DEF FillPartly, TypeInv, TypeOK, ops

LEMMA FillType ==
  ASSUME TypeInv, NEW j \in imports, Fill(j)
  PROVE  TypeInv'
<1>1. j \in Import /\ imports \subseteq Import /\ j.stage = "fill"
  BY DEF TypeInv, TypeOK, Fill
<1>2. /\ j.op \in Op /\ j.to \in Mirrors /\ j.room \in MirrorRoom /\ j.snap \subseteq User
      /\ owner[j.to][j.room] # None
  BY <1>1 DEF Import, TypeInv, Filling
<1>3. j.snap \cup {owner[j.to][j.room]} \subseteq User BY <1>2 DEF TypeInv, TypeOK
<1>4. roster' \in [Mirrors -> [MirrorRoom -> SUBSET User]]
  BY <1>2, <1>3 DEF Fill, TypeInv, TypeOK
<1>5. link' \in [Mirrors -> {0} \cup MirrorRoom] BY <1>2 DEF Fill, TypeInv, TypeOK
<1>6. imported' \in [Op -> Server] BY <1>2 DEF Fill, TypeInv, TypeOK, Mirrors
<1>7. pc' \in [Op -> Phase] BY <1>1, OverType DEF Fill, TypeInv, TypeOK
<1>8. imports' \subseteq Import /\ Filling' BY LessFilling DEF Fill
<1> QED BY <1>4, <1>5, <1>6, <1>7, <1>8 DEF Fill, TypeInv, TypeOK

LEMMA LoseImportType ==
  ASSUME TypeInv, NEW j \in imports, LoseImport(j)
  PROVE  TypeInv'
<1>1. j \in Import BY DEF TypeInv, TypeOK
<1>2. pc' \in [Op -> Phase] BY <1>1, OverType DEF LoseImport, TypeInv, TypeOK
<1>3. imports' \subseteq Import /\ Filling' BY LessFilling DEF LoseImport, tables
<1>4. troubles' \in 0..MaxTroubles BY TroubleType DEF LoseImport, TypeInv
<1> QED BY <1>2, <1>3, <1>4 DEF LoseImport, TypeInv, TypeOK, tables, ops

LEMMA ChangeLocallyType ==
  ASSUME TypeInv, NEW m \in Mirrors, NEW i \in MirrorRoom, NEW u \in User,
         ChangeLocally(m, i, u)
  PROVE  TypeInv'
<1>a. PICK all \in SUBSET User : roster' = [roster EXCEPT ![m][i] = all]
  <2>1. roster[m][i] \cup {u} \in SUBSET User /\ roster[m][i] \ {u} \in SUBSET User
    BY DEF TypeInv, TypeOK
  <2>2. \/ roster' = [roster EXCEPT ![m][i] = roster[m][i] \cup {u}]
        \/ roster' = [roster EXCEPT ![m][i] = roster[m][i] \ {u}]
    BY DEF ChangeLocally
  <2> QED BY <2>1, <2>2
<1>1. roster' \in [Mirrors -> [MirrorRoom -> SUBSET User]] BY <1>a DEF TypeInv, TypeOK
<1>2. cached' \in [Mirrors -> SUBSET User] BY DEF ChangeLocally, TypeInv, TypeOK
<1>3. troubles' \in 0..MaxTroubles BY TroubleType DEF ChangeLocally, TypeInv
<1>4. alone' \in [Op -> BOOLEAN] BY DEF ChangeLocally, Disturbed
<1> QED BY <1>1, <1>2, <1>3, <1>4 DEF ChangeLocally, TypeInv, TypeOK, Filling, ops, net

LEMMA CrashType ==
  ASSUME TypeInv, NEW s \in Server, Crash(s)
  PROVE  TypeInv'
<1>1. {"dead", "links", "done"} \subseteq Phase BY DEF Phase
<1>2. pc' \in [Op -> Phase] BY <1>1 DEF Crash, TypeInv, TypeOK
<1>3. imports' \subseteq imports BY DEF Crash
<1>4. imports' \subseteq Import /\ Filling' BY <1>3, LessFilling DEF Crash, tables
<1>5. troubles' \in 0..MaxTroubles BY TroubleType DEF Crash, TypeInv
<1>6. alone' \in [Op -> BOOLEAN] BY DEF Crash, Disturbed
<1> QED BY <1>2, <1>4, <1>5, <1>6 DEF Crash, TypeInv, TypeOK, tables, ops

LEMMA TypeNext == TypeInv /\ [Next]_vars => TypeInv'
<1> SUFFICES ASSUME TypeInv, [Next]_vars PROVE TypeInv' OBVIOUS
<1>1. CASE UNCHANGED vars BY <1>1 DEF vars, tables, ops, net, TypeInv, TypeOK, Filling
<1>2. ASSUME NEW o \in Op, NEW k \in Kind, NEW u \in User, Begin(o, k, u)
      PROVE  TypeInv'
  BY <1>2, BeginType
<1>3. ASSUME NEW o \in Op, Run(o) \/ NotDiscovered(o) \/ GiveUp(o) PROVE TypeInv'
  BY <1>3, RunType
<1>4. ASSUME NEW r \in events, Apply(r) \/ LoseEvent(r) PROVE TypeInv'
  BY <1>4, EventType
<1>5. ASSUME NEW j \in imports, Serve(j) \/ LoseImport(j) PROVE TypeInv'
  BY <1>5, FindType, CreateType, FillPartlyType, FillType, LoseImportType DEF Serve
<1>6. ASSUME NEW m \in Mirrors, NEW i \in MirrorRoom, NEW u \in User, ChangeLocally(m, i, u)
      PROVE  TypeInv'
  BY <1>6, ChangeLocallyType
<1>7. ASSUME NEW s \in Server, Crash(s) PROVE TypeInv' BY <1>7, CrashType
<1> QED BY <1>1, <1>2, <1>3, <1>4, <1>5, <1>6, <1>7 DEF Next

-----------------------------------------------------------------------------
(* Imports and their ops.                                                   *)

Past == Phase \ {"new", "commit", "mirrors", "import"}

\* Ops stay where they are or get past their import.
Onward == \A o \in Op : pc'[o] = pc[o] \/ pc'[o] \in Past

\* Imports end or go on for the same op with the same roster.
SameImports ==
  \/ imports' \subseteq imports
  \/ \E j \in imports, k \in Import : Becomes(j, k) /\ k.op = j.op /\ k.snap = j.snap

LEMMA SameImportsGive ==
  ASSUME TypeInv, Imports, SameImports
  PROVE  /\ \A k \in imports' : \E j \in imports : k.op = j.op /\ k.snap = j.snap
         /\ \A i, k \in imports' : i.op = k.op => i = k
<1>1. CASE imports' \subseteq imports BY <1>1 DEF Imports
<1>2. CASE \E j \in imports, k \in Import : Becomes(j, k) /\ k.op = j.op /\ k.snap = j.snap
  BY <1>2 DEF Imports, Becomes
<1> QED BY <1>1, <1>2 DEF SameImports

LEMMA AfterOnward ==
  ASSUME TypeInv, NEW o \in Op, AfterMirrors(o)
  PROVE  /\ pc'[o] \in Past /\ \A p \in Op \ {o} : pc'[p] = pc[p]
<1>1. PICK f \in {"links", "done"} : Goto(o, f) BY DEF AfterMirrors
<1>2. f \in Past BY DEF Past, Phase
<1> QED BY <1>1, <1>2 DEF Goto, TypeInv, TypeOK

\* What the end of a request does to its op.
LEMMA OverOnward ==
  ASSUME TypeInv
  PROVE  /\ \A j \in Import : ImportOver(j) =>
              /\ pc'[j.op] = pc[j.op] \/ (pc[j.op] = "import" /\ pc'[j.op] \in Past)
              /\ \A p \in Op \ {j.op} : pc'[p] = pc[p]
         /\ \A r \in Event : EventOver(r) =>
              /\ pc'[r.op] = pc[r.op] \/ (pc[r.op] = "event" /\ pc'[r.op] \in Past)
              /\ \A p \in Op \ {r.op} : pc'[p] = pc[p]
<1>1. ASSUME NEW j \in Import, ImportOver(j)
      PROVE  /\ pc'[j.op] = pc[j.op] \/ (pc[j.op] = "import" /\ pc'[j.op] \in Past)
             /\ \A p \in Op \ {j.op} : pc'[p] = pc[p]
  <2>1. j.op \in Op BY DEF Import
  <2> QED BY <1>1, <2>1, AfterOnward DEF ImportOver
<1>2. ASSUME NEW r \in Event, EventOver(r)
      PROVE  /\ pc'[r.op] = pc[r.op] \/ (pc[r.op] = "event" /\ pc'[r.op] \in Past)
             /\ \A p \in Op \ {r.op} : pc'[p] = pc[p]
  <2>1. r.op \in Op /\ "relay" \in Past BY DEF Event, Past, Phase
  <2> QED BY <1>2, <2>1 DEF EventOver, Goto, TypeInv, TypeOK
<1> QED BY <1>1, <1>2

LEMMA FlowStays ==
  ASSUME TypeInv, Flow, Onward, SameImports, UNCHANGED <<kind, imported>>
  PROVE  Flow'
<1>1. \A o \in Op : pc'[o] = pc[o] \/ pc'[o] \notin {"new", "commit", "mirrors", "import"}
  BY DEF Onward, Past
<1>2. \A j \in imports : j.op \in Op BY DEF TypeInv, TypeOK, Import
<1>3. Imports' BY <1>1, <1>2, SameImportsGive DEF Flow, Imports
<1>4. Confirmed' BY <1>1, SameImportsGive DEF Flow, Confirmed
<1> QED BY <1>3, <1>4 DEF Flow

\* The steps of ops that change neither their kind nor the imports.
LEMMA MovesOnward ==
  ASSUME TypeInv, NEW o \in Op,
         \/ NoMirrorNeeded(o) \/ NotDiscovered(o) \/ Links(o) \/ Tell(o) \/ End(o) \/ GiveUp(o)
  PROVE  /\ Active(o) /\ pc[o] # "commit" /\ pc'[o] \in Past
         /\ \A p \in Op \ {o} : pc'[p] = pc[p]
         /\ UNCHANGED <<hosted, link, owner, roster, kind, who, imported, imports, alone>>
         /\ \A r \in events' : r \in events \/ r.op = o
<1>1. AfterMirrors(o) \/ \E f \in {"dead", "relay", "event", "done"} : Goto(o, f)
  BY DEF NoMirrorNeeded, NotDiscovered, Links, Tell, End, GiveUp
<1>2. pc'[o] \in Past /\ \A p \in Op \ {o} : pc'[p] = pc[p]
  <2>1. {"dead", "relay", "event", "done"} \subseteq Past BY DEF Past, Phase
  <2> QED BY <1>1, <2>1, AfterOnward DEF Goto, TypeInv, TypeOK
<1>3. pc[o] \in {"mirrors", "links", "relay", "import", "event"}
  BY DEF NoMirrorNeeded, NotDiscovered, Links, Tell, End, GiveUp
<1>4. UNCHANGED <<hosted, link, owner, roster, kind, who, imported, imports, alone>>
  BY DEF NoMirrorNeeded, NotDiscovered, Links, Tell, End, GiveUp, tables, ops, net
<1>5. \A r \in events' : r \in events \/ r.op = o
  BY DEF NoMirrorNeeded, NotDiscovered, Links, Tell, End, GiveUp, net
<1> QED BY <1>2, <1>3, <1>4, <1>5 DEF Active

LEMMA BeginFlow ==
  ASSUME TypeInv, Flow, NEW o \in Op, NEW k \in Kind, NEW u \in User, Begin(o, k, u)
  PROVE  Flow'
<1>1. /\ pc[o] = "new" /\ UNCHANGED <<imports, imported>>
      /\ kind' = [kind EXCEPT ![o] = k]
      /\ pc' = [pc EXCEPT ![o] = IF k = "invite" /\ u \in hosted THEN "mirrors" ELSE "commit"]
  BY DEF Begin, Goto, net
<1>2. /\ kind'[o] = k /\ pc'[o] \in {"mirrors", "commit"}
      /\ pc'[o] = "mirrors" => k = "invite"
      /\ \A p \in Op \ {o} : pc'[p] = pc[p] /\ kind'[p] = kind[p]
  BY <1>1 DEF TypeInv, TypeOK
<1>3. \A j \in imports : j.op # o /\ j.op \in Op
  BY <1>1 DEF Flow, Imports, TypeInv, TypeOK, Import
<1>4. imported[o] = Host BY <1>1 DEF Flow, Confirmed
<1>5. Imports' BY <1>1, <1>2, <1>3 DEF Flow, Imports
<1>6. Confirmed' BY <1>1, <1>2, <1>4 DEF Flow, Confirmed
<1> QED BY <1>5, <1>6 DEF Flow

LEMMA CommitFlow ==
  ASSUME TypeInv, Flow, NEW o \in Op, Commit(o)
  PROVE  Flow'
<1>1. pc[o] = "commit" /\ UNCHANGED <<imports, imported, kind>> BY DEF Commit, ops, net
<1>2. /\ pc'[o] = "mirrors" => kind[o] = "invite"
      /\ \A p \in Op \ {o} : pc'[p] = pc[p]
  BY DEF Commit, Goto, TypeInv, TypeOK
<1>3. \A j \in imports : j.op # o /\ j.op \in Op
  BY <1>1 DEF Flow, Imports, TypeInv, TypeOK, Import
<1>4. imported[o] = Host BY <1>1 DEF Flow, Confirmed
<1>5. Imports' BY <1>1, <1>2, <1>3 DEF Flow, Imports
<1>6. Confirmed' BY <1>1, <1>2, <1>4 DEF Flow, Confirmed
<1> QED BY <1>5, <1>6 DEF Flow

LEMMA SendImportFlow ==
  ASSUME TypeInv, Flow, NEW o \in Op, SendImport(o)
  PROVE  Flow'
<1> DEFINE j == [op |-> o, to |-> Home[who[o]], snap |-> hosted,
                 room |-> 0, stage |-> "sent", seen |-> {}]
<1>1. pc[o] = "mirrors" /\ UNCHANGED <<imported, kind>> /\ imports' = imports \cup {j}
  BY DEF SendImport
<1>2. pc'[o] = "import" /\ \A p \in Op \ {o} : pc'[p] = pc[p]
  BY DEF SendImport, Goto, TypeInv, TypeOK
<1>3. \A i \in imports : i.op # o /\ i.op \in Op
  BY <1>1 DEF Flow, Imports, TypeInv, TypeOK, Import
<1>4. imported[o] = Host /\ kind[o] = "invite" BY <1>1 DEF Flow, Confirmed, Imports
<1>5. j.op = o OBVIOUS
<1> HIDE DEF j
<1>6. Imports' BY <1>1, <1>2, <1>3, <1>4, <1>5 DEF Flow, Imports
<1>7. Confirmed' BY <1>1, <1>2, <1>3, <1>4, <1>5 DEF Flow, Confirmed
<1> QED BY <1>6, <1>7 DEF Flow

LEMMA FillFlow ==
  ASSUME TypeInv, Flow, NEW j \in imports, Fill(j)
  PROVE  Flow'
<1>1. j \in Import /\ j.op \in Op BY DEF TypeInv, TypeOK, Import
<1>2. imports' = imports \ {j} /\ kind' = kind /\ ImportOver(j) BY DEF Fill
<1>3. /\ pc'[j.op] = pc[j.op] \/ (pc[j.op] = "import" /\ pc'[j.op] \in Past)
      /\ \A p \in Op \ {j.op} : pc'[p] = pc[p]
  BY <1>1, <1>2, OverOnward
<1>4. /\ pc[j.op] = "import" => pc'[j.op] \in Past
      /\ pc[j.op] # "import" => imported' = imported
      /\ \A p \in Op \ {j.op} : imported'[p] = imported[p]
  BY <1>1, AfterOnward DEF Fill, ImportOver, TypeInv, TypeOK
<1>5. kind[j.op] = "invite" /\ \A i \in imports' : i.op # j.op
  BY <1>2 DEF Flow, Imports
<1>6. \A f \in Past : f \notin {"new", "commit", "mirrors", "import"} BY DEF Past
<1>7. Imports'
  <2>1. \A i \in imports' : i \in imports /\ i.op \in Op \ {j.op}
    BY <1>2, <1>5 DEF TypeInv, TypeOK, Import
  <2>2. \A i \in imports' : pc'[i.op] \notin {"new", "commit", "mirrors"} /\ kind'[i.op] = "invite"
    BY <1>2, <1>3, <2>1 DEF Flow, Imports
  <2>3. \A o \in Op : pc'[o] = "mirrors" => kind'[o] = "invite"
    BY <1>1, <1>2, <1>3, <1>6 DEF Flow, Imports
  <2> QED BY <1>2, <2>2, <2>3 DEF Flow, Imports
<1>8. Confirmed' BY <1>1, <1>2, <1>3, <1>4, <1>5, <1>6 DEF Flow, Confirmed
<1> QED BY <1>7, <1>8 DEF Flow

\* The steps of an import before its last.
LEMMA ImportSteps ==
  ASSUME TypeInv, NEW j \in imports,
         Find(j) \/ Create(j) \/ FillPartly(j) \/ LoseImport(j)
  PROVE  /\ SameImports /\ j.op \in Op
         /\ pc'[j.op] = pc[j.op] \/ (pc[j.op] = "import" /\ pc'[j.op] \in Past)
         /\ \A p \in Op \ {j.op} : pc'[p] = pc[p]
         /\ UNCHANGED <<hosted, kind, who, imported, events, alone>>
<1>1. j \in Import /\ j.op \in Op BY DEF TypeInv, TypeOK, Import
<1>2. ImportOver(j) \/ pc' = pc BY DEF Find, Create, FillPartly, LoseImport
<1>3. imports' \subseteq Import
  BY FindType, CreateType, FillPartlyType, LoseImportType DEF TypeInv, TypeOK
<1>4. SameImports
  <2>1. CASE imports' = imports \ {j} BY <2>1 DEF SameImports
  <2>2. ASSUME NEW k, Becomes(j, k), k.op = j.op, k.snap = j.snap PROVE SameImports
    <3>1. k \in Import BY <1>3, <2>2 DEF Becomes
    <3> QED BY <2>2, <3>1 DEF SameImports
  <2>3. CASE Becomes(j, [j EXCEPT !.stage = "create"]) BY <1>1, <2>2, <2>3 DEF Import
  <2>4. CASE \E i : Becomes(j, [j EXCEPT !.stage = "fill", !.room = i])
    BY <1>1, <2>2, <2>4 DEF Import
  <2>5. CASE \E more, u : Becomes(j, [j EXCEPT !.seen = @ \cup more \cup {u}])
    BY <1>1, <2>2, <2>5 DEF Import
  <2> QED BY <2>1, <2>3, <2>4, <2>5 DEF Find, Create, FillPartly, LoseImport
<1>5. UNCHANGED <<hosted, kind, who, imported, events, alone>>
  BY DEF Find, Create, FillPartly, LoseImport, tables, ops
<1> QED BY <1>1, <1>2, <1>4, <1>5, OverOnward

\* A crash lets ops go on or end.
LEMMA CrashOnward ==
  ASSUME TypeInv, NEW s \in Server, Crash(s)
  PROVE  Onward /\ SameImports /\ UNCHANGED <<kind, imported>>
<1>1. {"dead", "links", "done"} \subseteq Past BY DEF Past, Phase
<1>2. \A o \in Op : pc'[o] \in {pc[o], "dead", "links", "done"} BY DEF Crash
<1>3. imports' \subseteq imports BY DEF Crash
<1> QED BY <1>1, <1>2, <1>3 DEF Onward, SameImports, Crash, ops

LEMMA FlowNext == TypeInv /\ Flow /\ [Next]_vars => Flow'
<1> SUFFICES ASSUME TypeInv, Flow, [Next]_vars PROVE Flow' OBVIOUS
<1>1. CASE UNCHANGED vars
  BY <1>1 DEF vars, ops, net, Flow, Imports, Confirmed
<1>2. ASSUME NEW o \in Op, NEW k \in Kind, NEW u \in User, Begin(o, k, u)
      PROVE  Flow'
  BY <1>2, BeginFlow
<1>3. ASSUME NEW o \in Op, Run(o) \/ NotDiscovered(o) \/ GiveUp(o) PROVE Flow'
  <2>1. CASE Commit(o) BY <2>1, CommitFlow
  <2>2. CASE SendImport(o) BY <2>2, SendImportFlow
  <2>3. CASE \/ NoMirrorNeeded(o) \/ NotDiscovered(o) \/ Links(o) \/ Tell(o) \/ End(o)
             \/ GiveUp(o)
    <3>1. Onward BY <2>3, MovesOnward DEF Onward
    <3>2. SameImports /\ UNCHANGED <<kind, imported>> BY <2>3, MovesOnward DEF SameImports
    <3> QED BY <3>1, <3>2, FlowStays
  <2> QED BY <1>3, <2>1, <2>2, <2>3 DEF Run
<1>4. ASSUME NEW r \in events, Apply(r) \/ LoseEvent(r) PROVE Flow'
  <2>1. r \in Event BY DEF TypeInv, TypeOK
  <2>2. EventOver(r) /\ UNCHANGED <<imports, kind, imported>>
    BY <1>4 DEF Apply, LoseEvent, ops
  <2>3. Onward /\ SameImports BY <2>1, <2>2, OverOnward DEF Onward, SameImports
  <2> QED BY <2>2, <2>3, FlowStays
<1>5. ASSUME NEW j \in imports, Serve(j) \/ LoseImport(j) PROVE Flow'
  <2>1. CASE Fill(j) BY <2>1, FillFlow
  <2>2. CASE Find(j) \/ Create(j) \/ FillPartly(j) \/ LoseImport(j)
    <3>1. Onward /\ SameImports /\ UNCHANGED <<kind, imported>>
      BY <2>2, ImportSteps DEF Onward
    <3> QED BY <3>1, FlowStays
  <2> QED BY <1>5, <2>1, <2>2 DEF Serve
<1>6. ASSUME NEW m \in Mirrors, NEW i \in MirrorRoom, NEW u \in User, ChangeLocally(m, i, u)
      PROVE  Flow'
  BY <1>6 DEF ChangeLocally, ops, net, Flow, Imports, Confirmed
<1>7. ASSUME NEW s \in Server, Crash(s) PROVE Flow' BY <1>7, CrashOnward, FlowStays
<1> QED BY <1>1, <1>2, <1>3, <1>4, <1>5, <1>6, <1>7 DEF Next

LEMMA FlowInit == Init => Flow
BY DEF Init, Flow, Imports, Confirmed

-----------------------------------------------------------------------------
(* Ops that are alone.                                                      *)

\* A step of the op itself, or of its requests, that leaves the host alone.
LEMMA StaysUndisturbed ==
  ASSUME NEW o \in Op, Undisturbed(o), UNCHANGED <<hosted, kind, who>>,
         \A p \in Op \ {o} : pc'[p] = pc[p],
         pc'[o] # "new", pc[o] = "commit" => pc'[o] = "commit",
         \A r \in events' : r \in events \/ r.op = o,
         \A k \in imports' : \E j \in imports : k.op = j.op /\ k.snap = j.snap,
         imported'[o] # Host => Agrees(imported[o], link[imported[o]])'
  PROVE  Undisturbed(o)'
<1>1. pc'[o] # "new" /\ \A p \in Op \ {o} : ~Active(p)' BY DEF Undisturbed, Active
<1>2. \A r \in events' : r.op = o BY DEF Undisturbed
<1>3. \A k \in imports' : k.op = o /\ k.snap = hosted' BY DEF Undisturbed
<1>4. kind'[o] = "invite" /\ pc'[o] # "commit" => who'[o] \in hosted' BY DEF Undisturbed
<1> QED BY <1>1, <1>2, <1>3, <1>4 DEF Undisturbed

\* Only the op that is alone is active.
LEMMA AloneIsActive ==
  ASSUME Aloneness, NEW o \in Op, alone[o], NEW p \in Op, Active(p)
  PROVE  p = o /\ Undisturbed(o)
BY DEF Aloneness, Undisturbed

LEMMA BeginAlone ==
  ASSUME TypeInv, Flow, NEW p \in Op, NEW k \in Kind, NEW u \in User, Begin(p, k, u),
         NEW o \in Op, alone'[o]
  PROVE  Undisturbed(o)'
<1>1. /\ o = p /\ events = {} /\ imports = {} /\ \A x \in Op : ~Active(x)
      /\ pc[p] = "new" /\ UNCHANGED <<events, imports, imported, hosted>>
  BY DEF Begin, net, tables
<1>2. /\ kind'[p] = k /\ who'[p] = u
      /\ pc'[p] = IF k = "invite" /\ u \in hosted THEN "mirrors" ELSE "commit"
      /\ \A x \in Op \ {p} : pc'[x] = pc[x]
  BY DEF Begin, Goto, TypeInv, TypeOK
<1>3. imported'[p] = Host BY <1>1 DEF Flow, Confirmed
<1> QED BY <1>1, <1>2, <1>3 DEF Undisturbed, Active

LEMMA CommitAlone ==
  ASSUME TypeInv, Flow, Aloneness, NEW p \in Op, Commit(p), NEW o \in Op, alone'[o]
  PROVE  Undisturbed(o)'
<1>1. pc[p] = "commit" /\ UNCHANGED <<events, imports, imported, kind, who, alone>>
  BY DEF Commit, ops, net
<1>2. p = o /\ Undisturbed(o) BY <1>1, AloneIsActive DEF Active
<1>3. imports = {} /\ imported[o] = Host
  BY <1>1, <1>2 DEF Flow, Imports, Confirmed, Undisturbed
<1>4. /\ \A x \in Op \ {o} : pc'[x] = pc[x]
      /\ pc'[o] \in {"dead", "mirrors", "links"}
      /\ kind[o] = "invite" => who[o] \in hosted'
  BY <1>2 DEF Commit, Goto, TypeInv, TypeOK
<1> QED BY <1>1, <1>2, <1>3, <1>4 DEF Undisturbed, Active

LEMMA SendImportAlone ==
  ASSUME TypeInv, Flow, Aloneness, NEW p \in Op, SendImport(p), NEW o \in Op, alone'[o]
  PROVE  Undisturbed(o)'
<1> DEFINE j == [op |-> p, to |-> Home[who[p]], snap |-> hosted,
                 room |-> 0, stage |-> "sent", seen |-> {}]
<1>1. /\ pc[p] = "mirrors" /\ imports' = imports \cup {j}
      /\ UNCHANGED <<hosted, kind, who, imported, events, alone>>
  BY DEF SendImport, tables
<1>2. p = o /\ Undisturbed(o) BY <1>1, AloneIsActive DEF Active
<1>3. pc'[o] = "import" /\ \A x \in Op \ {o} : pc'[x] = pc[x]
  BY <1>2 DEF SendImport, Goto, TypeInv, TypeOK
<1>4. imported[o] = Host BY <1>1, <1>2 DEF Flow, Confirmed
<1>5. j.op = p /\ j.snap = hosted OBVIOUS
<1> HIDE DEF j
<1>6. \A i \in imports' : i.op = o /\ i.snap = hosted BY <1>1, <1>2, <1>5 DEF Undisturbed
<1> QED BY <1>1, <1>2, <1>3, <1>4, <1>6 DEF Undisturbed, Active

LEMMA MoveAlone ==
  ASSUME TypeInv, Aloneness, NEW p \in Op,
         \/ NoMirrorNeeded(p) \/ NotDiscovered(p) \/ Links(p) \/ Tell(p) \/ End(p) \/ GiveUp(p),
         NEW o \in Op, alone'[o]
  PROVE  Undisturbed(o)'
<1>1. /\ Active(p) /\ pc[p] # "commit" /\ pc'[p] \in Past
      /\ \A x \in Op \ {p} : pc'[x] = pc[x]
      /\ UNCHANGED <<hosted, link, owner, roster, kind, who, imported, imports, alone>>
      /\ \A r \in events' : r \in events \/ r.op = p
  BY MovesOnward
<1>2. p = o /\ Undisturbed(o) BY <1>1, AloneIsActive
<1>3. imported'[o] # Host => Agrees(imported[o], link[imported[o]])'
  BY <1>1, <1>2 DEF Undisturbed, Agrees
<1> QED BY <1>1, <1>2, <1>3, StaysUndisturbed DEF Past

\* What an op that is alone adds to a mirror is in the host's roster.
LEMMA ApplyAlone ==
  ASSUME TypeInv, Flow, Aloneness, NEW r \in events, Apply(r) \/ LoseEvent(r),
         NEW o \in Op, alone'[o]
  PROVE  Undisturbed(o)'
<1>1. /\ EventOver(r) /\ events' = events \ {r}
      /\ UNCHANGED <<hosted, link, owner, kind, who, imported, imports, alone>>
  BY DEF Apply, LoseEvent, tables, ops
<1>2. r \in Event /\ r.op = o /\ Undisturbed(o)
  BY <1>1 DEF Aloneness, Undisturbed, TypeInv, TypeOK
<1>3. /\ pc'[o] = pc[o] \/ (pc[o] = "event" /\ pc'[o] \in Past)
      /\ \A p \in Op \ {o} : pc'[p] = pc[p]
  BY <1>1, <1>2, OverOnward
<1>4. ASSUME imported[o] # Host
      PROVE  Agrees(imported[o], link[imported[o]])'
  <2> DEFINE m == imported[o]  i == link[m]
  <2>1. kind[o] = "invite" /\ who[o] \in hosted /\ Agrees(m, i)
    BY <1>2, <1>4 DEF Flow, Confirmed, Undisturbed
  <2>2. roster'[m][i] \in {roster[m][i], roster[m][i] \cup {who[o]}}
    <3>1. CASE Apply(r)
      <4>1. roster' = [roster EXCEPT ![r.to][r.room] = roster[r.to][r.room] \cup {who[o]}]
        BY <1>2, <2>1, <3>1 DEF Apply
      <4>2. r.to \in Mirrors /\ r.room \in MirrorRoom BY <1>2 DEF Event
      <4>3. m \in Mirrors BY <1>4 DEF TypeInv, TypeOK, Mirrors
      <4>4. i \in {0} \cup MirrorRoom BY <4>3 DEF TypeInv, TypeOK
      <4> HIDE DEF m, i
      <4> QED BY <4>1, <4>2, <4>3, <4>4 DEF TypeInv, TypeOK
    <3>2. CASE LoseEvent(r) BY <3>2 DEF LoseEvent, tables
    <3> QED BY <3>1, <3>2
  <2>3. UNCHANGED <<m, i, hosted, owner>> BY <1>1
  <2>4. roster'[m][i] \ {owner[m][i]} = hosted \ {owner[m][i]} BY <2>1, <2>2 DEF Agrees
  <2> HIDE DEF m, i
  <2>5. Agrees(m, i)' BY <2>3, <2>4 DEF Agrees
  <2> QED BY <2>5 DEF m, i
<1> QED BY <1>1, <1>2, <1>3, <1>4, StaysUndisturbed DEF Past, Undisturbed

LEMMA ImportStepsAlone ==
  ASSUME TypeInv, Flow, Aloneness, NEW j \in imports,
         Find(j) \/ Create(j) \/ FillPartly(j) \/ LoseImport(j),
         NEW o \in Op, alone'[o]
  PROVE  Undisturbed(o)'
<1>1. /\ SameImports /\ j.op \in Op
      /\ pc'[j.op] = pc[j.op] \/ (pc[j.op] = "import" /\ pc'[j.op] \in Past)
      /\ \A p \in Op \ {j.op} : pc'[p] = pc[p]
      /\ UNCHANGED <<hosted, kind, who, imported, events, alone>>
  BY ImportSteps
<1>2. j.op = o /\ Undisturbed(o) BY <1>1 DEF Aloneness, Undisturbed
<1>3. imported[o] = Host BY <1>2 DEF Flow, Confirmed
<1>4. \A k \in imports' : \E i \in imports : k.op = i.op /\ k.snap = i.snap
  BY <1>1, SameImportsGive DEF Flow
<1> QED BY <1>1, <1>2, <1>3, <1>4, StaysUndisturbed DEF Past, Undisturbed

\* The import that is confirmed leaves the host's roster behind.
LEMMA FillAlone ==
  ASSUME TypeInv, Flow, Aloneness, NEW j \in imports, Fill(j), NEW o \in Op, alone'[o]
  PROVE  Undisturbed(o)'
<1>1. j \in Import /\ j.op \in Op /\ j.stage = "fill" /\ j.room # 0
  BY DEF TypeInv, TypeOK, Import, Filling, Fill
<1>2. /\ imports' = imports \ {j} /\ ImportOver(j)
      /\ UNCHANGED <<hosted, owner, kind, who, events, alone>>
  BY DEF Fill
<1>3. j.op = o /\ j.snap = hosted /\ Undisturbed(o) BY <1>2 DEF Aloneness, Undisturbed
<1>4. /\ pc'[o] = pc[o] \/ (pc[o] = "import" /\ pc'[o] \in Past)
      /\ \A p \in Op \ {o} : pc'[p] = pc[p]
  BY <1>1, <1>2, <1>3, OverOnward
<1>5. imported[o] = Host BY <1>3 DEF Flow, Confirmed
<1>6. ASSUME imported'[o] # Host
      PROVE  Agrees(imported[o], link[imported[o]])'
  <2>1. j.to \in Mirrors /\ j.room \in MirrorRoom BY <1>1 DEF Import
  <2>2. pc[o] = "import" BY <1>3, <1>5, <1>6 DEF Fill
  <2>3. imported'[o] = j.to /\ link'[j.to] = j.room
    BY <1>3, <2>1, <2>2 DEF Fill, TypeInv, TypeOK
  <2>4. roster'[j.to][j.room] = hosted \cup {owner[j.to][j.room]}
    BY <1>3, <2>1 DEF Fill, TypeInv, TypeOK
  <2> QED BY <1>2, <2>3, <2>4 DEF Agrees
<1> QED BY <1>2, <1>3, <1>4, <1>6, StaysUndisturbed DEF Past, Undisturbed

LEMMA AloneNext == TypeInv /\ Flow /\ Aloneness /\ [Next]_vars => Aloneness'
<1> SUFFICES ASSUME TypeInv, Flow, Aloneness, [Next]_vars, NEW o \in Op, alone'[o]
             PROVE  Undisturbed(o)'
  BY DEF Aloneness
<1>1. CASE UNCHANGED vars
  BY <1>1 DEF vars, tables, ops, net, Aloneness, Undisturbed, Active, Agrees
<1>2. ASSUME NEW p \in Op, NEW k \in Kind, NEW u \in User, Begin(p, k, u)
      PROVE  Undisturbed(o)'
  BY <1>2, BeginAlone
<1>3. ASSUME NEW p \in Op, Run(p) \/ NotDiscovered(p) \/ GiveUp(p)
      PROVE  Undisturbed(o)'
  BY <1>3, CommitAlone, SendImportAlone, MoveAlone DEF Run
<1>4. ASSUME NEW r \in events, Apply(r) \/ LoseEvent(r) PROVE Undisturbed(o)'
  BY <1>4, ApplyAlone
<1>5. ASSUME NEW j \in imports, Serve(j) \/ LoseImport(j) PROVE Undisturbed(o)'
  BY <1>5, ImportStepsAlone, FillAlone DEF Serve
<1>6. ASSUME NEW m \in Mirrors, NEW i \in MirrorRoom, NEW u \in User, ChangeLocally(m, i, u)
      PROVE  FALSE
  BY <1>6 DEF ChangeLocally, Disturbed
<1>7. ASSUME NEW s \in Server, Crash(s) PROVE FALSE BY <1>7 DEF Crash, Disturbed
<1> QED BY <1>1, <1>2, <1>3, <1>4, <1>5, <1>6, <1>7 DEF Next

-----------------------------------------------------------------------------
(* The theorems.                                                            *)

\* Every variable of the roster and of the requests about it keeps to its type
\* (room_service.py, the import and membership handlers of federation.py), for
\* any servers, users, requests and troubles.
THEOREM RosterTypes == Spec => []TypeOK
<1>1. TypeInv => TypeOK BY DEF TypeInv
<1> QED BY TypeInit, TypeNext, <1>1, PTL DEF Spec

\* A mirror agrees with the host after an invitation whose import was confirmed
\* and that ran undisturbed, whatever went wrong before: lost requests, crashes,
\* changes on the mirror itself (_ensure_remote_mirrors, federation_room_import).
THEOREM ImportsHeal == Spec => []ImportHeals
<1> DEFINE Inv == TypeInv /\ Flow /\ Aloneness
<1>1. Init => Aloneness BY DEF Init, Aloneness
<1>2. Init => Inv BY <1>1, TypeInit, FlowInit
<1>3. Inv /\ [Next]_vars => Inv' BY TypeNext, FlowNext, AloneNext
<1>4. Inv => ImportHeals BY DEF Aloneness, Undisturbed, ImportHeals
<1> QED BY <1>2, <1>3, <1>4, PTL DEF Spec

-----------------------------------------------------------------------------
(* Without troubles.                                                        *)

\* Ops do not overlap.
OneAtATime == \A o, p \in Op : Active(o) /\ Active(p) => o = p

\* What is on the network is what the op waits for.
Requests ==
  /\ \A r \in events : /\ pc[r.op] = "event" /\ asked[r.op] = r.to
                       /\ r.room = link[r.to] /\ r.room # 0
  /\ \A j \in imports : pc[j.op] = "import" /\ j.snap = hosted

\* A mirror server has one room, and the host knows it when the import is over.
OneRoom ==
  /\ \A m \in Mirrors : link[m] # 0 => Rooms(m) = {link[m]}
  /\ \A m \in Mirrors : link[m] = 0 /\ Rooms(m) # {} =>
       \E j \in imports : j.to = m /\ j.stage = "fill"
  /\ \A j \in imports : /\ j.stage = "create" => Rooms(j.to) = {}
                        /\ j.stage = "fill" => Rooms(j.to) = {j.room}

\* Past its commit an op has the host's roster as it wants it, and it tells
\* the linked rooms only.
Course(o) ==
  /\ pc[o] = "commit" /\ kind[o] = "invite" => fresh[o]
  /\ pc[o] \in {"mirrors", "import", "links", "relay", "event"} =>
       (who[o] \in hosted <=> kind[o] # "remove")
  /\ pc[o] \in {"relay", "event"} => \A x \in todo[o] : x[2] = link[x[1]] /\ x[2] # 0

\* Op o has still to tell mirror m, which knows all but what o changed.
Owes(o, m) ==
  \/ pc[o] \in {"mirrors", "import"} /\ fresh[o]
  \/ pc[o] = "links"
  \/ pc[o] \in {"relay", "event"} /\ <<m, link[m]>> \in todo[o]
  \/ pc[o] = "event" /\ asked[o] = m
Lacks(o, m) ==
  LET i == link[m]
  IN  roster[m][i] \ {owner[m][i], who[o]} = hosted \ {owner[m][i], who[o]}

Synced ==
  \A m \in Mirrors : link[m] # 0 =>
    \/ Agrees(m, link[m])
    \/ \E o \in Op : Owes(o, m) /\ Lacks(o, m)
    \/ \E j \in imports : j.to = m /\ j.stage = "fill"

Orderly ==
  /\ OneAtATime /\ Requests /\ OneRoom /\ \A o \in Op : Course(o)
  /\ Synced
Following == troubles = 0 => Orderly

Good == TypeInv /\ Flow /\ Orderly

-----------------------------------------------------------------------------
(* What an orderly state is like.                                           *)

\* A request on the network is there alone, and its op is the active one.
LEMMA OnlyRequest ==
  ASSUME Good
  PROVE  /\ \A r \in events : r \in Event /\ r.op \in Op /\ Active(r.op) /\ events = {r} /\ imports = {}
         /\ \A j \in imports : j \in Import /\ j.op \in Op /\ Active(j.op) /\ imports = {j} /\ events = {}
<1>1. /\ \A r \in events : r \in Event /\ r.op \in Op /\ pc[r.op] = "event" /\ Active(r.op)
      /\ \A j \in imports : j \in Import /\ j.op \in Op /\ pc[j.op] = "import" /\ Active(j.op)
  BY DEF Good, Orderly, Requests, Active, TypeInv, TypeOK, Event, Import
<1>2. \A r, q \in events : r = q
  <2> SUFFICES ASSUME NEW r \in events, NEW q \in events PROVE r = q OBVIOUS
  <2>1. r.op = q.op BY <1>1 DEF Good, Orderly, OneAtATime
  <2>2. r.to = q.to BY <2>1 DEF Good, Orderly, Requests
  <2>3. r.room = q.room BY <2>2 DEF Good, Orderly, Requests
  <2> QED BY <1>1, <2>1, <2>2, <2>3 DEF Event
<1>3. \A i, j \in imports : i = j
  BY <1>1 DEF Good, Orderly, OneAtATime, Flow, Imports
<1>4. events = {} \/ imports = {}
  BY <1>1 DEF Good, Orderly, OneAtATime
<1> QED BY <1>1, <1>2, <1>3, <1>4

\* Who owes is the active op.
LEMMA OwingIsActive ==
  ASSUME NEW o \in Op, NEW m, Owes(o, m) PROVE Active(o)
BY DEF Owes, Active

LEMMA Settled ==
  ASSUME Good, \A p \in Op : ~Active(p)
  PROVE  /\ events = {} /\ imports = {}
         /\ \A m \in Mirrors : link[m] # 0 => Agrees(m, link[m])
<1>1. events = {} /\ imports = {} BY OnlyRequest
<1> QED BY <1>1, OwingIsActive DEF Good, Orderly, Synced

\* While an op is under way and no import is filling a room.
LEMMA UnderWay ==
  ASSUME Good, NEW o \in Op, Active(o), \A j \in imports : j.stage # "fill"
  PROVE  /\ \A p \in Op \ {o} : ~Active(p)
         /\ \A m \in Mirrors : link[m] # 0 => Agrees(m, link[m]) \/ (Owes(o, m) /\ Lacks(o, m))
         /\ \A m \in Mirrors : link[m] = 0 => Rooms(m) = {}
<1>1. \A p \in Op \ {o} : ~Active(p) BY DEF Good, Orderly, OneAtATime
<1>2. ASSUME NEW m \in Mirrors, link[m] # 0
      PROVE  Agrees(m, link[m]) \/ (Owes(o, m) /\ Lacks(o, m))
  BY <1>1, <1>2, OwingIsActive DEF Good, Orderly, Synced
<1>3. \A m \in Mirrors : link[m] = 0 => Rooms(m) = {} BY DEF Good, Orderly, OneRoom
<1> QED BY <1>1, <1>2, <1>3

LEMMA NothingSent ==
  ASSUME Good, NEW o \in Op, Active(o), pc[o] \notin {"import", "event"}
  PROVE  events = {} /\ imports = {}
<1>1. \A r \in events : pc[r.op] = "event" /\ r.op = o
  BY OnlyRequest DEF Good, Orderly, OneAtATime, Requests
<1>2. \A j \in imports : pc[j.op] = "import" /\ j.op = o
  BY OnlyRequest DEF Good, Orderly, OneAtATime, Requests
<1> QED BY <1>1, <1>2

\* A step of the only op.
LEMMA OneStays ==
  ASSUME NEW o \in Op, \A p \in Op \ {o} : ~Active(p) /\ pc'[p] = pc[p]
  PROVE  /\ OneAtATime'
         /\ Course(o)' => \A p \in Op : Course(p)'
<1>1. \A p \in Op \ {o} : ~Active(p)' /\ Course(p)' BY DEF Active, Course
<1> QED BY <1>1 DEF OneAtATime

\* No room comes or goes.
LEMMA RoomsStay ==
  ASSUME Good, UNCHANGED <<link, owner>>, \A j \in imports : j.stage # "fill",
         \A k \in imports' : k.stage = "sent"
  PROVE  OneRoom'
<1>1. \A m : Rooms(m)' = Rooms(m) BY DEF Rooms
<1>2. \A m \in Mirrors : link[m] = 0 => Rooms(m) = {} BY DEF Good, Orderly, OneRoom
<1> QED BY <1>1, <1>2 DEF Good, Orderly, OneRoom

-----------------------------------------------------------------------------
(* The steps of the op.                                                     *)

LEMMA BeginOrderly ==
  ASSUME Good, NEW o \in Op, NEW k \in Kind, NEW u \in User, Begin(o, k, u),
         \A p \in Op : ~Active(p)
  PROVE  Orderly'
<1>1. /\ events = {} /\ imports = {}
      /\ \A m \in Mirrors : link[m] # 0 => Agrees(m, link[m])
  BY Settled
<1>2. UNCHANGED <<hosted, link, owner, roster, events, imports>> BY DEF Begin, tables, net
<1>3. /\ kind'[o] = k /\ who'[o] = u /\ fresh'[o] = (u \notin hosted)
      /\ pc'[o] = IF k = "invite" /\ u \in hosted THEN "mirrors" ELSE "commit"
      /\ \A p \in Op \ {o} : pc'[p] = pc[p]
  BY DEF Begin, Goto, Good, TypeInv, TypeOK
<1>4. Course(o)' BY <1>2, <1>3 DEF Course
<1>5. OneAtATime' /\ \A p \in Op : Course(p)' BY <1>3, <1>4, OneStays
<1>6. Requests' BY <1>1, <1>2 DEF Requests
<1>7. OneRoom' BY <1>1, <1>2, RoomsStay
<1>8. Synced' BY <1>1, <1>2 DEF Synced, Agrees
<1> QED BY <1>5, <1>6, <1>7, <1>8 DEF Orderly

LEMMA CommitOrderly ==
  ASSUME Good, NEW o \in Op, Commit(o)
  PROVE  Orderly'
<1>1. pc[o] = "commit" /\ UNCHANGED <<link, owner, roster, kind, who, fresh, events, imports>>
  BY DEF Commit, ops, net
<1>2. events = {} /\ imports = {} BY <1>1, NothingSent DEF Active
<1>3. /\ \A p \in Op \ {o} : ~Active(p)
      /\ \A m \in Mirrors : link[m] # 0 => Agrees(m, link[m])
  BY <1>1, <1>2, UnderWay DEF Active, Owes
<1>4. \A p \in Op \ {o} : pc'[p] = pc[p] BY DEF Commit, Goto, Good, TypeInv, TypeOK
<1>5. \/ pc'[o] = "dead" /\ hosted' = hosted
      \/ /\ kind[o] # "remove" /\ hosted' = hosted \cup {who[o]}
         /\ pc'[o] = IF kind[o] = "invite" THEN "mirrors" ELSE "links"
      \/ kind[o] = "remove" /\ hosted' = hosted \ {who[o]} /\ pc'[o] = "links"
  BY DEF Commit, Goto, Good, TypeInv, TypeOK
<1>6. kind[o] = "invite" => fresh[o] BY <1>1 DEF Good, Orderly, Course
<1>7. Course(o)' BY <1>1, <1>5 DEF Course
<1>8. OneAtATime' /\ \A p \in Op : Course(p)' BY <1>3, <1>4, <1>7, OneStays
<1>9. Requests' BY <1>1, <1>2 DEF Requests
<1>10. OneRoom' BY <1>1, <1>2, RoomsStay
<1>11. ASSUME NEW m \in Mirrors, link'[m] # 0
       PROVE  Agrees(m, link[m])' \/ (Owes(o, m)' /\ Lacks(o, m)')
  <2>1. Agrees(m, link[m]) BY <1>1, <1>3, <1>11
  <2>2. CASE hosted' = hosted BY <1>1, <2>1, <2>2 DEF Agrees
  <2>3. CASE pc'[o] # "dead"
    <3>1. Owes(o, m)' BY <1>1, <1>5, <1>6, <2>3 DEF Owes
    <3>2. Lacks(o, m)' BY <1>1, <1>5, <2>1 DEF Lacks, Agrees
    <3> QED BY <3>1, <3>2
  <2> QED BY <1>5, <2>2, <2>3
<1>12. Synced' BY <1>11 DEF Synced
<1> QED BY <1>8, <1>9, <1>10, <1>12 DEF Orderly

LEMMA SendImportOrderly ==
  ASSUME Good, NEW o \in Op, SendImport(o)
  PROVE  Orderly'
<1> DEFINE j == [op |-> o, to |-> Home[who[o]], snap |-> hosted,
                 room |-> 0, stage |-> "sent", seen |-> {}]
<1>1. /\ pc[o] = "mirrors" /\ imports' = imports \cup {j}
      /\ UNCHANGED <<hosted, link, owner, roster, kind, who, fresh, todo, events>>
  BY DEF SendImport, tables
<1>2. events = {} /\ imports = {} BY <1>1, NothingSent DEF Active
<1>3. /\ \A p \in Op \ {o} : ~Active(p)
      /\ \A m \in Mirrors : link[m] # 0 => Agrees(m, link[m]) \/ (Owes(o, m) /\ Lacks(o, m))
  BY <1>1, <1>2, UnderWay DEF Active
<1>4. pc'[o] = "import" /\ \A p \in Op \ {o} : pc'[p] = pc[p]
  BY DEF SendImport, Goto, Good, TypeInv, TypeOK
<1>5. j.op = o /\ j.snap = hosted /\ j.stage = "sent" OBVIOUS
<1> HIDE DEF j
<1>6. Course(o)' BY <1>1, <1>4 DEF Course, Good, Orderly
<1>7. OneAtATime' /\ \A p \in Op : Course(p)' BY <1>3, <1>4, <1>6, OneStays
<1>8. Requests' BY <1>1, <1>2, <1>4, <1>5 DEF Requests
<1>9. OneRoom' BY <1>1, <1>2, <1>5, RoomsStay
<1>10. Synced' BY <1>1, <1>3, <1>4 DEF Synced, Agrees, Owes, Lacks
<1> QED BY <1>7, <1>8, <1>9, <1>10 DEF Orderly

\* The steps that send nothing and change no table.
LEMMA PlainOrderly ==
  ASSUME Good, NEW o \in Op, NoMirrorNeeded(o) \/ Links(o) \/ End(o)
  PROVE  Orderly'
<1>1. /\ pc[o] \in {"mirrors", "links", "relay"}
      /\ UNCHANGED <<hosted, link, owner, roster, kind, who, fresh, events, imports>>
  BY DEF NoMirrorNeeded, Links, End, tables, ops, net
<1>2. events = {} /\ imports = {} BY <1>1, NothingSent DEF Active
<1>3. /\ \A p \in Op \ {o} : ~Active(p)
      /\ \A m \in Mirrors : link[m] # 0 => Agrees(m, link[m]) \/ (Owes(o, m) /\ Lacks(o, m))
  BY <1>1, <1>2, UnderWay DEF Active
<1>4. \/ /\ pc[o] = "mirrors" /\ UNCHANGED todo
         /\ pc'[o] = IF fresh[o] THEN "links" ELSE "done"
      \/ /\ pc[o] = "links" /\ pc'[o] = "relay"
         /\ todo'[o] = {<<m, link[m]>> : m \in {x \in Mirrors : link[x] # 0}}
      \/ pc[o] = "relay" /\ pc'[o] = "done" /\ todo[o] = {} /\ UNCHANGED todo
  BY DEF NoMirrorNeeded, AfterMirrors, Links, End, Goto, ops, Good, TypeInv, TypeOK
<1>5. \A p \in Op \ {o} : pc'[p] = pc[p]
  BY DEF NoMirrorNeeded, AfterMirrors, Links, End, Goto, Good, TypeInv, TypeOK
<1>6. Course(o)' BY <1>1, <1>4 DEF Course, Good, Orderly
<1>7. OneAtATime' /\ \A p \in Op : Course(p)' BY <1>3, <1>5, <1>6, OneStays
<1>8. Requests' BY <1>1, <1>2 DEF Requests
<1>9. OneRoom' BY <1>1, <1>2, RoomsStay
<1>10. ASSUME NEW m \in Mirrors, link'[m] # 0
       PROVE  Agrees(m, link[m])' \/ (Owes(o, m)' /\ Lacks(o, m)')
  <2>1. CASE Agrees(m, link[m]) BY <1>1, <2>1 DEF Agrees
  <2>2. CASE Owes(o, m) /\ Lacks(o, m)
    <3>1. Lacks(o, m)' BY <1>1, <2>2 DEF Lacks
    <3>2. Owes(o, m)' BY <1>1, <1>4, <1>10, <2>2 DEF Owes
    <3> QED BY <3>1, <3>2
  <2> QED BY <1>1, <1>3, <1>10, <2>1, <2>2
<1>11. Synced' BY <1>10 DEF Synced
<1> QED BY <1>7, <1>8, <1>9, <1>11 DEF Orderly

LEMMA TellOrderly ==
  ASSUME Good, NEW o \in Op, Tell(o)
  PROVE  Orderly'
<1>1. PICK x \in todo[o] :
        /\ todo' = [todo EXCEPT ![o] = @ \ {x}]
        /\ asked' = [asked EXCEPT ![o] = x[1]]
        /\ events' = events \cup {[op |-> o, to |-> x[1], room |-> x[2]]}
  BY DEF Tell
<1>2. /\ pc[o] = "relay"
      /\ UNCHANGED <<hosted, link, owner, roster, kind, who, fresh, imports>>
  BY DEF Tell, tables
<1>3. events = {} /\ imports = {} BY <1>2, NothingSent DEF Active
<1>4. /\ \A p \in Op \ {o} : ~Active(p)
      /\ \A m \in Mirrors : link[m] # 0 => Agrees(m, link[m]) \/ (Owes(o, m) /\ Lacks(o, m))
  BY <1>2, <1>3, UnderWay DEF Active
<1>5. pc'[o] = "event" /\ \A p \in Op \ {o} : pc'[p] = pc[p]
  BY DEF Tell, Goto, Good, TypeInv, TypeOK
<1>6. todo'[o] = todo[o] \ {x} /\ asked'[o] = x[1]
  BY <1>1 DEF Good, TypeInv, TypeOK
<1>7. \A y \in todo[o] : y[2] = link[y[1]] /\ y[2] # 0
  BY <1>2 DEF Course, Good, Orderly
<1>8. Course(o)' BY <1>2, <1>5, <1>6, <1>7 DEF Course, Good, Orderly
<1>9. OneAtATime' /\ \A p \in Op : Course(p)' BY <1>4, <1>5, <1>8, OneStays
<1>10. Requests' BY <1>1, <1>2, <1>3, <1>5, <1>6, <1>7 DEF Requests
<1>11. OneRoom' BY <1>2, <1>3, RoomsStay
<1>12. ASSUME NEW m \in Mirrors, link'[m] # 0
       PROVE  Agrees(m, link[m])' \/ (Owes(o, m)' /\ Lacks(o, m)')
  <2>1. CASE Agrees(m, link[m]) BY <1>2, <2>1 DEF Agrees
  <2>2. CASE Owes(o, m) /\ Lacks(o, m)
    <3>1. Lacks(o, m)' BY <1>2, <2>2 DEF Lacks
    <3>2. <<m, link[m]>> \in todo[o] BY <1>2, <2>2 DEF Owes
    <3>3. CASE x = <<m, link[m]>>
      <4>1. asked'[o] = m BY <1>6, <3>3
      <4> QED BY <1>5, <3>1, <4>1 DEF Owes
    <3>4. CASE x # <<m, link[m]>> BY <1>2, <1>5, <1>6, <3>1, <3>2, <3>4 DEF Owes
    <3> QED BY <3>3, <3>4
  <2> QED BY <1>2, <1>4, <1>12, <2>1, <2>2
<1>13. Synced' BY <1>12 DEF Synced
<1> QED BY <1>9, <1>10, <1>11, <1>13 DEF Orderly

-----------------------------------------------------------------------------
(* The steps of the mirrors.                                                *)

\* The mirror that was told agrees.
LEMMA ApplyOrderly ==
  ASSUME Good, NEW r \in events, Apply(r)
  PROVE  Orderly'
<1> DEFINE o == r.op  n == r.to
<1>1. /\ r \in Event /\ o \in Op /\ n \in Mirrors /\ Active(o) /\ events = {r} /\ imports = {}
  BY OnlyRequest DEF Event
<1>2. /\ pc[o] = "event" /\ asked[o] = n /\ r.room = link[n] /\ r.room \in MirrorRoom
  BY <1>1 DEF Good, Orderly, Requests, Event
<1>3. /\ events' = {} /\ imports' = {}
      /\ UNCHANGED <<hosted, link, owner, kind, who, fresh, todo>>
  BY <1>1 DEF Apply, ops
<1> HIDE DEF o, n
<1>4. pc'[o] = "relay" /\ \A p \in Op \ {o} : pc'[p] = pc[p]
  BY <1>1, <1>2 DEF o, n, Apply, EventOver, Goto, Good, TypeInv, TypeOK
<1>5. /\ \A p \in Op \ {o} : ~Active(p)
      /\ \A m \in Mirrors : link[m] # 0 => Agrees(m, link[m]) \/ (Owes(o, m) /\ Lacks(o, m))
  BY <1>1, UnderWay
<1>6. Course(o) BY <1>1 DEF Good, Orderly
<1>7. Course(o)' BY <1>2, <1>3, <1>4, <1>6 DEF Course
<1>8. OneAtATime' /\ \A p \in Op : Course(p)' BY <1>1, <1>4, <1>5, <1>7, OneStays
<1>9. Requests' BY <1>3 DEF Requests
<1>10. OneRoom' BY <1>1, <1>3, RoomsStay
<1>11. /\ roster'[n][link[n]] = IF kind[o] = "remove" THEN roster[n][link[n]] \ {who[o]}
                                                     ELSE roster[n][link[n]] \cup {who[o]}
       /\ \A m \in Mirrors \ {n} : roster'[m] = roster[m]
  BY <1>1, <1>2 DEF o, n, Apply, Good, TypeInv, TypeOK
<1>12. ASSUME NEW m \in Mirrors, link'[m] # 0
       PROVE  Agrees(m, link[m])' \/ (Owes(o, m)' /\ Lacks(o, m)')
  <2>1. CASE m = n
    <3>1. who[o] \in hosted <=> kind[o] # "remove" BY <1>2, <1>6 DEF Course
    <3>2. roster[n][link[n]] \ {owner[n][link[n]], who[o]} = hosted \ {owner[n][link[n]], who[o]}
      BY <1>3, <1>5, <1>12, <2>1 DEF Agrees, Lacks
    <3>3. roster'[n][link[n]] \ {owner[n][link[n]]} = hosted \ {owner[n][link[n]]}
      BY <1>11, <3>1, <3>2
    <3> QED BY <1>3, <2>1, <3>3 DEF Agrees
  <2>2. CASE m # n
    <3>1. roster'[m] = roster[m] BY <1>11, <2>2
    <3>2. CASE Agrees(m, link[m]) BY <1>3, <3>1, <3>2 DEF Agrees
    <3>3. CASE Owes(o, m) /\ Lacks(o, m)
      <4>1. Lacks(o, m)' BY <1>3, <3>1, <3>3 DEF Lacks
      <4>2. Owes(o, m)' BY <1>2, <1>3, <1>4, <2>2, <3>3 DEF Owes
      <4> QED BY <4>1, <4>2
    <3> QED BY <1>3, <1>5, <1>12, <3>2, <3>3
  <2> QED BY <2>1, <2>2
<1>13. Synced' BY <1>1, <1>12 DEF Synced
<1> QED BY <1>8, <1>9, <1>10, <1>13 DEF Orderly

\* An import goes on: k is j in its next stage, or with more members seen.
LEMMA ImportGoesOn ==
  ASSUME Good, NEW j \in imports, NEW k, Becomes(j, k), k.op = j.op, k.snap = j.snap,
         UNCHANGED <<hosted, link, ops, pc, events>>
  PROVE  /\ OneAtATime' /\ Requests' /\ \A o \in Op : Course(o)'
         /\ imports' = {k}
         /\ \A m \in Mirrors : link'[m] = link[m] /\ \A o \in Op : Owes(o, m)' <=> Owes(o, m)
<1>1. imports = {j} /\ j.op \in Op BY OnlyRequest
<1>2. imports' = {k} BY <1>1 DEF Becomes
<1>3. UNCHANGED <<kind, who, fresh, todo, asked>> BY DEF ops
<1>4. Requests' BY <1>1, <1>2, <1>3 DEF Requests, Good, Orderly
<1>5. OneAtATime' BY DEF OneAtATime, Active, Good, Orderly
<1>6. \A o \in Op : Course(o)' BY <1>3 DEF Course, Good, Orderly
<1>7. \A m, o : Owes(o, m)' <=> Owes(o, m) BY <1>3 DEF Owes
<1> QED BY <1>2, <1>4, <1>5, <1>6, <1>7

LEMMA FindOrderly ==
  ASSUME Good, NEW j \in imports, Find(j)
  PROVE  Orderly'
<1>1. /\ imports = {j} /\ j \in Import /\ j.op \in Op /\ j.to \in Mirrors /\ Active(j.op)
      /\ j.stage = "sent" /\ UNCHANGED <<tables, ops, events>>
  BY OnlyRequest DEF Import, Find
<1>2. UNCHANGED <<hosted, link, owner, roster, who>> BY <1>1 DEF tables, ops
<1>3. /\ \A m \in Mirrors : link[m] # 0 => Agrees(m, link[m]) \/ (Owes(j.op, m) /\ Lacks(j.op, m))
      /\ \A m \in Mirrors : link[m] = 0 => Rooms(m) = {}
  BY <1>1, UnderWay
<1>4. Rooms(j.to) = {} \/ Rooms(j.to) = {link[j.to]}
  BY <1>1, <1>3 DEF Good, Orderly, OneRoom
<1>5. ~(Cardinality(Rooms(j.to)) > 1)
  <2>1. CASE Rooms(j.to) = {}
    <3>1. Cardinality(Rooms(j.to)) = 0 BY <2>1, FS_EmptySet
    <3> QED BY <3>1
  <2>2. CASE Rooms(j.to) = {link[j.to]}
    <3>1. Cardinality(Rooms(j.to)) = 1 BY <2>2, FS_Singleton
    <3> QED BY <3>1
  <2> QED BY <1>4, <2>1, <2>2
<1>6. PICK k : /\ Becomes(j, k) /\ k.op = j.op /\ k.snap = j.snap /\ k.to = j.to /\ UNCHANGED pc
               /\ \/ k.stage = "create" /\ Rooms(j.to) = {}
                  \/ k.stage = "fill" /\ Rooms(j.to) = {k.room}
  <2>1. CASE Rooms(j.to) = {} /\ Becomes(j, [j EXCEPT !.stage = "create"]) /\ UNCHANGED pc
    BY <1>1, <2>1 DEF Import
  <2>2. ASSUME NEW i \in Rooms(j.to), Rooms(j.to) = {i}, UNCHANGED pc,
               Becomes(j, [j EXCEPT !.stage = "fill", !.room = i])
        PROVE  \E k : /\ Becomes(j, k) /\ k.op = j.op /\ k.snap = j.snap /\ k.to = j.to
                      /\ UNCHANGED pc /\ k.stage = "fill" /\ Rooms(j.to) = {k.room}
    <3> DEFINE next == [j EXCEPT !.stage = "fill", !.room = i]
    <3>1. /\ next.op = j.op /\ next.snap = j.snap /\ next.to = j.to
          /\ next.stage = "fill" /\ next.room = i
      BY <1>1 DEF Import
    <3>2. Becomes(j, next) BY <2>2
    <3> HIDE DEF next
    <3> QED BY <2>2, <3>1, <3>2
  <2> QED BY <1>5, <2>1, <2>2 DEF Find
<1>7. /\ OneAtATime' /\ Requests' /\ \A o \in Op : Course(o)'
      /\ imports' = {k}
      /\ \A m \in Mirrors : \A o \in Op : Owes(o, m)' <=> Owes(o, m)
  BY <1>1, <1>2, <1>6, ImportGoesOn
<1>8. \A m : Rooms(m)' = Rooms(m) BY <1>2 DEF Rooms
<1>9. OneRoom'
  <2>1. \A m \in Mirrors : link'[m] # 0 => Rooms(m)' = {link'[m]}
    BY <1>2, <1>8 DEF Good, Orderly, OneRoom
  <2>2. \A m \in Mirrors : link'[m] = 0 => Rooms(m)' = {} BY <1>2, <1>3, <1>8
  <2>3. \A i \in imports' : /\ i.stage = "create" => Rooms(i.to)' = {}
                            /\ i.stage = "fill" => Rooms(i.to)' = {i.room}
    BY <1>6, <1>7, <1>8
  <2> QED BY <2>1, <2>2, <2>3 DEF OneRoom
<1>10. Synced' BY <1>1, <1>2, <1>3, <1>7 DEF Synced, Agrees, Lacks
<1> QED BY <1>7, <1>9, <1>10 DEF Orderly

LEMMA CreateOrderly ==
  ASSUME Good, NEW j \in imports, Create(j)
  PROVE  Orderly'
<1>1. /\ imports = {j} /\ j \in Import /\ j.op \in Op /\ j.to \in Mirrors /\ Active(j.op)
      /\ j.stage = "create" /\ UNCHANGED <<hosted, link, roster, ops, pc, events>>
  BY OnlyRequest DEF Import, Create
<1>2. UNCHANGED who BY <1>1 DEF ops
<1>3. PICK w \in User : owner' = [owner EXCEPT ![j.to][j.op] = w]
  BY <1>1 DEF Create, Import
<1>4. /\ \A m \in Mirrors : link[m] # 0 => Agrees(m, link[m]) \/ (Owes(j.op, m) /\ Lacks(j.op, m))
      /\ \A m \in Mirrors : link[m] = 0 => Rooms(m) = {}
      /\ Rooms(j.to) = {}
  BY <1>1, UnderWay DEF Good, Orderly, OneRoom
<1>5. link[j.to] = 0 BY <1>1, <1>4 DEF Good, Orderly, OneRoom
<1>6. PICK k : /\ Becomes(j, k) /\ k.op = j.op /\ k.snap = j.snap /\ k.to = j.to
               /\ k.stage = "fill" /\ k.room = j.op
  <2> DEFINE next == [j EXCEPT !.stage = "fill", !.room = j.op]
  <2>1. Becomes(j, next) BY DEF Create
  <2>2. /\ next.op = j.op /\ next.snap = j.snap /\ next.to = j.to
        /\ next.stage = "fill" /\ next.room = j.op
    BY <1>1 DEF Import
  <2> HIDE DEF next
  <2> QED BY <2>1, <2>2
<1>7. /\ OneAtATime' /\ Requests' /\ \A o \in Op : Course(o)'
      /\ imports' = {k}
      /\ \A m \in Mirrors : \A o \in Op : Owes(o, m)' <=> Owes(o, m)
  BY <1>1, <1>6, ImportGoesOn
<1>8. /\ \A m \in Mirrors \ {j.to} : owner'[m] = owner[m]
      /\ owner'[j.to] = [owner[j.to] EXCEPT ![j.op] = w]
      /\ owner[j.to] \in [MirrorRoom -> User \cup {None}]
  BY <1>1, <1>3 DEF Good, TypeInv, TypeOK
<1>9. \A m \in Mirrors \ {j.to} : Rooms(m)' = Rooms(m) BY <1>8 DEF Rooms
<1>10. Rooms(j.to)' = {j.op}
  <2>1. w # None BY RosterAssumption
  <2>2. \A i \in MirrorRoom : owner[j.to][i] = None BY <1>4 DEF Rooms
  <2> QED BY <1>1, <1>8, <2>1, <2>2 DEF Rooms, MirrorRoom
<1>11. OneRoom'
  <2>1. \A m \in Mirrors : link'[m] # 0 => Rooms(m)' = {link'[m]}
    BY <1>1, <1>5, <1>9 DEF Good, Orderly, OneRoom
  <2>2. \A m \in Mirrors : link'[m] = 0 /\ Rooms(m)' # {} => m = j.to
    BY <1>1, <1>4, <1>9
  <2>3. \A i \in imports' : /\ i.stage = "create" => Rooms(i.to)' = {}
                            /\ i.stage = "fill" => Rooms(i.to)' = {i.room}
    BY <1>6, <1>7, <1>10
  <2> QED BY <1>6, <1>7, <2>1, <2>2, <2>3 DEF OneRoom
<1>12. Synced' BY <1>1, <1>2, <1>4, <1>5, <1>7, <1>8 DEF Synced, Agrees, Lacks
<1> QED BY <1>7, <1>11, <1>12 DEF Orderly

LEMMA FillPartlyOrderly ==
  ASSUME Good, NEW j \in imports, FillPartly(j)
  PROVE  Orderly'
<1>1. /\ imports = {j} /\ j \in Import /\ j.op \in Op /\ j.to \in Mirrors
      /\ j.stage = "fill" /\ UNCHANGED <<hosted, link, owner, ops, pc, events>>
  BY OnlyRequest DEF Import, FillPartly
<1>2. UNCHANGED who BY <1>1 DEF ops
<1>3. PICK u, more : /\ roster' = [roster EXCEPT ![j.to][j.room] = j.seen \cup more]
                     /\ Becomes(j, [j EXCEPT !.seen = @ \cup more \cup {u}])
  BY DEF FillPartly
<1>4. PICK k : /\ Becomes(j, k) /\ k.op = j.op /\ k.snap = j.snap /\ k.to = j.to
               /\ k.stage = "fill" /\ k.room = j.room
  BY <1>1, <1>3 DEF Import
<1>5. /\ OneAtATime' /\ Requests' /\ \A o \in Op : Course(o)'
      /\ imports' = {k}
      /\ \A m \in Mirrors : \A o \in Op : Owes(o, m)' <=> Owes(o, m)
  BY <1>1, <1>4, ImportGoesOn
<1>6. \A m : Rooms(m)' = Rooms(m) BY <1>1 DEF Rooms
<1>7. OneRoom' BY <1>1, <1>4, <1>5, <1>6 DEF Good, Orderly, OneRoom
<1>8. \A m \in Mirrors \ {j.to} : roster'[m] = roster[m] BY <1>3 DEF Good, TypeInv, TypeOK
<1>9. ASSUME NEW m \in Mirrors, link'[m] # 0
      PROVE  \/ Agrees(m, link[m])'
             \/ \E o \in Op : Owes(o, m)' /\ Lacks(o, m)'
             \/ \E i \in imports' : i.to = m /\ i.stage = "fill"
  <2>1. CASE m = j.to BY <1>4, <1>5, <2>1
  <2>2. CASE m # j.to
    <3>1. Agrees(m, link[m]) \/ \E o \in Op : Owes(o, m) /\ Lacks(o, m)
      BY <1>1, <1>9, <2>2 DEF Good, Orderly, Synced
    <3>2. roster'[m] = roster[m] BY <1>8, <2>2
    <3> QED BY <1>1, <1>2, <1>5, <3>1, <3>2 DEF Agrees, Lacks
  <2> QED BY <2>1, <2>2
<1>10. Synced' BY <1>9 DEF Synced
<1> QED BY <1>5, <1>7, <1>10 DEF Orderly

\* The mirror that was filled agrees, and the host knows its room.
LEMMA FillOrderly ==
  ASSUME Good, NEW j \in imports, Fill(j)
  PROVE  Orderly'
<1> DEFINE o == j.op  n == j.to
<1>1. /\ imports = {j} /\ events = {} /\ j \in Import /\ o \in Op /\ n \in Mirrors /\ Active(o)
      /\ j.stage = "fill" /\ pc[o] = "import" /\ j.snap = hosted
  BY OnlyRequest DEF Import, Fill, Good, Orderly, Requests
<1>2. j.room \in MirrorRoom /\ Rooms(n) = {j.room}
  BY <1>1 DEF Good, TypeInv, Filling, Import, Orderly, OneRoom
<1>3. /\ imports' = {} /\ events' = {} /\ UNCHANGED <<hosted, owner, kind, who, fresh, todo>>
      /\ roster' = [roster EXCEPT ![n][j.room] = hosted \cup {owner[n][j.room]}]
      /\ link' = [link EXCEPT ![n] = j.room]
      /\ AfterMirrors(o)
  BY <1>1 DEF Fill, ImportOver
<1> HIDE DEF o, n
<1>4. /\ pc'[o] = IF fresh[o] THEN "links" ELSE "done"
      /\ \A p \in Op \ {o} : pc'[p] = pc[p]
  BY <1>1, <1>3 DEF AfterMirrors, Goto, Good, TypeInv, TypeOK
<1>5. \A p \in Op \ {o} : ~Active(p) BY <1>1 DEF Good, Orderly, OneAtATime
<1>6. Course(o)' BY <1>1, <1>3, <1>4 DEF Course, Good, Orderly
<1>7. OneAtATime' /\ \A p \in Op : Course(p)' BY <1>1, <1>4, <1>5, <1>6, OneStays
<1>8. Requests' BY <1>3 DEF Requests
<1>9. link'[n] = j.room /\ \A m \in Mirrors \ {n} : link'[m] = link[m] /\ roster'[m] = roster[m]
  BY <1>1, <1>3 DEF Good, TypeInv, TypeOK
<1>10. \A m : Rooms(m)' = Rooms(m) BY <1>3 DEF Rooms
<1>11. OneRoom'
  <2>1. \A m \in Mirrors : link'[m] # 0 => Rooms(m)' = {link'[m]}
    BY <1>2, <1>9, <1>10 DEF Good, Orderly, OneRoom
  <2>2. j.room # 0 BY <1>2 DEF MirrorRoom, Op
  <2>3. \A m \in Mirrors : link'[m] = 0 => Rooms(m)' = {}
    BY <1>1, <1>9, <1>10, <2>2 DEF Good, Orderly, OneRoom, n
  <2> QED BY <1>3, <2>1, <2>3 DEF OneRoom
<1>12. ASSUME NEW m \in Mirrors, link'[m] # 0
       PROVE  Agrees(m, link[m])' \/ (Owes(o, m)' /\ Lacks(o, m)')
  <2>1. CASE m = n
    <3>1. roster'[n][j.room] = hosted \cup {owner[n][j.room]}
      BY <1>1, <1>2, <1>3 DEF Good, TypeInv, TypeOK
    <3> QED BY <1>3, <1>9, <2>1, <3>1 DEF Agrees
  <2>2. CASE m # n
    <3>1. link'[m] = link[m] /\ roster'[m] = roster[m] BY <1>9, <2>2
    <3>2. Agrees(m, link[m]) \/ (Owes(o, m) /\ Lacks(o, m))
      <4>1. \A i \in imports : i.to # m BY <1>1, <2>2 DEF n
      <4> QED BY <1>5, <1>12, <3>1, <4>1, OwingIsActive DEF Good, Orderly, Synced
    <3>3. CASE Agrees(m, link[m]) BY <1>3, <3>1, <3>3 DEF Agrees
    <3>4. CASE Owes(o, m) /\ Lacks(o, m)
      <4>1. Lacks(o, m)' BY <1>3, <3>1, <3>4 DEF Lacks
      <4>2. Owes(o, m)' BY <1>1, <1>4, <3>4 DEF Owes
      <4> QED BY <4>1, <4>2
    <3> QED BY <3>2, <3>3, <3>4
  <2> QED BY <2>1, <2>2
<1>13. Synced' BY <1>1, <1>12 DEF Synced
<1> QED BY <1>7, <1>8, <1>11, <1>13 DEF Orderly

-----------------------------------------------------------------------------
(* The theorem.                                                             *)

LEMMA FollowInit == Init => Following
<1> SUFFICES ASSUME Init PROVE Orderly BY DEF Following
<1>1. /\ \A o \in Op : pc[o] = "new" /\ ~Active(o)
      /\ \A m \in Mirrors : link[m] = 0 /\ Rooms(m) = {}
  BY DEF Init, Active, Rooms
<1> QED BY <1>1 DEF Init, Orderly, OneAtATime, Requests, OneRoom, Course, Synced

LEMMA FollowNext == TypeInv /\ Flow /\ Following /\ [Next]_vars => Following'
<1> SUFFICES ASSUME TypeInv, Flow, Following, [Next]_vars, troubles' = 0
             PROVE  Orderly'
  BY DEF Following
<1>1. troubles \in Nat BY RosterAssumption DEF TypeInv, TypeOK
<1>2. ~Trouble BY <1>1 DEF Trouble
<1>3. ~\E o \in Op : NotDiscovered(o) \/ GiveUp(o) BY <1>2 DEF NotDiscovered, GiveUp
<1>4. /\ ~\E r : LoseEvent(r)
      /\ ~\E j : LoseImport(j)
      /\ ~\E m, i, u : ChangeLocally(m, i, u)
      /\ ~\E s : Crash(s)
  BY <1>2 DEF LoseEvent, LoseImport, ChangeLocally, Crash
<1>5. Good
  <2>1. troubles = 0
    <3>1. CASE UNCHANGED troubles BY <3>1
    <3>2. CASE ~UNCHANGED troubles
      BY <1>2, <1>3, <1>4, <3>2
      DEF Next, vars, Begin, Run, Commit, SendImport, NoMirrorNeeded, Links, Tell, End,
          Apply, Serve, Find, Create, FillPartly, Fill
    <3> QED BY <3>1, <3>2
  <2> QED BY <2>1 DEF Good, Following
<1>6. CASE UNCHANGED vars
  BY <1>5, <1>6
  DEF vars, tables, ops, net, Good, Orderly, OneAtATime, Requests, OneRoom, Rooms, Course,
      Synced, Owes, Lacks, Agrees, Active
<1>7. ASSUME NEW o \in Op, NEW k \in Kind, NEW u \in User, Begin(o, k, u) PROVE Orderly'
  <2>1. \A p \in Op : ~Active(p) BY <1>2, <1>7 DEF Begin
  <2> QED BY <1>5, <1>7, <2>1, BeginOrderly
<1>8. ASSUME NEW o \in Op, Run(o) PROVE Orderly'
  BY <1>5, <1>8, CommitOrderly, SendImportOrderly, PlainOrderly, TellOrderly DEF Run
<1>9. ASSUME NEW r \in events, Apply(r) PROVE Orderly' BY <1>5, <1>9, ApplyOrderly
<1>10. ASSUME NEW j \in imports, Serve(j) PROVE Orderly'
  BY <1>5, <1>10, FindOrderly, CreateOrderly, FillPartlyOrderly, FillOrderly DEF Serve
<1> QED BY <1>3, <1>4, <1>6, <1>7, <1>8, <1>9, <1>10 DEF Next

\* Without failed requests, crashes, local requests on mirrors and overlapping
\* requests, every mirror the host knows has the host's roster, up to its own
\* owner, whenever nothing is going on (_relay_membership_event,
\* federation_room_membership, federation_room_import).
THEOREM MirrorsFollowTheHost == Spec => []MirrorsFollow
<1> DEFINE Inv == TypeInv /\ Flow /\ Following
<1>1. Init => Inv BY TypeInit, FlowInit, FollowInit
<1>2. Inv /\ [Next]_vars => Inv' BY TypeNext, FlowNext, FollowNext
<1>3. Inv => MirrorsFollow
  BY Settled DEF Following, Good, MirrorsFollow, Quiet
<1> QED BY <1>1, <1>2, <1>3, PTL DEF Spec
=============================================================================
