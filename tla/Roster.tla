------------------------------- MODULE Roster -------------------------------
(***************************************************************************)
(* The roster of one federated room and the copies its mirrors keep.       *)
(*                                                                         *)
(* The room (of type public) lives on server Host and belongs to Owner.    *)
(* Inviting a user of another server asks that server to import a mirror   *)
(* with the full roster; every other change is sent to each known mirror   *)
(* as one add or remove event.  All of it is best effort: a failed request *)
(* is skipped (app/services/room_service.py, app/routers/federation.py,    *)
(* app/services/federation_service.py).                                    *)
(*                                                                         *)
(* An Op is one request of a local user to the host, a task that goes from *)
(* await to await.  A mirror carries out local requests, too, and tells    *)
(* nobody.  An answer takes no time of its own here: that the op gives up  *)
(* before the request is served covers the lost answer as well.            *)
(*                                                                         *)
(* A definition named "Bad..." is a deliberately wrong variant of the one  *)
(* below it; the properties are tested against these variants.             *)
(***************************************************************************)
EXTENDS Naturals, FiniteSets

CONSTANTS
  Server, Host,  \* the home servers, and the one that hosts the room
  User, Home,    \* the users and Home[u], their home server
  Owner,         \* the owner of the room
  None,          \* the owner of a room that does not exist
  MaxOps,        \* bound: requests to the host
  MaxTroubles    \* bound: requests that overlap, local requests on mirrors,
                 \* failed requests and crashes

ASSUME RosterAssumption ==
  /\ Host \in Server
  /\ Home \in [User -> Server]
  /\ Owner \in User /\ Home[Owner] = Host
  /\ None \notin User
  /\ {MaxOps, MaxTroubles} \subseteq Nat

Mirrors == Server \ {Host}
Op == 1..MaxOps
\* Room ids on a mirror; no op makes a mirror create two rooms.
MirrorRoom == Op
Local(s) == {u \in User : Home[u] = s}

Kind == {"invite", "join", "remove"}
Event == [op : Op, to : Mirrors, room : MirrorRoom]
\* An import on its way or at work: the room it has found or created (0: none
\* yet) and the members it has gone through.
Import == [op : Op, to : Mirrors, snap : SUBSET User, room : {0} \cup MirrorRoom,
           stage : {"sent", "create", "fill"}, seen : SUBSET User]

VARIABLES
  hosted,   \* the room's members in the host's table
  link,     \* link[m]: the room id of m's mirror the host knows, 0 for none
  owner,    \* owner[m][i]: the owner of room i of mirror m
  roster,   \* roster[m][i]: its members
  cached,   \* cached[m]: users that have a row on m
  kind, who,  \* kind[o], who[o]: what op o does, and to whom
  pc,       \* pc[o]: where op o is
  fresh,    \* fresh[o]: the user was no member before (newly_added)
  todo,     \* todo[o]: mirrors (with room ids) op o has still to tell
  asked,    \* asked[o]: the mirror op o waits for
  imported, \* imported[o]: the mirror that confirmed the import of op o
  events, imports,  \* the requests that were sent and not answered yet
  alone,    \* alone[o]: nothing else was going on since op o began (history)
  troubles

tables == <<hosted, link, owner, roster, cached>>
ops == <<kind, who, fresh, todo, asked, imported>>
net == <<events, imports>>
vars == <<tables, ops, pc, net, alone, troubles>>

Phase == {"new", "commit", "mirrors", "import", "links", "relay", "event", "done", "dead"}
Active(o) == pc[o] \notin {"new", "done", "dead"}
Rooms(m) == {i \in MirrorRoom : owner[m][i] # None}

Init ==
  /\ hosted = {Owner}
  /\ link = [m \in Mirrors |-> 0]
  /\ owner = [m \in Mirrors |-> [i \in MirrorRoom |-> None]]
  /\ roster = [m \in Mirrors |-> [i \in MirrorRoom |-> {}]]
  /\ cached = [m \in Mirrors |-> Local(m)]
  /\ kind = [o \in Op |-> "join"] /\ who = [o \in Op |-> Owner]
  /\ pc = [o \in Op |-> "new"]
  /\ fresh = [o \in Op |-> FALSE]
  /\ todo = [o \in Op |-> {}]
  /\ asked = [o \in Op |-> Host]
  /\ imported = [o \in Op |-> Host]
  /\ events = {} /\ imports = {}
  /\ alone = [o \in Op |-> FALSE]
  /\ troubles = 0

Goto(o, phase) == pc' = [pc EXCEPT ![o] = phase]
Trouble == troubles < MaxTroubles /\ troubles' = troubles + 1
Disturbed == alone' = [o \in Op |-> FALSE]
-----------------------------------------------------------------------------
\* invite_user, join_room, leave_room and remove_member up to their first
\* commit: who may do it and whether the user is a member already.  The owner
\* may invite anybody, so the permission of the others adds nothing; leaving is
\* removing oneself.  Nobody removes the owner.
MayBegin(k, u) ==
  \/ k = "invite"
  \/ k = "join" /\ Home[u] = Host /\ u \notin hosted
  \/ k = "remove" /\ u \in hosted \ {Owner}

\* An op is alone as long as nothing else begins or happens on a mirror.
Begin(o, k, u) ==
  /\ pc[o] = "new" /\ \A p \in Op : p < o => pc[p] # "new"
  /\ IF \E p \in Op : Active(p) THEN Trouble ELSE UNCHANGED troubles
  /\ MayBegin(k, u)
  /\ kind' = [kind EXCEPT ![o] = k]
  /\ who' = [who EXCEPT ![o] = u]
  /\ fresh' = [fresh EXCEPT ![o] = u \notin hosted]
  /\ Goto(o, IF k = "invite" /\ u \in hosted THEN "mirrors" ELSE "commit")
  /\ alone' = [p \in Op |-> p = o /\ events = {} /\ imports = {}
                                 /\ \A x \in Op : ~Active(x)]
  /\ UNCHANGED <<tables, todo, asked, imported, net>>

\* The row is written or deleted.  An insert that comes second hits the
\* primary key and fails the request; a delete that comes second is none.
Commit(o) ==
  /\ pc[o] = "commit"
  /\ \/ /\ kind[o] # "remove" /\ who[o] \in hosted
        /\ Goto(o, "dead") /\ UNCHANGED hosted
     \/ /\ kind[o] # "remove" /\ who[o] \notin hosted
        /\ hosted' = hosted \cup {who[o]}
        /\ Goto(o, IF kind[o] = "invite" THEN "mirrors" ELSE "links")
     \/ /\ kind[o] = "remove"
        /\ hosted' = hosted \ {who[o]}
        /\ Goto(o, "links")
  /\ UNCHANGED <<link, owner, roster, cached, ops, net, alone, troubles>>

AfterMirrors(o) == Goto(o, IF fresh[o] THEN "links" ELSE "done")

\* _ensure_remote_mirrors: the roster of this moment goes to the server of the
\* invited user.
SendImport(o) ==
  /\ pc[o] = "mirrors" /\ Home[who[o]] # Host
  /\ Goto(o, "import")
  /\ asked' = [asked EXCEPT ![o] = Home[who[o]]]
  /\ imports' = imports \cup {[op |-> o, to |-> Home[who[o]], snap |-> hosted,
                              room |-> 0, stage |-> "sent", seen |-> {}]}
  /\ UNCHANGED <<tables, kind, who, fresh, todo, imported, events, alone, troubles>>

NoMirrorNeeded(o) ==
  /\ pc[o] = "mirrors" /\ Home[who[o]] = Host
  /\ AfterMirrors(o)
  /\ UNCHANGED <<tables, ops, net, alone, troubles>>

\* ensure_server is outside the try: when the server of a user known from
\* another room cannot be discovered, the request fails with the row written.
NotDiscovered(o) ==
  /\ pc[o] = "mirrors" /\ Home[who[o]] # Host /\ Trouble
  /\ Goto(o, "dead")
  /\ UNCHANGED <<tables, ops, net, alone>>

\* _relay_membership_event: the mirrors known now are told one by one.
Links(o) ==
  /\ pc[o] = "links"
  /\ todo' = [todo EXCEPT ![o] = {<<m, link[m]>> : m \in {x \in Mirrors : link[x] # 0}}]
  /\ Goto(o, "relay")
  /\ UNCHANGED <<tables, kind, who, fresh, asked, imported, net, alone, troubles>>

Tell(o) ==
  /\ pc[o] = "relay"
  /\ \E x \in todo[o] :
       /\ todo' = [todo EXCEPT ![o] = @ \ {x}]
       /\ asked' = [asked EXCEPT ![o] = x[1]]
       /\ events' = events \cup {[op |-> o, to |-> x[1], room |-> x[2]]}
  /\ Goto(o, "event")
  /\ UNCHANGED <<tables, kind, who, fresh, imported, imports, alone, troubles>>

End(o) ==
  /\ pc[o] = "relay" /\ todo[o] = {}
  /\ Goto(o, "done")
  /\ UNCHANGED <<tables, ops, net, alone, troubles>>

\* How op o goes on when its request is answered, given up or lost.
EventOver(r) ==
  IF pc[r.op] = "event" /\ asked[r.op] = r.to THEN Goto(r.op, "relay") ELSE UNCHANGED pc
BadImportOver(j) == UNCHANGED pc
ImportOver(j) == IF pc[j.op] = "import" THEN AfterMirrors(j.op) ELSE UNCHANGED pc

\* The answer does not come in time; the request may be served all the same.
GiveUp(o) ==
  /\ Trouble
  /\ \/ pc[o] = "import" /\ AfterMirrors(o)
     \/ pc[o] = "event" /\ Goto(o, "relay")
  /\ UNCHANGED <<tables, ops, net, alone>>

LoseEvent(r) ==
  /\ r \in events /\ Trouble
  /\ events' = events \ {r}
  /\ EventOver(r)
  /\ UNCHANGED <<tables, ops, imports, alone>>

LoseImport(j) ==
  /\ j \in imports /\ j.stage = "sent" /\ Trouble
  /\ imports' = imports \ {j}
  /\ ImportOver(j)
  /\ UNCHANGED <<tables, ops, events, alone>>
-----------------------------------------------------------------------------
BadApply(r) ==
  /\ r \in events
  /\ roster' = [roster EXCEPT ![r.to][r.room] = @ \cup {who[r.op]}]
  /\ cached' = [cached EXCEPT ![r.to] = @ \cup {who[r.op]}]
  /\ events' = events \ {r}
  /\ EventOver(r)
  /\ UNCHANGED <<hosted, link, owner, ops, imports, alone, troubles>>

\* federation_room_membership: one member more or less, the mirror's owner not
\* excepted.
Apply(r) ==
  /\ r \in events
  /\ roster' = [roster EXCEPT ![r.to][r.room] =
                  IF kind[r.op] = "remove" THEN @ \ {who[r.op]} ELSE @ \cup {who[r.op]}]
  /\ cached' = [cached EXCEPT ![r.to] = @ \cup {who[r.op]}]
  /\ events' = events \ {r}
  /\ EventOver(r)
  /\ UNCHANGED <<hosted, link, owner, ops, imports, alone, troubles>>

Becomes(j, k) == imports' = (imports \ {j}) \cup {k}

\* federation_room_import: is there a mirror already?  With two of them
\* scalar_one_or_none raises and the request fails.
Find(j) ==
  LET found == Rooms(j.to)
  IN  /\ j \in imports /\ j.stage = "sent"
      /\ \/ found = {} /\ Becomes(j, [j EXCEPT !.stage = "create"]) /\ UNCHANGED pc
         \/ /\ \E i \in found : /\ found = {i}
                                /\ Becomes(j, [j EXCEPT !.stage = "fill", !.room = i])
            /\ UNCHANGED pc
         \/ /\ Cardinality(found) > 1
            /\ imports' = imports \ {j}
            /\ ImportOver(j)
      /\ UNCHANGED <<tables, ops, events, alone, troubles>>

BadCreate(j) ==
  /\ j \in imports /\ j.stage = "create"
  /\ owner' = [owner EXCEPT ![j.to][j.op] = 0]
  /\ Becomes(j, [j EXCEPT !.stage = "fill", !.room = j.op])
  /\ UNCHANGED <<hosted, link, roster, cached, ops, pc, events, alone, troubles>>

\* The new room belongs to the first member of the list: the host sends no
\* owner, and the list has no order.
Create(j) ==
  /\ j \in imports /\ j.stage = "create"
  /\ \E w \in j.snap :
       /\ owner' = [owner EXCEPT ![j.to][j.op] = w]
       /\ cached' = [cached EXCEPT ![j.to] = @ \cup {w}]
  /\ Becomes(j, [j EXCEPT !.stage = "fill", !.room = j.op])
  /\ UNCHANGED <<hosted, link, roster, ops, pc, events, alone, troubles>>

\* _add_room_members: caching a user that has no row yet commits whatever is
\* pending, the deletion of the old roster and the members so far included.
FillPartly(j) ==
  /\ j \in imports /\ j.stage = "fill"
  /\ \E u \in j.snap \ (j.seen \cup cached[j.to]) :
       \E more \in SUBSET ((j.snap \cap cached[j.to]) \ j.seen) :
         /\ roster' = [roster EXCEPT ![j.to][j.room] = j.seen \cup more]
         /\ cached' = [cached EXCEPT ![j.to] = @ \cup {u}]
         /\ Becomes(j, [j EXCEPT !.seen = @ \cup more \cup {u}])
  /\ UNCHANGED <<hosted, link, owner, ops, pc, events, alone, troubles>>

BadFill(j) ==
  /\ j \in imports /\ j.stage = "fill" /\ j.snap \subseteq cached[j.to]
  /\ roster' = [roster EXCEPT ![j.to][j.room] = @ \cup j.snap \cup {owner[j.to][j.room]}]
  /\ imports' = imports \ {j}
  /\ ImportOver(j)
  /\ IF pc[j.op] = "import"
     THEN /\ link' = [link EXCEPT ![j.to] = j.room]
          /\ imported' = [imported EXCEPT ![j.op] = j.to]
     ELSE UNCHANGED <<link, imported>>
  /\ UNCHANGED <<hosted, owner, cached, kind, who, fresh, todo, asked, events, alone, troubles>>

\* The last commit, with the room's own owner among the members; the host
\* writes the room id into its link if it still waits.
Fill(j) ==
  /\ j \in imports /\ j.stage = "fill" /\ j.snap \subseteq cached[j.to]
  /\ roster' = [roster EXCEPT ![j.to][j.room] = j.snap \cup {owner[j.to][j.room]}]
  /\ imports' = imports \ {j}
  /\ ImportOver(j)
  /\ IF pc[j.op] = "import"
     THEN /\ link' = [link EXCEPT ![j.to] = j.room]
          /\ imported' = [imported EXCEPT ![j.op] = j.to]
     ELSE UNCHANGED <<link, imported>>
  /\ UNCHANGED <<hosted, owner, cached, kind, who, fresh, todo, asked, events, alone, troubles>>

\* join_room, invite_user, leave_room and remove_member on a mirror: its own
\* users join and leave, and its owner, if it is one of them, invites and
\* removes.  The host learns nothing of it.
ChangeLocally(m, i, u) ==
  /\ owner[m][i] # None /\ Trouble
  /\ Home[u] = m \/ Home[owner[m][i]] = m
  /\ \/ /\ u \notin roster[m][i]
        /\ roster' = [roster EXCEPT ![m][i] = @ \cup {u}]
     \/ /\ u \in roster[m][i] \ {owner[m][i]}
        /\ roster' = [roster EXCEPT ![m][i] = @ \ {u}]
  /\ cached' = [cached EXCEPT ![m] = @ \cup {u}]
  /\ Disturbed
  /\ UNCHANGED <<hosted, link, owner, ops, pc, net>>

\* A server dies and comes back: its tasks are gone, and the host sees the
\* requests fail that were at work there.
Crash(s) ==
  /\ Trouble
  /\ LET killed == {j \in imports : j.to = s /\ j.stage # "sent"}
         failed == {j.op : j \in killed}
     IN  /\ imports' = imports \ killed
         /\ IF s = Host
            THEN pc' = [o \in Op |-> IF Active(o) THEN "dead" ELSE pc[o]]
            ELSE pc' = [o \in Op |-> IF o \in failed /\ pc[o] = "import"
                                     THEN IF fresh[o] THEN "links" ELSE "done"
                                     ELSE pc[o]]
  /\ Disturbed
  /\ UNCHANGED <<tables, ops, events>>

Run(o) ==
  Commit(o) \/ SendImport(o) \/ NoMirrorNeeded(o) \/ Links(o) \/ Tell(o) \/ End(o)
Serve(j) == Find(j) \/ Create(j) \/ FillPartly(j) \/ Fill(j)

Next ==
  \/ \E o \in Op : \/ \E k \in Kind, u \in User : Begin(o, k, u)
                   \/ Run(o) \/ NotDiscovered(o) \/ GiveUp(o)
  \/ \E r \in events : Apply(r) \/ LoseEvent(r)
  \/ \E j \in imports : Serve(j) \/ LoseImport(j)
  \/ \E m \in Mirrors, i \in MirrorRoom, u \in User : ChangeLocally(m, i, u)
  \/ \E s \in Server : Crash(s)

Spec == Init /\ [][Next]_vars

\* Tasks whose await is over go on, and servers serve what they received.
FairSpec ==
  /\ Spec
  /\ \A o \in Op : WF_vars(Run(o))
  /\ WF_vars(\E r \in events : Apply(r))
  /\ WF_vars(\E j \in imports : Serve(j))
-----------------------------------------------------------------------------
Quiet == events = {} /\ imports = {} /\ \A o \in Op : ~Active(o)

\* A mirror has the host's roster, up to its own owner, who is in every roster
\* an import leaves behind.
Agrees(m, i) == roster[m][i] \ {owner[m][i]} = hosted \ {owner[m][i]}

\* Every variable keeps to its type.
TypeOK ==
  /\ hosted \subseteq User
  /\ link \in [Mirrors -> {0} \cup MirrorRoom]
  /\ owner \in [Mirrors -> [MirrorRoom -> User \cup {None}]]
  /\ roster \in [Mirrors -> [MirrorRoom -> SUBSET User]]
  /\ cached \in [Mirrors -> SUBSET User]
  /\ kind \in [Op -> Kind] /\ who \in [Op -> User]
  /\ pc \in [Op -> Phase]
  /\ fresh \in [Op -> BOOLEAN]
  /\ todo \in [Op -> SUBSET (Mirrors \X MirrorRoom)]
  /\ asked \in [Op -> Server] /\ imported \in [Op -> Server]
  /\ events \subseteq Event /\ imports \subseteq Import
  /\ alone \in [Op -> BOOLEAN]
  /\ troubles \in 0..MaxTroubles

\* Without faults, crashes, local requests on mirrors and overlapping requests
\* a mirror has the host's roster whenever nothing is going on.
MirrorsFollow ==
  Quiet /\ troubles = 0 => \A m \in Mirrors : link[m] # 0 => Agrees(m, link[m])

\* The re-import heals: whatever went wrong before, a mirror agrees with the
\* host after an invitation that imported its roster and ran undisturbed.
ImportHeals ==
  \A o \in Op : pc[o] = "done" /\ imported[o] # Host /\ alone[o] =>
    Agrees(imported[o], link[imported[o]])

\* Every request to the host comes to an end, whatever the mirrors do.
OpsEnd == \A o \in Op : Active(o) ~> ~Active(o)
=============================================================================
