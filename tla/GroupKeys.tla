----------------------------- MODULE GroupKeys -----------------------------
(***************************************************************************)
(* Sender-key encryption of one group room, for one of its senders.        *)
(*                                                                         *)
(* The author's client keeps a sending chain, rotates it when the roster   *)
(* has changed or the chain is used up, and uploads the new chain key once *)
(* per member before the first message under it.  The server keeps the     *)
(* latest upload for each recipient.  A recipient fetches the key when it  *)
(* meets a generation it has no chain for (client/crypto/sender_keys.py,   *)
(* client/crypto/sender_key_store.py, client/views/room_view.py,           *)
(* app/services/sender_key_service.py).                                    *)
(*                                                                         *)
(* Chains of different senders and rooms never meet, so one author in one  *)
(* room is enough.  A chain key is named by the Send that created it; that *)
(* wrapping and sealing work is taken for granted.  A send is a task of    *)
(* the client that goes from await to await, and sends may overlap; an     *)
(* upload whose client gave up goes on at the server.                      *)
(*                                                                         *)
(* A definition named "Bad..." is a deliberately wrong variant of the one  *)
(* below it; the properties are tested against these variants.             *)
(***************************************************************************)
EXTENDS Naturals, FiniteSets

CONSTANTS
  Recipient,         \* the other users, members of the room or not
  Namesake,          \* those on other servers whose name without "@server" is the author's
  MaxSends,          \* bound: messages the author sends
  Overlap,           \* bound: how many of them may be under way at a time
  RotationInterval,  \* ROTATION_INTERVAL
  MaxSkip,           \* MAX_SKIP
  KeepGenerations,   \* _KEEP_GENERATIONS
  MaxChanges,        \* bound: joins and leaves
  MaxTroubles        \* bound: failed requests of the author, and deaths and
                     \* losses of storage of the author's client

ASSUME GroupKeysAssumption ==
  /\ Namesake \subseteq Recipient
  /\ {MaxSends, Overlap, MaxSkip, MaxChanges, MaxTroubles} \subseteq Nat
  /\ {RotationInterval, KeepGenerations} \subseteq Nat \ {0}

Send == 1..MaxSends
\* Key 0 stands for no key: no chain, no row.
Chain == [gen : Nat, it : Nat, key : {0} \cup Send]
Row == [gen : Nat, key : {0} \cup Send]
Message == [gen : Nat, n : Nat, key : {0} \cup Send]
NoChain == [gen |-> 0, it |-> 0, key |-> 0]
NoRow == [gen |-> 0, key |-> 0]
NoMessage == [gen |-> 0, n |-> 0, key |-> 0]

VARIABLES
  members,  \* the room's members in the server's table, the author aside
  row,      \* row[r]: the sender_keys row of the author for recipient r
  own,      \* the author's stored sending chain
  roster,   \* {D} when the stored roster digest is that of D, {} without one
  pc,       \* pc[t]: what send t waits for
  parts,    \* parts[t]: the participants get_room gave it
  chain,    \* chain[t]: the chain it has created and not yet used
  msg,      \* msg[t]: its ciphertext
  upload,   \* upload[t]: where its upload request is at the server
  entries,  \* entries[t]: the recipients in the request; after the check,
            \* those whose row will be written
  blank,    \* blank[t]: those among them who had no row at the check
  peers,    \* peers[r]: the receiving chains r has stored
  fetched,  \* fetched[r][t]: {row} while r's answer for message t is under way
  read,     \* read[r]: messages r has decrypted (and keeps as plaintext)
  calm,     \* no overlap, fault, restart or change during a send (history)
  torn,     \* the client died between its two writes (history)
  changes, troubles

server == <<members, row>>
client == <<own, roster>>
sends == <<pc, parts, chain, msg>>
requests == <<upload, entries, blank>>
readers == <<peers, fetched, read>>
bounds == <<changes, troubles>>
vars == <<server, client, sends, requests, readers, calm, torn, bounds>>

Active(t) == pc[t] \in {"room", "upload", "post"}
Idle == \A t \in Send : ~Active(t)
Sent == {t \in Send : pc[t] = "sent"}

Init ==
  /\ members \in SUBSET Recipient
  /\ row = [r \in Recipient |-> NoRow]
  /\ own = NoChain /\ roster = {}
  /\ pc = [t \in Send |-> "new"]
  /\ parts = [t \in Send |-> {}]
  /\ chain = [t \in Send |-> NoChain]
  /\ msg = [t \in Send |-> NoMessage]
  /\ upload = [t \in Send |-> "none"]
  /\ entries = [t \in Send |-> {}]
  /\ blank = [t \in Send |-> {}]
  /\ peers = [r \in Recipient |-> {}]
  /\ fetched = [r \in Recipient |-> [t \in Send |-> {}]]
  /\ read = [r \in Recipient |-> {}]
  /\ calm = TRUE /\ torn = FALSE
  /\ changes = 0 /\ troubles = 0

Goto(t, phase) == pc' = [pc EXCEPT ![t] = phase]
-----------------------------------------------------------------------------
\* _send_group_encrypted starts with get_room.
Begin(t) ==
  /\ pc[t] = "new" /\ \A u \in Send : u < t => pc[u] # "new"
  /\ Cardinality({u \in Send : Active(u)}) < Overlap
  /\ Goto(t, "room")
  /\ parts' = [parts EXCEPT ![t] = members]
  /\ calm' = (calm /\ Idle)
  /\ UNCHANGED <<server, client, chain, msg, requests, readers, torn, bounds>>

\* The roster differs from the one the chain was made for, or the chain is new
\* or used up.
MustRotate(t) ==
  own.key = 0 \/ own.it >= RotationInterval \/ roster # {parts[t]}

BadEncrypt(t, c) ==
  /\ msg' = [msg EXCEPT ![t] = [gen |-> c.gen, n |-> c.it, key |-> c.key]]
  /\ own' = c
  /\ Goto(t, "post")

\* encrypt_group_message, advance_chain and put_own: the message takes the
\* chain's next key.
Encrypt(t, c) ==
  /\ msg' = [msg EXCEPT ![t] = [gen |-> c.gen, n |-> c.it, key |-> c.key]]
  /\ own' = [c EXCEPT !.it = @ + 1]
  /\ Goto(t, "post")

\* The answer of get_room is there and no rotation is due: from reading the
\* chain to storing its successor nothing is awaited.
UseChain(t) ==
  /\ pc[t] = "room" /\ ~MustRotate(t)
  /\ Encrypt(t, own)
  /\ UNCHANGED <<server, roster, parts, chain, requests, readers, calm, torn, bounds>>

BadFreshKey(t) ==
  IF own.key = 0 THEN [gen |-> 0, it |-> 0, key |-> t] ELSE [own EXCEPT !.gen = @ + 1]

BadNextChain(t) == [gen |-> own.gen, it |-> 0, key |-> t]

\* rotate_chain: a fresh key in the next generation.
NextChain(t) ==
  [gen |-> IF own.key = 0 THEN 0 ELSE own.gen + 1, it |-> 0, key |-> t]

\* put_roster and put_own after a rotation.
Adopt(t, c) ==
  /\ roster' = {parts[t]}
  /\ Encrypt(t, c)

\* Whom the client wraps the chain key for.  It means to leave out its own copy,
\* but compares names without their server and leaves out every namesake, who is
\* in the roster digest all the same.
Addressed(t) == parts[t] \ Namesake

RotateAlone(t) ==
  /\ pc[t] = "room" /\ MustRotate(t) /\ Addressed(t) = {}
  /\ Adopt(t, NextChain(t))
  /\ UNCHANGED <<server, parts, chain, requests, readers, calm, torn, bounds>>

\* The chain key is wrapped for each of them and uploaded.  If the public keys
\* of one cannot be fetched, the handler that would leave him out raises itself
\* (its "logging" is bound by a later import only), and the whole send fails:
\* that is Fail.
Rotate(t) ==
  /\ pc[t] = "room" /\ MustRotate(t) /\ Addressed(t) # {}
  /\ entries' = [entries EXCEPT ![t] = Addressed(t)]
  /\ upload' = [upload EXCEPT ![t] = "sent"]
  /\ chain' = [chain EXCEPT ![t] = NextChain(t)]
  /\ Goto(t, "upload")
  /\ UNCHANGED <<server, client, parts, msg, blank, readers, calm, torn, bounds>>

\* The upload succeeded: only now the client takes the chain for its own.
UploadDone(t) ==
  /\ pc[t] = "upload" /\ upload[t] = "done"
  /\ Adopt(t, chain[t])
  /\ UNCHANGED <<server, parts, chain, requests, readers, calm, torn, bounds>>

UploadRefused(t) ==
  /\ pc[t] = "upload" /\ upload[t] = "failed"
  /\ Goto(t, "failed")
  /\ calm' = FALSE
  /\ UNCHANGED <<server, client, parts, chain, msg, requests, readers, torn, bounds>>

\* The message is stored by the server and visible to the members.
Post(t) ==
  /\ pc[t] = "post"
  /\ Goto(t, "sent")
  /\ UNCHANGED <<server, client, parts, chain, msg, requests, readers, calm, torn, bounds>>

\* A request of the send fails or its answer is lost; the server may still
\* work on it.
Fail(t) ==
  /\ Active(t) /\ troubles < MaxTroubles
  /\ Goto(t, "failed")
  /\ troubles' = troubles + 1
  /\ calm' = FALSE
  /\ UNCHANGED <<server, client, parts, chain, msg, requests, readers, torn, changes>>

Adopts(t) ==
  \/ pc[t] = "room" /\ MustRotate(t) /\ Addressed(t) = {}
  \/ pc[t] = "upload" /\ upload[t] = "done"

\* The client dies; its sends are gone, its storage stays.  Between put_roster
\* and put_own it dies with the first written only.
Restart ==
  /\ troubles < MaxTroubles /\ ~Idle
  /\ pc' = [t \in Send |-> IF Active(t) THEN "failed" ELSE pc[t]]
  /\ \/ UNCHANGED <<roster, torn>>
     \/ \E t \in Send : /\ Adopts(t)
                        /\ roster' = {parts[t]}
                        /\ torn' = TRUE
  /\ calm' = FALSE
  /\ troubles' = troubles + 1
  /\ UNCHANGED <<server, own, parts, chain, msg, requests, readers, changes>>

\* The author goes on with a client that has no stored chains: a new device,
\* or a storage that could not be opened.
LoseStorage ==
  /\ troubles < MaxTroubles /\ own.key # 0
  /\ pc' = [t \in Send |-> IF Active(t) THEN "failed" ELSE pc[t]]
  /\ own' = NoChain /\ roster' = {}
  /\ calm' = FALSE
  /\ troubles' = troubles + 1
  /\ UNCHANGED <<server, parts, chain, msg, requests, readers, torn, changes>>
-----------------------------------------------------------------------------
\* upsert_sender_keys: only members get a row, and a lower generation than the
\* stored one is ignored.
Acceptable(t, r) == r \in members /\ chain[t].gen >= row[r].gen

CheckUpload(t) ==
  LET accepted == {r \in entries[t] : Acceptable(t, r)}
  IN  /\ upload[t] = "sent"
      /\ upload' = [upload EXCEPT ![t] = "checked"]
      /\ entries' = [entries EXCEPT ![t] = accepted]
      /\ blank' = [blank EXCEPT ![t] = {r \in accepted : row[r].key = 0}]
      /\ UNCHANGED <<server, client, sends, readers, calm, torn, bounds>>

\* All rows are committed together, on top of what another upload may have
\* committed since the check; a row inserted since then hits the unique
\* constraint and fails the upload as a whole.
CommitUpload(t) ==
  LET clash == \E r \in blank[t] : row[r].key # 0
  IN  /\ upload[t] = "checked"
      /\ \/ /\ ~clash
            /\ upload' = [upload EXCEPT ![t] = "done"]
            /\ row' = [r \in Recipient |-> IF r \in entries[t]
                         THEN [gen |-> chain[t].gen, key |-> t] ELSE row[r]]
         \/ clash /\ upload' = [upload EXCEPT ![t] = "failed"] /\ UNCHANGED row
      /\ UNCHANGED <<members, client, sends, entries, blank, readers, calm, torn, bounds>>

\* A user joins or leaves; the row for a user who left stays.
Change(r) ==
  /\ changes < MaxChanges
  /\ members' = IF r \in members THEN members \ {r} ELSE members \cup {r}
  /\ changes' = changes + 1
  /\ calm' = (calm /\ Idle)
  /\ UNCHANGED <<row, client, sends, requests, readers, torn, troubles>>
-----------------------------------------------------------------------------
BadKeep(cs, c) ==
  LET all == {d \in cs : d.gen # c.gen} \cup {c}
  IN  {d \in all : Cardinality({x \in all : x.gen > d.gen}) <= KeepGenerations}

\* put_peer: one chain per generation, the newest generations kept.
Keep(cs, c) ==
  LET all == {d \in cs : d.gen # c.gen} \cup {c}
  IN  {d \in all : Cardinality({x \in all : x.gen > d.gen}) < KeepGenerations}

\* advance_chain and the AES-GCM tag: keys behind the chain are burned, keys
\* too far ahead refused, and another chain's key fails.
Decrypts(c, m) == c.key = m.key /\ m.n >= c.it /\ m.n - c.it <= MaxSkip

\* The chain is stored with all keys up to the message's burned.
Consume(r, t, cs, c) ==
  /\ peers' = [peers EXCEPT ![r] = Keep(cs, [c EXCEPT !.it = msg[t].n + 1])]
  /\ read' = [read EXCEPT ![r] = @ \cup {t}]

CanOpen(r, t) == t \in Sent /\ r \in members /\ t \notin read[r] /\ fetched[r][t] = {}

\* _decrypt_message_if_needed with a chain for the generation.  The messages
\* may come in any order: history is loaded page by page, the newest first.
Open(r, t) ==
  /\ CanOpen(r, t)
  /\ \E c \in peers[r] : c.gen = msg[t].gen /\ Decrypts(c, msg[t]) /\ Consume(r, t, peers[r], c)
  /\ UNCHANGED <<server, client, sends, requests, fetched, calm, torn, bounds>>

\* Without one the server is asked for the author's row.
Fetch(r, t) ==
  /\ CanOpen(r, t) /\ \A c \in peers[r] : c.gen # msg[t].gen
  /\ fetched' = [fetched EXCEPT ![r][t] = {row[r]}]
  /\ UNCHANGED <<server, client, sends, requests, peers, read, calm, torn, bounds>>

\* The answer: a row of this generation becomes a chain that starts over at 0,
\* whatever chain another task has stored since; with another generation the
\* message stays unreadable for now.
Fetched(r, t) ==
  /\ \E x \in fetched[r][t] :
       LET c == [gen |-> x.gen, it |-> 0, key |-> x.key]
       IN  \/ /\ x.key # 0 /\ x.gen = msg[t].gen /\ Decrypts(c, msg[t])
              /\ Consume(r, t, Keep(peers[r], c), c)
           \/ /\ x.key # 0 /\ x.gen = msg[t].gen /\ ~Decrypts(c, msg[t])
              /\ peers' = [peers EXCEPT ![r] = Keep(@, c)]
              /\ UNCHANGED read
           \/ /\ x.key = 0 \/ x.gen # msg[t].gen
              /\ UNCHANGED <<peers, read>>
  /\ fetched' = [fetched EXCEPT ![r][t] = {}]
  /\ UNCHANGED <<server, client, sends, requests, calm, torn, bounds>>

Next ==
  \/ \E t \in Send : \/ Begin(t) \/ UseChain(t) \/ RotateAlone(t) \/ Rotate(t)
                     \/ UploadDone(t) \/ UploadRefused(t) \/ Post(t) \/ Fail(t)
                     \/ CheckUpload(t) \/ CommitUpload(t)
  \/ Restart \/ LoseStorage
  \/ \E r \in Recipient : Change(r)
  \/ \E r \in Recipient, t \in Send : Open(r, t) \/ Fetch(r, t) \/ Fetched(r, t)

Spec == Init /\ [][Next]_vars
-----------------------------------------------------------------------------
Encrypted == {t \in Send : msg[t].key # 0}

\* r can decrypt message t: with the chain it has for the generation, or, if it
\* has none, with the one the server would send it.
Readable(r, t) ==
  \/ \E c \in peers[r] : c.gen = msg[t].gen /\ Decrypts(c, msg[t])
  \/ /\ \A c \in peers[r] : c.gen # msg[t].gen
     /\ row[r] = [gen |-> msg[t].gen, key |-> msg[t].key]

\* r has not gone past message t, nor is it too far ahead to begin with.
InOrder(r, t) ==
  /\ msg[t].n <= MaxSkip
  /\ \A u \in read[r] : msg[u].key = msg[t].key => msg[u].n < msg[t].n

\* Every variable keeps to its type.
TypeOK ==
  /\ members \subseteq Recipient
  /\ row \in [Recipient -> Row]
  /\ own \in Chain
  /\ roster \subseteq SUBSET Recipient /\ Cardinality(roster) <= 1
  /\ pc \in [Send -> {"new", "room", "upload", "post", "sent", "failed"}]
  /\ parts \in [Send -> SUBSET Recipient]
  /\ chain \in [Send -> Chain]
  /\ msg \in [Send -> Message]
  /\ upload \in [Send -> {"none", "sent", "checked", "done", "failed"}]
  /\ entries \in [Send -> SUBSET Recipient]
  /\ blank \in [Send -> SUBSET Recipient]
  /\ peers \in [Recipient -> SUBSET Chain]
  /\ \A r \in Recipient : Cardinality(peers[r]) <= KeepGenerations
  /\ fetched \in [Recipient -> [Send -> SUBSET Row]]
  /\ read \in [Recipient -> SUBSET Send]
  /\ calm \in BOOLEAN /\ torn \in BOOLEAN
  /\ changes \in Nat /\ troubles \in Nat

\* The chain ratchets once per message: no two messages are encrypted with the
\* same key, whatever overlaps, fails or restarts.
KeysUsedOnce ==
  \A t, u \in Encrypted : t # u => [k |-> msg[t].key, n |-> msg[t].n] # [k |-> msg[u].key, n |-> msg[u].n]

\* The chain is rotated whenever the roster changes: who was not in the roster
\* the author saw before a message never gets hold of its key, except when the
\* client died between storing the new roster and the new chain.
KeyStaysInRoster ==
  ~torn => \A t \in Encrypted : \A r \in Recipient \ parts[t] :
    /\ row[r].key # msg[t].key
    /\ \A c \in peers[r] : c.key # msg[t].key

\* After sends that did not overlap and met no trouble a member who reads them in
\* order can read every message of the current generation, however often the
\* chain was rotated before, unless another rotation is under way.  Namesakes of
\* the author are left out: he never sends them a key.
CurrentIsReadable ==
  calm /\ Idle => \A t \in Sent, r \in Recipient :
    /\ r \in Addressed(t) \cap members /\ msg[t].key = own.key
    /\ t \notin read[r] /\ InOrder(r, t)
    => Readable(r, t)
=============================================================================
