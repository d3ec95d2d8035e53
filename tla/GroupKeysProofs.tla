-------------------------- MODULE GroupKeysProofs ---------------------------
(***************************************************************************)
(* Proofs about GroupKeys: no message key seals two messages, no key gets  *)
(* to who was not in the roster of its message, and what should be         *)
(* readable is, for any number of users, messages, overlapping sends,      *)
(* failures and restarts.                                                  *)
(*                                                                         *)
(* Why it holds: a key is named by the send that makes it, and is nowhere  *)
(* before that send adopts it (Fresh); the stored chain is past all        *)
(* messages under its key (Behind); whoever holds a key is among the       *)
(* participants of the send that made it (Held); unless the client died    *)
(* between its two writes, a message has the participants of the send that *)
(* made its key (Same); a chain is where the last message read with it has *)
(* left it (Reading); and before any trouble the rows hold the current     *)
(* key, and keys of other generations are other keys (Calm).               *)
(***************************************************************************)
EXTENDS GroupKeys, FiniteSetTheorems, TLAPS

Phase == {"new", "room", "upload", "post", "sent", "failed"}
Unused(t) == pc[t] \in {"new", "room", "upload"}

\* The types the argument needs.
Types ==
  /\ members \subseteq Recipient
  /\ row \in [Recipient -> Row]
  /\ own \in Chain
  /\ pc \in [Send -> Phase]
  /\ parts \in [Send -> SUBSET Recipient]
  /\ chain \in [Send -> Chain]
  /\ msg \in [Send -> Message]
  /\ entries \in [Send -> SUBSET Recipient]
  /\ peers \in [Recipient -> SUBSET Chain]
  /\ fetched \in [Recipient -> [Send -> SUBSET Row]]

Fresh ==
  \A t \in Send :
    /\ Unused(t) => msg[t].key = 0 /\ own.key # t /\ \A u \in Send : msg[u].key # t
    /\ pc[t] = "upload" => chain[t].key = t
    /\ pc[t] = "new" => parts[t] = {}

Behind == \A t \in Encrypted : msg[t].key = own.key => msg[t].n < own.it

Held ==
  /\ \A t \in Send : entries[t] \subseteq parts[t]
  /\ \A r \in Recipient :
       /\ row[r].key # 0 => r \in parts[row[r].key]
       /\ \A c \in peers[r] : c.key # 0 => r \in parts[c.key]
       /\ \A t \in Send : \A x \in fetched[r][t] : x.key # 0 => r \in parts[x.key]

Same ==
  ~torn => /\ own.key # 0 => roster = {parts[own.key]}
           /\ \A t \in Encrypted : parts[t] = parts[msg[t].key]

Keys == Fresh /\ Behind /\ KeysUsedOnce
Inv  == Types /\ Keys /\ Held /\ Same

-----------------------------------------------------------------------------
LEMMA NoZero == 0 \notin Send
BY DEF Send

LEMMA InitInv == Init => Inv
<1> SUFFICES ASSUME Init PROVE Inv OBVIOUS
<1>1. NoChain \in Chain /\ NoRow \in Row /\ NoMessage \in Message
  BY DEF NoChain, NoRow, NoMessage, Chain, Row, Message
<1>2. Types BY <1>1 DEF Init, Types, Phase
<1>3. \A t \in Send : msg[t].key = 0 BY DEF Init, NoMessage
<1>4. Encrypted = {} BY <1>3 DEF Encrypted
<1>5. own.key = 0 BY DEF Init, NoChain
<1>6. Keys BY <1>3, <1>4, <1>5, NoZero DEF Init, Keys, Fresh, Behind, KeysUsedOnce
<1>7. Held BY DEF Init, Held, NoRow
<1>8. Same BY <1>4, <1>5 DEF Same
<1> QED BY <1>2, <1>6, <1>7, <1>8 DEF Inv

\* Steps that take nothing but the phases of sends on.
LEMMA KeysStay ==
  ASSUME Inv, pc' \in [Send -> Phase], UNCHANGED <<parts, msg>>,
         \A t \in Send : /\ Unused(t)' => Unused(t)
                         /\ pc'[t] = "upload" => pc[t] = "upload" /\ chain'[t] = chain[t]
                         /\ pc'[t] = "new" => pc[t] = "new",
         own' = own \/ own' = NoChain
  PROVE  Keys'
<1>1. own'.key \in {own.key, 0} /\ (own'.key # 0 => own' = own) BY DEF NoChain
<1>2. Encrypted' = Encrypted BY DEF Encrypted
<1>3. Fresh' BY <1>1, NoZero DEF Inv, Keys, Fresh, Unused
<1>4. Behind' BY <1>1, <1>2 DEF Inv, Keys, Behind, Encrypted
<1>5. KeysUsedOnce' BY <1>2 DEF Inv, Keys, KeysUsedOnce
<1> QED BY <1>3, <1>4, <1>5 DEF Keys

\* The holders of keys stay who they were.
LEMMA HeldStays ==
  ASSUME Inv, UNCHANGED <<parts, row, entries, readers>>
  PROVE  Held'
BY DEF Inv, Held, readers

LEMMA SameStays ==
  ASSUME Inv, UNCHANGED <<parts, msg>>, torn' \/ (torn' = torn /\ roster' = roster /\ own' = own)
  PROVE  Same'
BY DEF Inv, Same, Encrypted

-----------------------------------------------------------------------------
(* The author's client.                                                     *)

\* A send that begins has had no participants, so nobody holds its key.
LEMMA BeginInv ==
  ASSUME Inv, NEW t \in Send, Begin(t)
  PROVE  Inv'
<1>1. pc[t] = "new" /\ parts[t] = {} BY DEF Begin, Inv, Keys, Fresh
<1>2. \A u \in Send : /\ pc'[u] = IF u = t THEN "room" ELSE pc[u]
                      /\ parts'[u] = IF u = t THEN members ELSE parts[u]
  BY DEF Begin, Goto, Inv, Types
<1>3. pc' \in [Send -> Phase] /\ parts' \in [Send -> SUBSET Recipient]
  BY DEF Begin, Goto, Inv, Types, Phase
<1>4. UNCHANGED <<members, row, own, roster, chain, msg, entries, peers, fetched, torn>>
  BY DEF Begin, server, client, requests, readers
<1>5. Types' BY <1>3, <1>4 DEF Inv, Types
<1>6. Encrypted' = Encrypted /\ t \notin Encrypted
  BY <1>1, <1>4 DEF Encrypted, Inv, Keys, Fresh, Unused
<1>7. Keys'
  <2>1. Fresh'
    <3>1. \A u \in Send : Unused(u)' => Unused(u) BY <1>1, <1>2 DEF Unused
    <3> QED BY <3>1, <1>1, <1>2, <1>4 DEF Inv, Keys, Fresh
  <2>2. Behind' /\ KeysUsedOnce' BY <1>4, <1>6 DEF Inv, Keys, Behind, KeysUsedOnce
  <2> QED BY <2>1, <2>2 DEF Keys
<1>8. Held'
  <2>1. \A u \in Send : parts[u] \subseteq parts'[u] BY <1>1, <1>2
  <2>2. \A r \in Recipient : row[r].key \in {0} \cup Send BY DEF Inv, Types, Row
  <2>3. \A r \in Recipient : \A c \in peers[r] : c.key \in {0} \cup Send BY DEF Inv, Types, Chain
  <2>4. \A r \in Recipient, u \in Send : \A x \in fetched[r][u] : x.key \in {0} \cup Send
    BY DEF Inv, Types, Row
  <2>5. \A u \in Send : entries'[u] \subseteq parts'[u] BY <2>1, <1>4 DEF Inv, Held
  <2>6. \A r \in Recipient :
          /\ row'[r].key # 0 => r \in parts'[row'[r].key]
          /\ \A c \in peers'[r] : c.key # 0 => r \in parts'[c.key]
    BY <2>1, <2>2, <2>3, <1>4 DEF Inv, Held
  <2>7. \A r \in Recipient, u \in Send : \A x \in fetched'[r][u] : x.key # 0 => r \in parts'[x.key]
    BY <2>1, <2>4, <1>4 DEF Inv, Held
  <2> QED BY <2>5, <2>6, <2>7 DEF Held
<1>9. Same'
  <2>1. own.key # t /\ \A u \in Send : msg[u].key # t
    BY <1>1 DEF Inv, Keys, Fresh, Unused
  <2>2. own.key \in {0} \cup Send /\ \A u \in Send : msg[u].key \in {0} \cup Send
    BY DEF Inv, Types, Chain, Message
  <2>3. \A u \in Encrypted : u \in Send /\ msg[u].key # 0 BY DEF Encrypted
  <2> QED BY <2>1, <2>2, <2>3, <1>2, <1>4, <1>6 DEF Inv, Same
<1> QED BY <1>5, <1>7, <1>8, <1>9 DEF Inv

\* A message takes the next key of the stored chain, or the first of its own.
LEMMA EncryptKeys ==
  ASSUME Inv, NEW t \in Send, NEW c \in Chain, Encrypt(t, c), pc[t] \in {"room", "upload"},
         (c = own /\ own.key # 0) \/ c.key = t, UNCHANGED <<parts, chain>>
  PROVE  /\ own' \in Chain /\ msg' \in [Send -> Message] /\ pc' \in [Send -> Phase]
         /\ own'.key = c.key /\ c.key \in Send
         /\ Encrypted' = Encrypted \cup {t}
         /\ \A u \in Send : msg'[u] = IF u = t THEN [gen |-> c.gen, n |-> c.it, key |-> c.key] ELSE msg[u]
         /\ Keys'
<1> DEFINE m == [gen |-> c.gen, n |-> c.it, key |-> c.key]
<1>1. c.gen \in Nat /\ c.it \in Nat /\ c.key \in Send BY DEF Chain, Inv, Types
<1>2. m \in Message BY <1>1 DEF Message
<1>3. own' = [c EXCEPT !.it = @ + 1] BY DEF Encrypt
<1>4. own' \in Chain /\ own'.key = c.key /\ own'.it = c.it + 1 BY <1>1, <1>3 DEF Chain
<1>5. msg' \in [Send -> Message] /\ pc' \in [Send -> Phase]
  BY <1>2 DEF Encrypt, Goto, Inv, Types, Phase
<1>6. \A u \in Send : /\ msg'[u] = IF u = t THEN m ELSE msg[u]
                      /\ pc'[u] = IF u = t THEN "post" ELSE pc[u]
  BY DEF Encrypt, Goto, Inv, Types
<1>7. m.key = c.key /\ m.n = c.it OBVIOUS
<1>8. msg[t].key = 0 BY DEF Inv, Keys, Fresh, Unused
<1> HIDE DEF m
<1>9. Encrypted' = Encrypted \cup {t} BY <1>1, <1>6, <1>7, NoZero DEF Encrypted
<1>10. \A u \in Send : Unused(u)' => Unused(u) /\ u # t BY <1>6 DEF Unused
<1>11. \A u \in Send : Unused(u) /\ u # t => c.key # u BY DEF Inv, Keys, Fresh
<1>12. Fresh'
  <2> SUFFICES ASSUME NEW u \in Send
               PROVE  /\ Unused(u)' => /\ msg'[u].key = 0 /\ own'.key # u
                                       /\ \A v \in Send : msg'[v].key # u
                      /\ pc'[u] = "upload" => chain'[u].key = u
                      /\ pc'[u] = "new" => parts'[u] = {}
    BY DEF Fresh
  <2>1. Unused(u)' => /\ msg'[u].key = 0 /\ own'.key # u /\ \A v \in Send : msg'[v].key # u
    BY <1>4, <1>6, <1>7, <1>10, <1>11 DEF Inv, Keys, Fresh
  <2>2. /\ pc'[u] = "upload" => chain'[u].key = u
        /\ pc'[u] = "new" => parts'[u] = {}
    BY <1>6 DEF Inv, Keys, Fresh
  <2> QED BY <2>1, <2>2
\* Every other message under this key is behind it.
<1>13. \A u \in Send : u # t /\ msg[u].key = c.key => msg[u].n < c.it /\ msg[u].n \in Nat
  <2> SUFFICES ASSUME NEW u \in Send, u # t, msg[u].key = c.key
               PROVE  msg[u].n < c.it /\ msg[u].n \in Nat
    OBVIOUS
  <2>1. msg[u].n \in Nat BY DEF Inv, Types, Message
  <2>2. c.key # t BY DEF Inv, Keys, Fresh, Unused
  <2>3. c = own /\ u \in Encrypted BY <2>2, <1>1, NoZero DEF Encrypted
  <2> QED BY <2>1, <2>3 DEF Inv, Keys, Behind
<1>14. Behind'
  <2> SUFFICES ASSUME NEW u \in Encrypted', msg'[u].key = own'.key PROVE msg'[u].n < own'.it
    BY DEF Behind
  <2>1. u \in Send BY DEF Encrypted
  <2>2. CASE u = t BY <2>2, <1>1, <1>4, <1>6, <1>7
  <2>3. CASE u # t
    <3>1. msg'[u] = msg[u] /\ msg[u].key = c.key BY <2>1, <2>3, <1>4, <1>6
    <3> QED BY <2>1, <2>3, <3>1, <1>1, <1>4, <1>13
  <2> QED BY <2>2, <2>3
<1>15. KeysUsedOnce'
  <2> SUFFICES ASSUME NEW u \in Encrypted', NEW v \in Encrypted', u # v,
                      msg'[u].key = msg'[v].key, msg'[u].n = msg'[v].n
               PROVE  FALSE
    BY DEF KeysUsedOnce
  <2>1. u \in Send /\ v \in Send BY DEF Encrypted
  <2>2. CASE u # t /\ v # t
    <3>1. u \in Encrypted /\ v \in Encrypted /\ msg'[u] = msg[u] /\ msg'[v] = msg[v]
      BY <2>1, <2>2, <1>6, <1>9
    <3> QED BY <3>1 DEF Inv, Keys, KeysUsedOnce
  <2>3. CASE u = t
    <3>1. msg[v].key = c.key /\ msg[v].n = c.it BY <2>1, <2>3, <1>6, <1>7
    <3> QED BY <2>1, <2>3, <3>1, <1>1, <1>13
  <2>4. CASE v = t
    <3>1. msg[u].key = c.key /\ msg[u].n = c.it BY <2>1, <2>4, <1>6, <1>7
    <3> QED BY <2>1, <2>4, <3>1, <1>1, <1>13
  <2> QED BY <2>2, <2>3, <2>4
<1> QED BY <1>1, <1>4, <1>5, <1>6, <1>9, <1>12, <1>14, <1>15 DEF Keys, m

LEMMA UseChainInv ==
  ASSUME Inv, NEW t \in Send, UseChain(t)
  PROVE  Inv'
<1>1. /\ Encrypt(t, own) /\ pc[t] = "room" /\ own.key # 0 /\ roster = {parts[t]}
      /\ UNCHANGED <<members, row, roster, parts, chain, entries, peers, fetched, torn>>
  BY DEF UseChain, MustRotate, server, requests, readers
<1>2. own \in Chain BY DEF Inv, Types
<1>3. /\ own' \in Chain /\ msg' \in [Send -> Message] /\ pc' \in [Send -> Phase]
      /\ own'.key = own.key /\ Encrypted' = Encrypted \cup {t}
      /\ \A u \in Send : msg'[u] = IF u = t THEN [gen |-> own.gen, n |-> own.it, key |-> own.key] ELSE msg[u]
      /\ Keys'
  BY <1>1, <1>2, EncryptKeys
<1>4. Types' BY <1>1, <1>3 DEF Inv, Types
<1>5. Held' BY <1>1, HeldStays DEF UseChain
<1>6. Same'
  <2>1. ~torn => roster = {parts[own.key]} BY <1>1 DEF Inv, Same
  <2>2. ~torn => parts[t] = parts[own.key] BY <1>1, <2>1
  <2>3. \A u \in Encrypted : u \in Send BY DEF Encrypted
  <2> QED BY <1>1, <1>3, <2>1, <2>2, <2>3 DEF Inv, Same
<1> QED BY <1>3, <1>4, <1>5, <1>6 DEF Inv

\* A new chain is for the participants of the send that made it.
LEMMA AdoptInv ==
  ASSUME Inv, NEW t \in Send, NEW c \in Chain, c.key = t, Adopt(t, c), pc[t] \in {"room", "upload"},
         UNCHANGED <<server, parts, chain, requests, readers, torn>>
  PROVE  Inv'
<1>1. /\ Encrypt(t, c) /\ roster' = {parts[t]}
      /\ UNCHANGED <<members, row, parts, chain, entries, peers, fetched, torn>>
  BY DEF Adopt, server, requests, readers
<1>2. /\ own' \in Chain /\ msg' \in [Send -> Message] /\ pc' \in [Send -> Phase]
      /\ own'.key = t /\ Encrypted' = Encrypted \cup {t}
      /\ \A u \in Send : msg'[u] = IF u = t THEN [gen |-> c.gen, n |-> c.it, key |-> c.key] ELSE msg[u]
      /\ Keys'
  BY <1>1, EncryptKeys
<1>3. Types' BY <1>1, <1>2 DEF Inv, Types
<1>4. Held' BY <1>1, HeldStays
<1>5. Same'
  <2>1. \A u \in Encrypted : u \in Send BY DEF Encrypted
  <2>2. msg'[t].key = t BY <1>2
  <2> QED BY <1>1, <1>2, <2>1, <2>2 DEF Inv, Same
<1> QED BY <1>2, <1>3, <1>4, <1>5 DEF Inv

LEMMA NextChainType ==
  ASSUME Inv, NEW t \in Send
  PROVE  NextChain(t) \in Chain /\ NextChain(t).key = t
<1>1. own.gen \in Nat BY DEF Inv, Types, Chain
<1> QED BY <1>1 DEF NextChain, Chain

LEMMA RotateAloneInv ==
  ASSUME Inv, NEW t \in Send, RotateAlone(t)
  PROVE  Inv'
BY NextChainType, AdoptInv DEF RotateAlone

LEMMA UploadDoneInv ==
  ASSUME Inv, NEW t \in Send, UploadDone(t)
  PROVE  Inv'
<1>1. chain[t] \in Chain /\ chain[t].key = t BY DEF UploadDone, Inv, Types, Keys, Fresh
<1> QED BY <1>1, AdoptInv DEF UploadDone

LEMMA RotateInv ==
  ASSUME Inv, NEW t \in Send, Rotate(t)
  PROVE  Inv'
<1>1. PICK who \in SUBSET parts[t] : entries' = [entries EXCEPT ![t] = who]
  BY DEF Rotate, Addressed
<1>2. UNCHANGED <<members, row, own, roster, parts, msg, peers, fetched, torn>>
  BY DEF Rotate, server, client, readers
<1>3. \A u \in Send : /\ pc'[u] = IF u = t THEN "upload" ELSE pc[u]
                      /\ chain'[u] = IF u = t THEN NextChain(t) ELSE chain[u]
                      /\ entries'[u] = IF u = t THEN who ELSE entries[u]
  BY <1>1 DEF Rotate, Goto, Inv, Types
<1>4. pc[t] = "room" BY DEF Rotate
<1>5. Types'
  <2>1. pc' \in [Send -> Phase] BY DEF Rotate, Goto, Inv, Types, Phase
  <2>2. chain' \in [Send -> Chain] BY NextChainType DEF Rotate, Inv, Types
  <2>3. who \subseteq Recipient BY DEF Inv, Types
  <2>4. entries' \in [Send -> SUBSET Recipient] BY <1>1, <2>3 DEF Inv, Types
  <2> QED BY <1>2, <2>1, <2>2, <2>4 DEF Inv, Types
<1>6. Keys'
  <2>1. Encrypted' = Encrypted BY <1>2 DEF Encrypted
  <2>2. Fresh'
    <3>1. NextChain(t).key = t BY NextChainType
    <3>2. \A u \in Send : Unused(u)' => Unused(u) BY <1>3, <1>4 DEF Unused
    <3> QED BY <1>2, <1>3, <3>1, <3>2 DEF Inv, Keys, Fresh
  <2>3. Behind' /\ KeysUsedOnce' BY <1>2, <2>1 DEF Inv, Keys, Behind, KeysUsedOnce
  <2> QED BY <2>2, <2>3 DEF Keys
<1>7. Held' BY <1>2, <1>3 DEF Inv, Held
<1>8. Same' BY <1>2, SameStays
<1> QED BY <1>5, <1>6, <1>7, <1>8 DEF Inv

\* A send that is posted, refused or given up, and a client that dies or loses
\* its storage.
LEMMA EndsInv ==
  ASSUME Inv,
         \/ \E t \in Send : UploadRefused(t) \/ Post(t) \/ Fail(t)
         \/ Restart \/ LoseStorage
  PROVE  Inv'
<1>1. CASE \E t \in Send : UploadRefused(t) \/ Post(t) \/ Fail(t)
  <2>1. PICK t \in Send, p \in {"failed", "sent"} : Goto(t, p)
    BY <1>1 DEF UploadRefused, Post, Fail
  <2>2. UNCHANGED <<members, row, own, roster, parts, chain, msg, entries, peers, fetched, readers, torn>>
    BY <1>1 DEF UploadRefused, Post, Fail, server, client, requests, readers
  <2>3. pc' \in [Send -> Phase] /\ \A u \in Send : pc'[u] = IF u = t THEN p ELSE pc[u]
    BY <2>1 DEF Goto, Inv, Types, Phase
  <2>4. Types' BY <2>2, <2>3 DEF Inv, Types
  <2>5. Keys' BY <2>2, <2>3, KeysStay DEF Unused
  <2> QED BY <2>2, <2>4, <2>5, HeldStays, SameStays DEF Inv
<1>2. CASE Restart \/ LoseStorage
  <2>1. pc' = [t \in Send |-> IF Active(t) THEN "failed" ELSE pc[t]] BY <1>2 DEF Restart, LoseStorage
  <2>2. UNCHANGED <<members, row, parts, chain, msg, entries, peers, fetched, readers>>
    BY <1>2 DEF Restart, LoseStorage, server, requests, readers
  <2>3. pc' \in [Send -> Phase] BY <2>1 DEF Inv, Types, Phase
  <2>4. own' = own \/ own' = NoChain BY <1>2 DEF Restart, LoseStorage
  <2>5. NoChain \in Chain BY DEF NoChain, Chain
  <2>6. Types' BY <2>2, <2>3, <2>4, <2>5 DEF Inv, Types
  <2>7. Keys' BY <2>1, <2>2, <2>3, <2>4, KeysStay DEF Unused, Active
  <2>8. Same'
    <3>1. torn' \/ (torn' = torn /\ ((roster' = roster /\ own' = own) \/ own' = NoChain))
      BY <1>2 DEF Restart, LoseStorage
    <3>2. CASE own' = NoChain /\ torn' = torn
      BY <2>2, <3>2 DEF Inv, Same, Encrypted, NoChain
    <3> QED BY <2>2, <3>1, <3>2, SameStays
  <2> QED BY <2>2, <2>6, <2>7, <2>8, HeldStays DEF Inv
<1> QED BY <1>1, <1>2

-----------------------------------------------------------------------------
(* The server and the readers.                                              *)

\* Steps that leave the author's client alone.
LEMMA OthersInv ==
  ASSUME Inv, Types', Held', UNCHANGED <<client, sends, torn>>
  PROVE  Inv'
<1>1. UNCHANGED <<own, roster, pc, parts, chain, msg>> BY DEF client, sends
<1>2. Keys' BY <1>1, KeysStay DEF Inv, Types, Unused
<1>3. Same' BY <1>1, SameStays
<1> QED BY <1>2, <1>3 DEF Inv

LEMMA UploadInv ==
  ASSUME Inv, NEW t \in Send, CheckUpload(t) \/ CommitUpload(t)
  PROVE  Inv'
<1>1. CASE CheckUpload(t)
  <2>1. UNCHANGED <<members, row, peers, fetched, torn, client, sends>>
    BY <1>1 DEF CheckUpload, server, readers
  <2>2. entries' = [entries EXCEPT ![t] = {r \in entries[t] : Acceptable(t, r)}]
    BY <1>1 DEF CheckUpload
  <2>3. entries' \in [Send -> SUBSET Recipient] /\ \A u \in Send : entries'[u] \subseteq entries[u]
    BY <2>2 DEF Inv, Types
  <2>4. Types' BY <2>1, <2>3 DEF Inv, Types, client, sends
  <2>5. Held' BY <2>1, <2>3 DEF Inv, Held, sends
  <2> QED BY <2>1, <2>4, <2>5, OthersInv
<1>2. CASE CommitUpload(t)
  <2>1. UNCHANGED <<members, entries, peers, fetched, torn, client, sends>>
    BY <1>2 DEF CommitUpload, readers
  <2>2. \/ row' = row
        \/ row' = [r \in Recipient |-> IF r \in entries[t] THEN [gen |-> chain[t].gen, key |-> t] ELSE row[r]]
    BY <1>2 DEF CommitUpload
  <2>3. [gen |-> chain[t].gen, key |-> t] \in Row BY DEF Inv, Types, Chain, Row
  <2>4. row' \in [Recipient -> Row] BY <2>2, <2>3 DEF Inv, Types
  <2>5. Types' BY <2>1, <2>4 DEF Inv, Types, client, sends
  <2>6. \A r \in Recipient : row'[r].key # 0 => r \in parts[row'[r].key]
    BY <2>2 DEF Inv, Held
  <2>7. Held' BY <2>1, <2>6 DEF Inv, Held, sends
  <2> QED BY <2>1, <2>5, <2>7, OthersInv
<1> QED BY <1>1, <1>2

LEMMA ChangeInv ==
  ASSUME Inv, NEW r \in Recipient, Change(r)
  PROVE  Inv'
<1>1. UNCHANGED <<row, entries, peers, fetched, readers, torn, client, sends>> /\ members' \subseteq Recipient
  BY DEF Change, requests, readers, Inv, Types
<1>2. Types' BY <1>1 DEF Inv, Types, client, sends
<1>3. Held' BY <1>1, HeldStays DEF sends
<1> QED BY <1>1, <1>2, <1>3, OthersInv

\* A reader keeps chains of keys it had, or was sent.
LEMMA PeersInv ==
  ASSUME Inv, UNCHANGED <<server, client, sends, requests, torn>>,
         NEW r \in Recipient, NEW c \in Chain, c.key # 0 => r \in parts[c.key],
         NEW cs, cs \subseteq peers[r] \cup {c},
         peers' = peers \/ peers' = [peers EXCEPT ![r] = cs],
         fetched' \in [Recipient -> [Send -> SUBSET Row]],
         \A q \in Recipient, t \in Send : fetched'[q][t] \subseteq fetched[q][t]
  PROVE  Inv'
<1>1. UNCHANGED <<members, row, entries, parts>> BY DEF server, requests, sends
<1>2. \A q \in Recipient : peers'[q] \subseteq IF q = r THEN peers[q] \cup {c} ELSE peers[q]
  BY DEF Inv, Types
<1>3. peers' \in [Recipient -> SUBSET Chain]
  <2>1. cs \in SUBSET Chain BY DEF Inv, Types
  <2> QED BY <2>1 DEF Inv, Types
<1>4. Types' BY <1>1, <1>3 DEF Inv, Types, client, sends
<1>5. \A q \in Recipient : \A d \in peers'[q] : d.key # 0 => q \in parts[d.key]
  BY <1>2 DEF Inv, Held
<1>6. Held' BY <1>1, <1>5 DEF Inv, Held
<1> QED BY <1>4, <1>6, OthersInv

LEMMA KeepPart ==
  ASSUME NEW cs, NEW c
  PROVE  Keep(cs, c) \subseteq cs \cup {c}
BY DEF Keep

LEMMA OpenInv ==
  ASSUME Inv, NEW r \in Recipient, NEW t \in Send, Open(r, t)
  PROVE  Inv'
<1>1. PICK c \in peers[r] : Consume(r, t, peers[r], c) BY DEF Open
<1> DEFINE d == [c EXCEPT !.it = msg[t].n + 1]
<1>2. c \in Chain /\ msg[t].n \in Nat BY DEF Inv, Types, Message
<1>3. d \in Chain /\ d.key = c.key BY <1>2 DEF Chain
<1>4. d.key # 0 => r \in parts[d.key] BY <1>3 DEF Inv, Held
<1>5. Keep(peers[r], d) \subseteq peers[r] \cup {d} BY KeepPart
<1>6. peers' = [peers EXCEPT ![r] = Keep(peers[r], d)] BY <1>1 DEF Consume
<1>7. fetched' = fetched BY DEF Open
<1> HIDE DEF d
<1> QED BY <1>3, <1>4, <1>5, <1>6, <1>7, PeersInv DEF Open, Inv, Types

LEMMA FetchedInv ==
  ASSUME Inv, NEW r \in Recipient, NEW t \in Send, Fetched(r, t)
  PROVE  Inv'
<1>1. /\ fetched' \in [Recipient -> [Send -> SUBSET Row]]
      /\ \A q \in Recipient, u \in Send : fetched'[q][u] \subseteq fetched[q][u]
  BY DEF Fetched, Inv, Types
<1> DEFINE C(x) == [gen |-> x.gen, it |-> 0, key |-> x.key]
           D(x) == [C(x) EXCEPT !.it = msg[t].n + 1]
<1>2. PICK x \in fetched[r][t] :
        \/ peers' = [peers EXCEPT ![r] = Keep(Keep(peers[r], C(x)), D(x))]
        \/ peers' = [peers EXCEPT ![r] = Keep(peers[r], C(x))]
        \/ peers' = peers
  BY DEF Fetched, Consume
<1>3. x \in Row /\ msg[t].n \in Nat BY DEF Inv, Types, Message
<1>4. C(x) \in Chain /\ C(x).key = x.key BY <1>3 DEF Row, Chain
<1>5. D(x) \in Chain /\ D(x).key = x.key BY <1>3, <1>4 DEF Chain
<1>6. x.key # 0 => r \in parts[x.key] BY DEF Inv, Held
<1>7. UNCHANGED <<server, client, sends, requests, torn>> BY DEF Fetched
<1> HIDE DEF C, D
<1>8. CASE peers' = [peers EXCEPT ![r] = Keep(Keep(peers[r], C(x)), D(x))]
  <2>1. Keep(Keep(peers[r], C(x)), D(x)) \subseteq peers[r] \cup {C(x), D(x)}
    BY KeepPart
  <2>2. \A q \in Recipient : peers'[q] \subseteq IF q = r THEN peers[q] \cup {C(x), D(x)} ELSE peers[q]
    BY <1>8, <2>1 DEF Inv, Types
  <2>3. UNCHANGED <<members, row, entries, parts>> BY <1>7 DEF server, requests, sends
  <2>4. peers' \in [Recipient -> SUBSET Chain]
    <3>1. Keep(Keep(peers[r], C(x)), D(x)) \in SUBSET Chain BY <2>1, <1>4, <1>5 DEF Inv, Types
    <3> QED BY <1>8, <3>1 DEF Inv, Types
  <2>5. Types' BY <1>1, <1>7, <2>3, <2>4 DEF Inv, Types, client, sends
  <2>6. \A q \in Recipient : \A d \in peers'[q] : d.key # 0 => q \in parts[d.key]
    BY <2>2, <1>4, <1>5, <1>6 DEF Inv, Held
  <2>7. Held' BY <1>1, <2>3, <2>6 DEF Inv, Held
  <2> QED BY <1>7, <2>5, <2>7, OthersInv
<1>9. CASE peers' = [peers EXCEPT ![r] = Keep(peers[r], C(x))]
  <2>1. Keep(peers[r], C(x)) \subseteq peers[r] \cup {C(x)} BY KeepPart
  <2> QED BY <1>1, <1>4, <1>6, <1>7, <1>9, <2>1, PeersInv
<1>10. CASE peers' = peers
  <2>1. peers[r] \subseteq peers[r] \cup {C(x)} OBVIOUS
  <2> QED BY <1>1, <1>4, <1>6, <1>7, <1>10, <2>1, PeersInv
<1> QED BY <1>2, <1>8, <1>9, <1>10

LEMMA FetchInv ==
  ASSUME Inv, NEW r \in Recipient, NEW t \in Send, Fetch(r, t)
  PROVE  Inv'
<1>1. UNCHANGED <<members, row, entries, parts, peers, client, sends, torn>>
  BY DEF Fetch, server, requests, sends
<1>2. row[r] \in Row BY DEF Inv, Types
<1>3. fetched' \in [Recipient -> [Send -> SUBSET Row]] BY <1>2 DEF Fetch, Inv, Types
<1>4. \A q \in Recipient, u \in Send :
        fetched'[q][u] = IF q = r /\ u = t THEN {row[r]} ELSE fetched[q][u]
  BY DEF Fetch, Inv, Types
<1>5. Types' BY <1>1, <1>3 DEF Inv, Types, client, sends
<1>6. \A q \in Recipient, u \in Send : \A x \in fetched'[q][u] : x.key # 0 => q \in parts[x.key]
  BY <1>4 DEF Inv, Held
<1>7. Held' BY <1>1, <1>6 DEF Inv, Held
<1> QED BY <1>1, <1>5, <1>7, OthersInv

LEMMA NextInv == Inv /\ [Next]_vars => Inv'
<1> SUFFICES ASSUME Inv, [Next]_vars PROVE Inv' OBVIOUS
<1>1. CASE UNCHANGED vars
  <2>1. Types' BY <1>1 DEF vars, Inv, Types, server, client, sends, requests, readers
  <2>2. Held' BY <1>1, HeldStays DEF vars, server, sends, requests
  <2> QED BY <1>1, <2>1, <2>2, OthersInv DEF vars
<1>2. ASSUME NEW t \in Send,
             \/ Begin(t) \/ UseChain(t) \/ RotateAlone(t) \/ Rotate(t)
             \/ UploadDone(t) \/ CheckUpload(t) \/ CommitUpload(t)
      PROVE  Inv'
  BY <1>2, BeginInv, UseChainInv, RotateAloneInv, RotateInv, UploadDoneInv, UploadInv
<1>3. ASSUME \/ \E t \in Send : UploadRefused(t) \/ Post(t) \/ Fail(t)
             \/ Restart \/ LoseStorage
      PROVE  Inv'
  BY <1>3, EndsInv
<1>4. ASSUME NEW r \in Recipient, Change(r) PROVE Inv' BY <1>4, ChangeInv
<1>5. ASSUME NEW r \in Recipient, NEW t \in Send, Open(r, t) \/ Fetch(r, t) \/ Fetched(r, t)
      PROVE  Inv'
  BY <1>5, OpenInv, FetchInv, FetchedInv
<1> QED BY <1>1, <1>2, <1>3, <1>4, <1>5 DEF Next

-----------------------------------------------------------------------------
\* No two messages are sealed with the same key of the same chain, for any
\* overlap of sends, failed uploads, deaths and losses of storage.
THEOREM KeysAreUsedOnce == Spec => []KeysUsedOnce
<1>1. Inv => KeysUsedOnce BY DEF Inv, Keys
<1> QED BY <1>1, InitInv, NextInv, PTL DEF Spec

\* Who was not in the roster the author saw before a message has no key of it,
\* neither in a row of the server nor in a chain, unless the client died between
\* its writes of the roster and of the chain.
THEOREM KeysStayInRoster == Spec => []KeyStaysInRoster
<1>1. Inv => KeyStaysInRoster
  <2> SUFFICES ASSUME Inv, ~torn, NEW t \in Encrypted, NEW r \in Recipient, r \notin parts[t]
               PROVE  row[r].key # msg[t].key /\ \A c \in peers[r] : c.key # msg[t].key
    BY DEF KeyStaysInRoster
  <2>1. msg[t].key # 0 /\ parts[t] = parts[msg[t].key] BY DEF Inv, Same, Encrypted
  <2> QED BY <2>1 DEF Inv, Held
<1> QED BY <1>1, InitInv, NextInv, PTL DEF Spec

-----------------------------------------------------------------------------
(* The rest of the types.                                                   *)

\* A reader's chains: one per generation, and not too many.
Few(cs) ==
  /\ IsFiniteSet(cs) /\ Cardinality(cs) <= KeepGenerations
  /\ \A c, d \in cs : c.gen = d.gen => c = d
Kept == \A r \in Recipient : Few(peers[r])

Others ==
  /\ roster = {} \/ \E D \in SUBSET Recipient : roster = {D}
  /\ upload \in [Send -> {"none", "sent", "checked", "done", "failed"}]
  /\ blank \in [Send -> SUBSET Recipient]
  /\ read \in [Recipient -> SUBSET Send]
  /\ calm \in BOOLEAN /\ torn \in BOOLEAN
  /\ changes \in Nat /\ troubles \in Nat

\* put_peer keeps KeepGenerations chains at most: a kept chain is told by the
\* number of newer ones, which is below KeepGenerations.
LEMMA KeepsFew ==
  ASSUME NEW cs, Few(cs), cs \subseteq Chain, NEW c \in Chain
  PROVE  Few(Keep(cs, c)) /\ Keep(cs, c) \subseteq Chain
<1> DEFINE all == {d \in cs : d.gen # c.gen} \cup {c}
           Newer(d) == {x \in all : x.gen > d.gen}
           kept == Keep(cs, c)
           N == 0..(KeepGenerations - 1)
           f == [d \in kept |-> Cardinality(Newer(d))]
<1>1. IsFiniteSet(all)
  <2>1. {d \in cs : d.gen # c.gen} \in SUBSET cs OBVIOUS
  <2> QED BY <2>1, FS_Subset, FS_AddElement DEF Few
<1>2. /\ all \subseteq Chain /\ \A d \in all : d.gen \in Nat
      /\ \A d, e \in all : d.gen = e.gen => d = e
  BY DEF Few, Chain
<1>3. kept = {d \in all : Cardinality(Newer(d)) < KeepGenerations} BY DEF Keep
<1>4. \A d : IsFiniteSet(Newer(d)) /\ Cardinality(Newer(d)) \in Nat
  <2>1. \A d : Newer(d) \in SUBSET all OBVIOUS
  <2> HIDE DEF all, Newer
  <2>2. \A d : IsFiniteSet(Newer(d)) BY <1>1, <2>1, FS_Subset
  <2> QED BY <2>2, FS_CardinalityType
<1>5. \A d, e \in all : d.gen < e.gen => Cardinality(Newer(e)) < Cardinality(Newer(d))
  <2> SUFFICES ASSUME NEW d \in all, NEW e \in all, d.gen < e.gen
               PROVE  Cardinality(Newer(e)) < Cardinality(Newer(d))
    OBVIOUS
  <2>1. Newer(e) \subseteq Newer(d) /\ e \in Newer(d) /\ e \notin Newer(e)
    BY <1>2
  <2>2. Newer(e) \in SUBSET Newer(d) /\ Newer(e) # Newer(d) BY <2>1
  <2> HIDE DEF all, Newer
  <2>3. Cardinality(Newer(e)) <= Cardinality(Newer(d)) /\ Cardinality(Newer(e)) # Cardinality(Newer(d))
    BY <1>4, <2>2, FS_Subset
  <2> QED BY <1>4, <2>3
<1>6. kept \subseteq all BY <1>3
<1> HIDE DEF all, Newer, kept
<1>7. f \in Injection(kept, N)
  <2>1. \A d \in kept : Cardinality(Newer(d)) \in N
    BY <1>3, <1>4, GroupKeysAssumption
  <2>2. f \in [kept -> N] BY <2>1
  <2>3. \A d, e \in kept : f[d] = f[e] => d = e
    <3> SUFFICES ASSUME NEW d \in kept, NEW e \in kept, f[d] = f[e] PROVE d = e OBVIOUS
    <3>1. Cardinality(Newer(d)) = Cardinality(Newer(e)) OBVIOUS
    <3>2. d \in all /\ e \in all BY <1>6
    <3>3. ~(d.gen < e.gen) /\ ~(e.gen < d.gen) BY <1>4, <1>5, <3>1, <3>2
    <3>4. d.gen = e.gen BY <1>2, <3>2, <3>3
    <3> QED BY <1>2, <3>2, <3>4
  <2> QED BY <2>2, <2>3 DEF Injection, IsInjective
<1>8. IsFiniteSet(N) /\ Cardinality(N) = KeepGenerations
  <2>1. KeepGenerations \in Nat /\ KeepGenerations > 0 BY GroupKeysAssumption
  <2>2. 0 \in Int /\ KeepGenerations - 1 \in Int BY <2>1
  <2>3. /\ IsFiniteSet(N)
        /\ Cardinality(N) = IF 0 > KeepGenerations - 1 THEN 0 ELSE KeepGenerations - 1 - 0 + 1
    BY <2>2, FS_Interval
  <2> QED BY <2>1, <2>3
<1> HIDE DEF N, f
<1>9. IsFiniteSet(kept) /\ Cardinality(kept) <= KeepGenerations
  BY <1>7, <1>8, FS_Injection
<1>10. kept \subseteq Chain /\ \A d, e \in kept : d.gen = e.gen => d = e BY <1>2, <1>6
<1> QED BY <1>9, <1>10 DEF kept, Few

LEMMA KeptNext == Inv /\ Kept /\ [Next]_vars => Kept'
<1> SUFFICES ASSUME Inv, Kept, [Next]_vars PROVE Kept' OBVIOUS
<1>1. CASE UNCHANGED peers BY <1>1 DEF Kept
<1>2. ASSUME NEW r \in Recipient, NEW t \in Send, Open(r, t) PROVE Kept'
  <2>1. PICK c \in peers[r] : Consume(r, t, peers[r], c) BY <1>2 DEF Open
  <2> DEFINE d == [c EXCEPT !.it = msg[t].n + 1]
  <2>2. d \in Chain /\ peers[r] \subseteq Chain
    <3>1. peers[r] \subseteq Chain /\ c \in Chain /\ msg[t].n \in Nat
      BY DEF Inv, Types, Message
    <3> QED BY <3>1 DEF Chain
  <2>3. peers' = [peers EXCEPT ![r] = Keep(peers[r], d)] BY <2>1 DEF Consume
  <2> HIDE DEF d
  <2>4. Few(Keep(peers[r], d)) BY <2>2, KeepsFew DEF Kept
  <2> QED BY <2>3, <2>4 DEF Kept, Inv, Types
<1>3. ASSUME NEW r \in Recipient, NEW t \in Send, Fetched(r, t) PROVE Kept'
  <2> DEFINE C(x) == [gen |-> x.gen, it |-> 0, key |-> x.key]
             D(x) == [C(x) EXCEPT !.it = msg[t].n + 1]
  <2>1. PICK x \in fetched[r][t] :
          \/ peers' = [peers EXCEPT ![r] = Keep(Keep(peers[r], C(x)), D(x))]
          \/ peers' = [peers EXCEPT ![r] = Keep(peers[r], C(x))]
          \/ peers' = peers
    BY <1>3 DEF Fetched, Consume
  <2>2. x \in Row /\ msg[t].n \in Nat BY DEF Inv, Types, Message
  <2>3. C(x) \in Chain BY <2>2 DEF Row, Chain
  <2>4. D(x) \in Chain BY <2>2, <2>3 DEF Chain
  <2>5. peers[r] \subseteq Chain BY DEF Inv, Types
  <2> HIDE DEF C, D
  <2>6. Few(Keep(peers[r], C(x))) /\ Keep(peers[r], C(x)) \subseteq Chain
    BY <2>3, <2>5, KeepsFew DEF Kept
  <2>7. Few(Keep(Keep(peers[r], C(x)), D(x))) BY <2>4, <2>6, KeepsFew
  <2> QED BY <2>1, <2>6, <2>7 DEF Kept, Inv, Types
<1> QED
  BY <1>1, <1>2, <1>3
  DEF Next, vars, readers, Begin, UseChain, RotateAlone, Rotate, UploadDone, UploadRefused,
      Post, Fail, CheckUpload, CommitUpload, Restart, LoseStorage, Change, Fetch

LEMMA OthersInit == Init => Others /\ Kept
<1> SUFFICES ASSUME Init PROVE Others /\ Kept OBVIOUS
<1>1. Others BY DEF Init, Others
<1>2. Few({}) BY FS_EmptySet, GroupKeysAssumption DEF Few
<1> QED BY <1>1, <1>2 DEF Init, Kept

LEMMA OthersNext == Inv /\ Others /\ [Next]_vars => Others'
<1> SUFFICES ASSUME Inv, Others, [Next]_vars PROVE Others' OBVIOUS
<1> USE DEF Others
<1>1. CASE UNCHANGED vars
  BY <1>1 DEF vars, client, requests, readers, bounds
<1>2. ASSUME NEW t \in Send,
             \/ Begin(t) \/ UseChain(t) \/ UploadRefused(t) \/ Post(t) \/ Fail(t)
      PROVE  Others'
  <2>1. calm' \in BOOLEAN
    BY <1>2, Zenon DEF Begin, UseChain, UploadRefused, Post, Fail
  <2>2. UNCHANGED <<roster, upload, blank, read, torn, changes>>
    BY <1>2 DEF Begin, UseChain, UploadRefused, Post, Fail, client, requests, readers, bounds
  <2>3. troubles' = troubles \/ troubles' = troubles + 1
    BY <1>2 DEF Begin, UseChain, UploadRefused, Post, Fail, bounds
  <2> QED BY <2>1, <2>2, <2>3
<1>3. ASSUME NEW t \in Send, RotateAlone(t) \/ UploadDone(t) PROVE Others'
  <2>1. roster' = {parts[t]} /\ parts[t] \in SUBSET Recipient
    BY <1>3 DEF RotateAlone, UploadDone, Adopt, Inv, Types
  <2>2. UNCHANGED <<requests, read, calm, torn, bounds>>
    BY <1>3 DEF RotateAlone, UploadDone, readers
  <2> QED BY <2>1, <2>2 DEF requests, bounds
<1>4. ASSUME NEW t \in Send, Rotate(t) PROVE Others'
  <2>1. upload' \in [Send -> {"none", "sent", "checked", "done", "failed"}]
    BY <1>4 DEF Rotate
  <2> QED BY <1>4, <2>1 DEF Rotate, client, readers, bounds
<1>5. ASSUME NEW t \in Send, CheckUpload(t) PROVE Others'
  <2>1. PICK some \in SUBSET Recipient : blank' = [blank EXCEPT ![t] = some]
    <3> DEFINE some == {r \in {x \in entries[t] : Acceptable(t, x)} : row[r].key = 0}
    <3>1. some \in SUBSET Recipient BY DEF Inv, Types
    <3>2. blank' = [blank EXCEPT ![t] = some] BY <1>5 DEF CheckUpload
    <3> QED BY <3>1, <3>2
  <2>2. blank' \in [Send -> SUBSET Recipient] BY <2>1
  <2> QED BY <1>5, <2>2 DEF CheckUpload, client, readers, bounds
<1>6. ASSUME NEW t \in Send, CommitUpload(t) PROVE Others'
  <2>1. upload' \in [Send -> {"none", "sent", "checked", "done", "failed"}]
    BY <1>6 DEF CommitUpload
  <2> QED BY <1>6, <2>1 DEF CommitUpload, client, readers, bounds
<1>7. CASE Restart
  <2>1. roster' = roster \/ \E D \in SUBSET Recipient : roster' = {D}
    BY <1>7 DEF Restart, Inv, Types
  <2>2. torn' \in BOOLEAN /\ calm' \in BOOLEAN BY <1>7, Zenon DEF Restart
  <2>3. UNCHANGED <<upload, blank, read, changes>> /\ troubles' = troubles + 1
    BY <1>7 DEF Restart, requests, readers
  <2> QED BY <2>1, <2>2, <2>3
<1>8. CASE LoseStorage
  <2>1. torn' \in BOOLEAN /\ calm' \in BOOLEAN BY <1>8, Zenon DEF LoseStorage
  <2>2. /\ UNCHANGED <<upload, blank, read, changes>>
        /\ roster' = {} /\ troubles' = troubles + 1
    BY <1>8 DEF LoseStorage, requests, readers
  <2> QED BY <2>1, <2>2
<1>9. ASSUME NEW r \in Recipient, Change(r) PROVE Others'
  BY <1>9 DEF Change, client, requests, readers
<1>10. ASSUME NEW r \in Recipient, NEW t \in Send, Open(r, t) \/ Fetch(r, t) \/ Fetched(r, t)
       PROVE  Others'
  <2>1. read' = read \/ read' = [read EXCEPT ![r] = @ \cup {t}]
    BY <1>10 DEF Open, Fetch, Fetched, Consume
  <2>2. read' \in [Recipient -> SUBSET Send] BY <2>1
  <2> QED BY <1>10, <2>2 DEF Open, Fetch, Fetched, client, requests, bounds
<1> QED BY <1>1, <1>2, <1>3, <1>4, <1>5, <1>6, <1>7, <1>8, <1>9, <1>10 DEF Next

\* Every variable keeps to its type, and a reader keeps one chain for each of
\* the newest _KEEP_GENERATIONS generations at most (put_peer), for any number of
\* users, messages, rotations and failures.
THEOREM GroupKeysTypes == Spec => []TypeOK
<1> DEFINE All == Inv /\ Others /\ Kept
<1>1. Init => All BY InitInv, OthersInit
<1>2. All /\ [Next]_vars => All' BY NextInv, OthersNext, KeptNext
<1>3. All => TypeOK
  <2> SUFFICES ASSUME All PROVE TypeOK OBVIOUS
  <2>1. roster \subseteq SUBSET Recipient /\ Cardinality(roster) <= 1
    <3>1. CASE roster = {}
      <4>1. Cardinality(roster) = 0 BY <3>1, FS_EmptySet
      <4> QED BY <3>1, <4>1
    <3>2. CASE \E D \in SUBSET Recipient : roster = {D}
      <4>1. Cardinality(roster) = 1 BY <3>2, FS_Singleton
      <4> QED BY <3>2, <4>1
    <3> QED BY <3>1, <3>2 DEF Others
  <2>2. \A r \in Recipient : Cardinality(peers[r]) <= KeepGenerations BY DEF Kept, Few
  <2> QED BY <2>1, <2>2 DEF Inv, Types, Phase, Others, TypeOK
<1> QED BY <1>1, <1>2, <1>3, PTL DEF Spec

-----------------------------------------------------------------------------
(* What can be read.                                                        *)

\* What has been read was sent, and a chain is where the last message read
\* with it has left it, or starts over.
Reading ==
  /\ \A t \in Send : pc[t] \in {"post", "sent"} => msg[t].key # 0
  /\ \A r \in Recipient :
       /\ read[r] \subseteq Sent
       /\ \A c \in peers[r] :
            /\ c.key # 0
            /\ c.it = 0 \/ \E u \in read[r] : msg[u].key = c.key /\ msg[u].n + 1 = c.it
       /\ row[r].key = 0 => row[r].gen = 0
       /\ \A t \in Send : fetched[r][t] # {} => t \in Sent

\* A key the author has adopted, the current one or one of an older generation;
\* or the one a send is uploading.
Known(x) ==
  x.key # 0 =>
    /\ own.key # 0 /\ ~Unused(x.key) /\ x.gen <= own.gen
    /\ x.gen = own.gen <=> x.key = own.key
Coming(x) == \E t \in Send : pc[t] = "upload" /\ x.key = t /\ x.gen = chain[t].gen

\* Before any trouble, sends come one after the other, each for the members of
\* the moment; the rows hold the current key, or the one that is coming.
Uploads ==
  /\ \A t \in Send :
       /\ Active(t) => parts[t] = members
       /\ upload[t] \in {"sent", "checked"} => pc[t] = "upload" /\ entries[t] = Addressed(t)
       /\ pc[t] = "upload" => chain[t] = NextChain(t)
       /\ pc[t] = "upload" /\ upload[t] = "done" =>
            \A r \in Addressed(t) : row[r] = [gen |-> chain[t].gen, key |-> t]
  /\ own.key # 0 => \/ \A r \in Addressed(own.key) : row[r] = [gen |-> own.gen, key |-> own.key]
                    \/ \E t \in Send : pc[t] = "upload"

Generations ==
  /\ Known(own) /\ \A t \in Send : Known(msg[t])
  /\ \A r \in Recipient :
       /\ \A c \in peers[r] : Known(c)
       /\ Known(row[r]) \/ Coming(row[r])
       /\ \A t \in Send : \A x \in fetched[r][t] : Known(x) \/ Coming(x)

InStep ==
  /\ ~torn /\ \A t, u \in Send : Active(t) /\ Active(u) => t = u
  /\ Uploads /\ Generations
Calm == calm => InStep

LEMMA ReadingStays ==
  ASSUME Reading, \A t \in Sent : pc'[t] = "sent" /\ msg'[t] = msg[t],
         \A t \in Send : pc'[t] \in {"post", "sent"} => msg'[t].key # 0,
         \A r \in Recipient : row'[r] = row[r] \/ row'[r].key # 0,
         UNCHANGED <<peers, read, fetched>>
  PROVE  Reading'
<1>1. Sent \subseteq Sent' BY DEF Sent
<1>2. ASSUME NEW r \in Recipient
      PROVE  /\ read'[r] \subseteq Sent'
             /\ \A c \in peers'[r] :
                  /\ c.key # 0
                  /\ c.it = 0 \/ \E u \in read'[r] : msg'[u].key = c.key /\ msg'[u].n + 1 = c.it
             /\ row'[r].key = 0 => row'[r].gen = 0
             /\ \A t \in Send : fetched'[r][t] # {} => t \in Sent'
  <2>1. read[r] \subseteq Sent BY DEF Reading
  <2>2. \A u \in read[r] : msg'[u] = msg[u] BY <2>1
  <2>3. \A c \in peers[r] :
          /\ c.key # 0
          /\ c.it = 0 \/ \E u \in read[r] : msg'[u].key = c.key /\ msg'[u].n + 1 = c.it
    BY <2>2 DEF Reading
  <2> QED BY <1>1, <2>1, <2>3 DEF Reading
<1> QED BY <1>2 DEF Reading

\* A reader's chains after r has read the messages in some, and c is stored.
LEMMA ReadingMoves ==
  ASSUME Inv, Reading, NEW r \in Recipient, NEW some \in SUBSET Sent, NEW cs,
         peers' = [peers EXCEPT ![r] = cs], read' = [read EXCEPT ![r] = @ \cup some],
         \A c \in cs : \/ c \in peers[r]
                       \/ c.key # 0 /\ c.it = 0
                       \/ c.key # 0 /\ \E u \in some : msg[u].key = c.key /\ msg[u].n + 1 = c.it,
         UNCHANGED <<pc, msg, row>>,
         \A q \in Recipient, u \in Send : fetched'[q][u] \subseteq fetched[q][u],
         read \in [Recipient -> SUBSET Send]
  PROVE  Reading'
<1>1. Sent' = Sent BY DEF Sent
<1>2. ASSUME NEW q \in Recipient
      PROVE  /\ read'[q] \subseteq Sent'
             /\ \A c \in peers'[q] :
                  /\ c.key # 0
                  /\ c.it = 0 \/ \E u \in read'[q] : msg'[u].key = c.key /\ msg'[u].n + 1 = c.it
  <2>1. CASE q = r
    <3>1. read'[q] = read[q] \cup some /\ peers'[q] = cs BY <2>1 DEF Inv, Types
    <3>2. \A c \in peers[r] :
            /\ c.key # 0
            /\ c.it = 0 \/ \E u \in read[r] : msg[u].key = c.key /\ msg[u].n + 1 = c.it
      BY DEF Reading
    <3>3. read[q] \subseteq Sent BY DEF Reading
    <3> QED BY <1>1, <2>1, <3>1, <3>2, <3>3
  <2>2. CASE q # r
    <3>1. read'[q] = read[q] /\ peers'[q] = peers[q] BY <2>2 DEF Inv, Types
    <3> QED BY <1>1, <3>1 DEF Reading
  <2> QED BY <2>1, <2>2
<1>3. \A q \in Recipient : row'[q].key = 0 => row'[q].gen = 0 BY DEF Reading
<1>4. \A q \in Recipient, t \in Send : fetched'[q][t] # {} => t \in Sent'
  BY <1>1 DEF Reading
<1>5. \A t \in Send : pc'[t] \in {"post", "sent"} => msg'[t].key # 0 BY DEF Reading
<1> QED BY <1>2, <1>3, <1>4, <1>5 DEF Reading

\* The three steps that encrypt.
LEMMA EncryptReading ==
  ASSUME Inv, Reading, NEW t \in Send, NEW c, c.key # 0, pc[t] \in {"room", "upload"},
         Encrypt(t, c), UNCHANGED <<row, peers, read, fetched>>
  PROVE  Reading'
<1>1. \A u \in Send : /\ pc'[u] = IF u = t THEN "post" ELSE pc[u]
                      /\ u # t => msg'[u] = msg[u]
  BY DEF Encrypt, Goto, Inv, Types
<1>2. msg'[t].key = c.key BY DEF Encrypt, Inv, Types
<1>3. \A u \in Sent : u \in Send /\ u # t BY DEF Sent
<1>4. \A u \in Sent : pc'[u] = "sent" /\ msg'[u] = msg[u] BY <1>1, <1>3 DEF Sent
<1>5. \A u \in Send : pc'[u] \in {"post", "sent"} => msg'[u].key # 0
  BY <1>1, <1>2 DEF Reading
<1> QED BY <1>4, <1>5, ReadingStays

\* Steps that take sends on without encrypting.
LEMMA QuietReading ==
  ASSUME Inv, Reading, UNCHANGED <<msg, peers, read, fetched>>,
         \A r \in Recipient : row'[r] = row[r] \/ row'[r].key # 0,
         \A t \in Send : /\ pc'[t] = "post" => pc[t] = "post"
                         /\ pc'[t] = "sent" => pc[t] \in {"post", "sent"}
                         /\ pc[t] = "sent" => pc'[t] = "sent"
  PROVE  Reading'
<1>1. \A t \in Sent : pc'[t] = "sent" /\ msg'[t] = msg[t] BY DEF Sent
<1>2. \A t \in Send : pc'[t] \in {"post", "sent"} => msg'[t].key # 0 BY DEF Reading
<1> QED BY <1>1, <1>2, ReadingStays

LEMMA ReadingNext == Inv /\ Reading /\ Others /\ [Next]_vars => Reading'
<1> SUFFICES ASSUME Inv, Reading, Others, [Next]_vars PROVE Reading' OBVIOUS
<1>1. CASE UNCHANGED vars
  BY <1>1, QuietReading DEF vars, server, sends, readers
<1>2. ASSUME NEW t \in Send,
             \/ Begin(t) \/ Rotate(t) \/ UploadRefused(t) \/ Post(t) \/ Fail(t)
      PROVE  Reading'
  <2>1. UNCHANGED <<msg, row, peers, read, fetched>>
    BY <1>2 DEF Begin, Rotate, UploadRefused, Post, Fail, server, readers
  <2>2. PICK p \in {"room", "upload", "failed", "sent"} :
          /\ Goto(t, p) /\ (p = "sent" => pc[t] = "post") /\ pc[t] # "sent"
    BY <1>2 DEF Begin, Rotate, UploadRefused, Post, Fail, Active
  <2>3. \A u \in Send : pc'[u] = IF u = t THEN p ELSE pc[u] BY <2>2 DEF Goto, Inv, Types
  <2> QED BY <2>1, <2>2, <2>3, QuietReading
<1>3. ASSUME NEW t \in Send, UseChain(t) PROVE Reading'
  <2>1. own.key # 0 /\ pc[t] = "room" /\ Encrypt(t, own) /\ UNCHANGED <<row, peers, read, fetched>>
    BY <1>3 DEF UseChain, MustRotate, server, readers
  <2> QED BY <2>1, EncryptReading
<1>4. ASSUME NEW t \in Send, RotateAlone(t) PROVE Reading'
  <2>1. /\ pc[t] = "room" /\ Encrypt(t, NextChain(t)) /\ NextChain(t).key = t
        /\ UNCHANGED <<row, peers, read, fetched>>
    BY <1>4 DEF RotateAlone, Adopt, NextChain, server, readers
  <2> QED BY <2>1, NoZero, EncryptReading
<1>5. ASSUME NEW t \in Send, UploadDone(t) PROVE Reading'
  <2>1. /\ pc[t] = "upload" /\ Encrypt(t, chain[t]) /\ chain[t].key = t
        /\ UNCHANGED <<row, peers, read, fetched>>
    BY <1>5 DEF UploadDone, Adopt, server, readers, Inv, Keys, Fresh
  <2> QED BY <2>1, NoZero, EncryptReading
<1>6. ASSUME NEW t \in Send, CheckUpload(t) \/ CommitUpload(t) PROVE Reading'
  <2>1. UNCHANGED <<msg, pc, peers, read, fetched>>
    BY <1>6 DEF CheckUpload, CommitUpload, sends, readers
  <2>2. \A r \in Recipient : row'[r] = row[r] \/ row'[r].key # 0
    BY <1>6, NoZero DEF CheckUpload, CommitUpload, server
  <2> QED BY <2>1, <2>2, QuietReading
<1>7. CASE Restart \/ LoseStorage
  <2>1. UNCHANGED <<msg, row, peers, read, fetched>>
    BY <1>7 DEF Restart, LoseStorage, server, readers
  <2>2. pc' = [t \in Send |-> IF Active(t) THEN "failed" ELSE pc[t]]
    BY <1>7 DEF Restart, LoseStorage
  <2> QED BY <2>1, <2>2, QuietReading DEF Active
<1>8. ASSUME NEW r \in Recipient, Change(r) PROVE Reading'
  BY <1>8, QuietReading DEF Change, sends, readers
<1>9. ASSUME NEW r \in Recipient, NEW t \in Send, Open(r, t) PROVE Reading'
  <2>1. PICK c \in peers[r] : Decrypts(c, msg[t]) /\ Consume(r, t, peers[r], c)
    BY <1>9 DEF Open
  <2> DEFINE d == [c EXCEPT !.it = msg[t].n + 1]
  <2>2. c \in Chain /\ c.key # 0 /\ t \in Sent BY <1>9 DEF Inv, Types, Open, CanOpen, Reading
  <2>3. d.key = msg[t].key /\ d.it = msg[t].n + 1 /\ d.key # 0
    BY <2>1, <2>2 DEF Chain, Decrypts
  <2>4. peers' = [peers EXCEPT ![r] = Keep(peers[r], d)] /\ read' = [read EXCEPT ![r] = @ \cup {t}]
    BY <2>1 DEF Consume
  <2>5. UNCHANGED <<pc, msg, row, fetched>> BY <1>9 DEF Open, sends, server
  <2> HIDE DEF d
  <2>6. Keep(peers[r], d) \subseteq peers[r] \cup {d} BY KeepPart
  <2>7. \A e \in Keep(peers[r], d) :
          \/ e \in peers[r]
          \/ e.key # 0 /\ e.it = 0
          \/ e.key # 0 /\ \E u \in {t} : msg[u].key = e.key /\ msg[u].n + 1 = e.it
    BY <2>3, <2>6
  <2>8. {t} \in SUBSET Sent BY <2>2
  <2> QED BY <2>4, <2>5, <2>7, <2>8, ReadingMoves DEF Others
<1>10. ASSUME NEW r \in Recipient, NEW t \in Send, Fetch(r, t) PROVE Reading'
  <2>1. UNCHANGED <<pc, msg, row, peers, read>> /\ t \in Sent
    BY <1>10 DEF Fetch, sends, server, CanOpen
  <2>2. \A q \in Recipient, u \in Send : (q # r \/ u # t) => fetched'[q][u] = fetched[q][u]
    BY <1>10 DEF Fetch, Inv, Types
  <2>3. Sent' = Sent BY <2>1 DEF Sent
  <2>4. \A q \in Recipient, u \in Send : fetched'[q][u] # {} => u \in Sent'
    BY <2>1, <2>2, <2>3 DEF Reading
  <2> QED BY <2>1, <2>3, <2>4 DEF Reading
<1>11. ASSUME NEW r \in Recipient, NEW t \in Send, Fetched(r, t) PROVE Reading'
  <2> DEFINE C(x) == [gen |-> x.gen, it |-> 0, key |-> x.key]
             D(x) == [C(x) EXCEPT !.it = msg[t].n + 1]
  <2>1. PICK x \in fetched[r][t] :
          \/ /\ x.key # 0 /\ Decrypts(C(x), msg[t])
             /\ peers' = [peers EXCEPT ![r] = Keep(Keep(peers[r], C(x)), D(x))]
             /\ read' = [read EXCEPT ![r] = @ \cup {t}]
          \/ /\ x.key # 0 /\ peers' = [peers EXCEPT ![r] = Keep(peers[r], C(x))]
             /\ read' = read
          \/ peers' = peers /\ read' = read
    BY <1>11 DEF Fetched, Consume
  <2>2. C(x).key = x.key /\ C(x).it = 0 /\ D(x).key = x.key /\ D(x).it = msg[t].n + 1
    OBVIOUS
  <2>3. Decrypts(C(x), msg[t]) => msg[t].key = x.key BY DEF Decrypts
  <2>4. t \in Sent BY DEF Reading
  <2>5. UNCHANGED <<pc, msg, row>> BY <1>11 DEF Fetched, sends, server
  <2>6. \A q \in Recipient, u \in Send : fetched'[q][u] \subseteq fetched[q][u]
    BY <1>11 DEF Fetched, Inv, Types
  <2> HIDE DEF C, D
  <2>7. Keep(Keep(peers[r], C(x)), D(x)) \subseteq peers[r] \cup {C(x), D(x)} BY KeepPart
  <2>8. Keep(peers[r], C(x)) \subseteq peers[r] \cup {C(x)} BY KeepPart
  <2>9. CASE /\ x.key # 0 /\ Decrypts(C(x), msg[t])
             /\ peers' = [peers EXCEPT ![r] = Keep(Keep(peers[r], C(x)), D(x))]
             /\ read' = [read EXCEPT ![r] = @ \cup {t}]
    <3>1. \A e \in Keep(Keep(peers[r], C(x)), D(x)) :
            \/ e \in peers[r]
            \/ e.key # 0 /\ e.it = 0
            \/ e.key # 0 /\ \E u \in {t} : msg[u].key = e.key /\ msg[u].n + 1 = e.it
      BY <2>2, <2>3, <2>7, <2>9
    <3>2. {t} \in SUBSET Sent BY <2>4
    <3> QED BY <2>5, <2>6, <2>9, <3>1, <3>2, ReadingMoves DEF Others
  <2>10. CASE x.key # 0 /\ peers' = [peers EXCEPT ![r] = Keep(peers[r], C(x))] /\ read' = read
    <3>1. \A e \in Keep(peers[r], C(x)) :
            \/ e \in peers[r]
            \/ e.key # 0 /\ e.it = 0
            \/ e.key # 0 /\ \E u \in {} : msg[u].key = e.key /\ msg[u].n + 1 = e.it
      BY <2>2, <2>8, <2>10
    <3>2. {} \in SUBSET Sent /\ read' = [read EXCEPT ![r] = @ \cup {}] BY <2>10 DEF Others
    <3> QED BY <2>5, <2>6, <2>10, <3>1, <3>2, ReadingMoves DEF Others
  <2>11. CASE peers' = peers /\ read' = read
    <3>1. Sent' = Sent BY <2>5 DEF Sent
    <3>2. \A q \in Recipient, u \in Send : fetched'[q][u] # {} => u \in Sent'
      BY <2>6, <3>1 DEF Reading
    <3> QED BY <2>5, <2>11, <3>1, <3>2 DEF Reading
  <2> QED BY <2>1, <2>9, <2>10, <2>11
<1> QED
  BY <1>1, <1>2, <1>3, <1>4, <1>5, <1>6, <1>7, <1>8, <1>9, <1>10, <1>11 DEF Next

\* Nothing adopted so far stops being known.
LEMMA KnownStays ==
  ASSUME own'.key = own.key, own'.gen = own.gen, \A t \in Send : Unused(t)' => Unused(t)
  PROVE  \A x : x.key \in {0} \cup Send /\ Known(x) => Known(x)'
BY DEF Known

LEMMA KeysOfSends ==
  ASSUME Inv
  PROVE  /\ own.key \in {0} \cup Send /\ own.gen \in Nat
         /\ \A t \in Send : msg[t].key \in {0} \cup Send /\ msg[t].gen \in Nat
         /\ \A r \in Recipient :
              /\ \A c \in peers[r] : c.key \in {0} \cup Send /\ c.gen \in Nat
              /\ row[r].key \in {0} \cup Send /\ row[r].gen \in Nat
              /\ \A t \in Send : \A x \in fetched[r][t] : x.key \in {0} \cup Send /\ x.gen \in Nat
         /\ \A t \in Send : NextChain(t).gen \in Nat
BY DEF Inv, Types, Chain, Message, Row, NextChain

\* Steps that adopt no key.
LEMMA GenerationsStay ==
  ASSUME Inv, Generations, own'.key = own.key, own'.gen = own.gen,
         \A t \in Send : Unused(t)' => Unused(t),
         \A x : Coming(x) => Coming(x)',
         \A t \in Send : msg'[t] = msg[t] \/ (msg'[t].key = own.key /\ msg'[t].gen = own.gen),
         \A r \in Recipient : row'[r] = row[r] \/ Coming(row[r])',
         \A r \in Recipient : \A c \in peers'[r] :
           \E d \in peers[r] \cup UNION {fetched[r][t] : t \in Send} :
             Known(d) /\ c.key = d.key /\ c.gen = d.gen /\ d.key \in {0} \cup Send,
         \A r \in Recipient, t \in Send : fetched'[r][t] \subseteq fetched[r][t] \cup {row[r]}
  PROVE  Generations'
<1>1. \A x : x.key \in {0} \cup Send /\ Known(x) => Known(x)' BY KnownStays
<1>2. Known(own)' BY <1>1, KeysOfSends DEF Generations, Known
<1>3. ASSUME NEW t \in Send PROVE Known(msg[t])'
  <2>1. CASE msg'[t] = msg[t]
    <3>1. Known(msg[t]) /\ msg[t].key \in {0} \cup Send BY KeysOfSends DEF Generations
    <3>2. \A x : x = msg[t] => Known(x)' BY <1>1, <3>1
    <3> QED BY <2>1, <3>2 DEF Known
  <2>2. CASE msg'[t].key = own.key /\ msg'[t].gen = own.gen
    BY <1>2, <2>2 DEF Known
  <2> QED BY <2>1, <2>2
<1>4. ASSUME NEW r \in Recipient, NEW c \in peers'[r] PROVE Known(c)'
  <2>1. PICK d : Known(d) /\ c.key = d.key /\ c.gen = d.gen /\ d.key \in {0} \cup Send OBVIOUS
  <2>2. Known(d)' BY <1>1, <2>1
  <2> QED BY <2>1, <2>2 DEF Known
<1>5. ASSUME NEW r \in Recipient PROVE Known(row[r])' \/ Coming(row[r])'
  <2>1. CASE row'[r] = row[r]
    <3>1. \A x : x = row[r] => Known(x)' \/ Coming(x)'
      BY <1>1, KeysOfSends DEF Generations
    <3> QED BY <2>1, <3>1 DEF Known, Coming
  <2> QED BY <2>1
<1>6. ASSUME NEW r \in Recipient, NEW t \in Send, NEW x \in fetched'[r][t]
      PROVE  Known(x)' \/ Coming(x)'
  <2>1. x \in fetched[r][t] \/ x = row[r] OBVIOUS
  <2>2. x.key \in {0} \cup Send /\ (Known(x) \/ Coming(x))
    BY <2>1, KeysOfSends DEF Generations
  <2> QED BY <1>1, <2>2
<1> QED BY <1>2, <1>3, <1>4, <1>5, <1>6 DEF Generations

LEMMA OneSend ==
  ASSUME InStep, NEW t \in Send, Active(t)
  PROVE  /\ parts[t] = members
         /\ \A u \in Send \ {t} : ~Active(u) /\ pc[u] # "upload" /\ upload[u] \notin {"sent", "checked"}
         /\ pc[t] # "upload" => upload[t] \notin {"sent", "checked"} /\ \A x : ~Coming(x)
BY DEF InStep, Uploads, Active, Coming

LEMMA NoSend ==
  ASSUME InStep, Idle
  PROVE  /\ \A u \in Send : pc[u] # "upload" /\ upload[u] \notin {"sent", "checked"}
         /\ \A x : ~Coming(x)
         /\ own.key # 0 => \A r \in Addressed(own.key) : row[r] = [gen |-> own.gen, key |-> own.key]
BY DEF InStep, Uploads, Active, Coming, Idle

\* Steps that change no chain of a reader and no row.
LEMMA GenerationsSame ==
  ASSUME Inv, Generations, own'.key = own.key, own'.gen = own.gen,
         \A t \in Send : Unused(t)' => Unused(t),
         \A x : Coming(x) => Coming(x)',
         \A t \in Send : msg'[t] = msg[t] \/ (msg'[t].key = own.key /\ msg'[t].gen = own.gen),
         UNCHANGED <<row, peers>>,
         \A r \in Recipient, t \in Send : fetched'[r][t] \subseteq fetched[r][t] \cup {row[r]}
  PROVE  Generations'
<1>1. \A r \in Recipient : \A c \in peers'[r] :
        \E d \in peers[r] \cup UNION {fetched[r][t] : t \in Send} :
          Known(d) /\ c.key = d.key /\ c.gen = d.gen /\ d.key \in {0} \cup Send
  BY KeysOfSends DEF Generations
<1> QED BY <1>1, GenerationsStay

LEMMA BeginInStep ==
  ASSUME Inv, InStep, NEW t \in Send, Begin(t), Idle
  PROVE  InStep'
<1>1. /\ pc[t] = "new" /\ own.key # t
      /\ UNCHANGED <<members, row, own, chain, msg, upload, entries, peers, fetched, torn>>
  BY DEF Begin, server, client, requests, readers, Inv, Keys, Fresh, Unused
<1>2. \A u \in Send : /\ pc'[u] = IF u = t THEN "room" ELSE pc[u]
                      /\ parts'[u] = IF u = t THEN members ELSE parts[u]
  BY DEF Begin, Goto, Inv, Types
<1>3. /\ \A u \in Send : pc[u] # "upload" /\ upload[u] \notin {"sent", "checked"}
      /\ \A x : ~Coming(x)
      /\ own.key # 0 => \A r \in Addressed(own.key) : row[r] = [gen |-> own.gen, key |-> own.key]
  BY NoSend
<1>4. \A u \in Send : Active(u)' => u = t BY <1>2 DEF Idle, Active
<1>5. own.key \in {0} \cup Send BY KeysOfSends
<1>6. Uploads' BY <1>1, <1>2, <1>3, <1>4, <1>5 DEF Uploads, Addressed
<1>7. Generations' BY <1>1, <1>2, <1>3, GenerationsSame DEF InStep, Unused
<1> QED BY <1>1, <1>4, <1>6, <1>7 DEF InStep

LEMMA UseChainInStep ==
  ASSUME Inv, InStep, NEW t \in Send, UseChain(t)
  PROVE  InStep'
<1>1. /\ pc[t] = "room" /\ own.key # 0
      /\ UNCHANGED <<members, row, parts, chain, upload, entries, peers, fetched, torn>>
  BY DEF UseChain, MustRotate, server, requests, readers
<1>2. /\ \A u \in Send : /\ pc'[u] = IF u = t THEN "post" ELSE pc[u]
                         /\ u # t => msg'[u] = msg[u]
      /\ msg'[t].key = own.key /\ msg'[t].gen = own.gen
  BY DEF UseChain, Encrypt, Goto, Inv, Types
<1>3. own'.key = own.key /\ own'.gen = own.gen
  BY DEF UseChain, Encrypt, Inv, Types, Chain
<1>4. /\ parts[t] = members
      /\ \A u \in Send : pc[u] # "upload" /\ upload[u] \notin {"sent", "checked"}
      /\ \A u \in Send \ {t} : ~Active(u)
      /\ \A x : ~Coming(x)
  BY <1>1, OneSend DEF Active
<1>5. \A u \in Send : Active(u)' => u = t BY <1>2, <1>4 DEF Active
<1>6. Uploads' BY <1>1, <1>2, <1>3, <1>4, <1>5 DEF Uploads, Addressed, InStep
<1>7. Generations' BY <1>1, <1>2, <1>3, <1>4, GenerationsSame DEF InStep, Unused
<1> QED BY <1>1, <1>5, <1>6, <1>7 DEF InStep

LEMMA RotateInStep ==
  ASSUME Inv, Others, InStep, NEW t \in Send, Rotate(t)
  PROVE  InStep'
<1>1. /\ pc[t] = "room"
      /\ UNCHANGED <<members, row, own, parts, msg, peers, fetched, torn>>
  BY DEF Rotate, server, client, readers
<1>2. /\ entries' = [entries EXCEPT ![t] = Addressed(t)]
      /\ upload' = [upload EXCEPT ![t] = "sent"]
      /\ chain' = [chain EXCEPT ![t] = NextChain(t)]
  BY DEF Rotate
<1>3. \A u \in Send : /\ pc'[u] = IF u = t THEN "upload" ELSE pc[u]
                      /\ u # t => chain'[u] = chain[u] /\ entries'[u] = entries[u]
  BY <1>2 DEF Rotate, Goto, Inv, Types
<1>4. chain'[t] = NextChain(t) /\ entries'[t] = Addressed(t) BY <1>2 DEF Inv, Types
<1>5. /\ parts[t] = members
      /\ \A u \in Send : pc[u] # "upload" /\ upload[u] \notin {"sent", "checked"}
      /\ \A u \in Send \ {t} : ~Active(u)
      /\ \A x : ~Coming(x)
  BY <1>1, OneSend DEF Active
<1>6. \A u \in Send : Active(u)' => u = t BY <1>3, <1>5 DEF Active
<1>7. \A u \in Send : /\ u # t => upload'[u] = upload[u]
                      /\ upload'[u] = "done" => u # t
  BY <1>2 DEF Others
<1>8. NextChain(t)' = NextChain(t) /\ \A u \in Send : Addressed(u)' = Addressed(u)
  BY <1>1 DEF NextChain, Addressed
<1>9. Uploads' BY <1>1, <1>3, <1>4, <1>5, <1>6, <1>7, <1>8 DEF Uploads
<1>10. Generations' BY <1>1, <1>3, <1>5, GenerationsSame DEF InStep, Unused
<1> QED BY <1>1, <1>6, <1>9, <1>10 DEF InStep

\* The author takes the next chain for its own.
LEMMA AdoptInStep ==
  ASSUME Inv, InStep, NEW t \in Send, pc[t] \in {"room", "upload"}, NEW c \in Chain,
         c = NextChain(t), Encrypt(t, c), upload[t] \notin {"sent", "checked"},
         \A r \in Addressed(t) : row[r] = [gen |-> c.gen, key |-> t],
         UNCHANGED <<members, row, parts, chain, upload, entries, peers, fetched, torn>>
  PROVE  InStep'
<1>1. /\ \A u \in Send : /\ pc'[u] = IF u = t THEN "post" ELSE pc[u]
                         /\ u # t => msg'[u] = msg[u]
      /\ msg'[t].key = t /\ msg'[t].gen = c.gen
  BY DEF Encrypt, Goto, NextChain, Inv, Types
<1>2. own'.key = t /\ own'.gen = c.gen BY DEF Encrypt, NextChain, Chain
<1>3. /\ own.key # 0 => c.gen = own.gen + 1
      /\ own.gen \in Nat /\ c.gen \in Nat /\ c.key = t /\ t # 0 /\ Unused(t)
  BY NoZero DEF NextChain, Inv, Types, Chain, Unused
<1>4. /\ parts[t] = members
      /\ \A u \in Send \ {t} : ~Active(u) /\ pc[u] # "upload" /\ upload[u] \notin {"sent", "checked"}
  BY OneSend DEF Active
<1>5. \A u \in Send : /\ Active(u)' => u = t
                      /\ pc'[u] # "upload" /\ upload'[u] \notin {"sent", "checked"}
  BY <1>1, <1>4 DEF Active
<1>6. Uploads' BY <1>1, <1>2, <1>4, <1>5 DEF Uploads, Addressed
<1>7. \A x : x.key \in {0} \cup Send /\ x.gen \in Nat /\ Known(x) => Known(x)'
  <2> SUFFICES ASSUME NEW x, x.key \in Send, x.gen \in Nat, Known(x) PROVE Known(x)'
    BY DEF Known
  <2>1. own.key # 0 /\ ~Unused(x.key) /\ x.gen <= own.gen BY NoZero DEF Known
  <2>2. x.key # t /\ x.gen < c.gen BY <1>3, <2>1
  <2>3. ~Unused(x.key)' BY <1>1, <2>1 DEF Unused
  <2> QED BY <1>2, <1>3, <2>2, <2>3 DEF Known
<1>8. \A x : Coming(x) \/ (x.key = t /\ x.gen = c.gen) => Known(x)'
  <2>1. \A x : Coming(x) => x.key = t /\ x.gen = c.gen
    BY <1>4 DEF Coming, InStep, Uploads
  <2>2. ~Unused(t)' BY <1>1 DEF Unused
  <2> QED BY <1>2, <1>3, <2>1, <2>2 DEF Known
<1>9. Generations'
  <2>1. Known(own)' BY <1>2, <1>8 DEF Known
  <2>2. ASSUME NEW u \in Send PROVE Known(msg[u])'
    <3>1. CASE u = t
      <4>1. \A x : x.key = t /\ x.gen = c.gen => Known(x)' BY <1>8
      <4> QED BY <1>1, <3>1, <4>1 DEF Known
    <3>2. CASE u # t
      <4>1. \A x : x = msg[u] => Known(x)' BY <1>7, KeysOfSends DEF InStep, Generations
      <4> QED BY <1>1, <3>2, <4>1 DEF Known
    <3> QED BY <3>1, <3>2
  <2>3. ASSUME NEW r \in Recipient, NEW d \in peers'[r] PROVE Known(d)'
    <3>1. d \in peers[r] OBVIOUS
    <3> QED BY <1>7, <3>1, KeysOfSends DEF InStep, Generations
  <2>4. ASSUME NEW r \in Recipient PROVE Known(row[r])'
    <3>1. \A x : x = row[r] => Known(x)' BY <1>7, <1>8, KeysOfSends DEF InStep, Generations
    <3> QED BY <3>1 DEF Known
  <2>5. ASSUME NEW r \in Recipient, NEW u \in Send, NEW x \in fetched'[r][u] PROVE Known(x)'
    <3>1. x \in fetched[r][u] OBVIOUS
    <3> QED BY <1>7, <1>8, <3>1, KeysOfSends DEF InStep, Generations
  <2> QED BY <2>1, <2>2, <2>3, <2>4, <2>5 DEF Generations
<1> QED BY <1>5, <1>6, <1>9 DEF InStep

LEMMA RotateAloneInStep ==
  ASSUME Inv, InStep, NEW t \in Send, RotateAlone(t)
  PROVE  InStep'
<1>1. /\ pc[t] = "room" /\ Addressed(t) = {} /\ Encrypt(t, NextChain(t))
      /\ UNCHANGED <<members, row, parts, chain, upload, entries, peers, fetched, torn>>
  BY DEF RotateAlone, Adopt, server, requests, readers
<1>2. upload[t] \notin {"sent", "checked"} BY <1>1, OneSend DEF Active
<1>3. NextChain(t) \in Chain BY NextChainType DEF Inv
<1> QED BY <1>1, <1>2, <1>3, AdoptInStep

LEMMA UploadDoneInStep ==
  ASSUME Inv, InStep, NEW t \in Send, UploadDone(t)
  PROVE  InStep'
<1>1. /\ pc[t] = "upload" /\ upload[t] = "done" /\ Encrypt(t, chain[t])
      /\ UNCHANGED <<members, row, parts, chain, upload, entries, peers, fetched, torn>>
  BY DEF UploadDone, Adopt, server, requests, readers
<1>2. /\ chain[t] = NextChain(t) /\ chain[t] \in Chain
      /\ \A r \in Addressed(t) : row[r] = [gen |-> chain[t].gen, key |-> t]
  BY <1>1 DEF InStep, Uploads, Inv, Types
<1> QED BY <1>1, <1>2, AdoptInStep

LEMMA PostInStep ==
  ASSUME Inv, InStep, NEW t \in Send, Post(t)
  PROVE  InStep'
<1>1. /\ pc[t] = "post"
      /\ UNCHANGED <<members, row, own, parts, chain, msg, upload, entries, peers, fetched, torn>>
  BY DEF Post, server, client, requests, readers
<1>2. \A u \in Send : pc'[u] = IF u = t THEN "sent" ELSE pc[u]
  BY DEF Post, Goto, Inv, Types
<1>3. /\ \A u \in Send : pc[u] # "upload" /\ upload[u] \notin {"sent", "checked"}
      /\ \A u \in Send \ {t} : ~Active(u)
      /\ \A x : ~Coming(x)
  BY <1>1, OneSend DEF Active
<1>4. \A u \in Send : ~Active(u)' BY <1>2, <1>3 DEF Active
<1>5. Uploads' BY <1>1, <1>2, <1>3, <1>4 DEF Uploads, Addressed, InStep
<1>6. Generations' BY <1>1, <1>2, <1>3, GenerationsSame DEF InStep, Unused
<1> QED BY <1>1, <1>4, <1>5, <1>6 DEF InStep

\* The server takes every entry: the recipients are members, and no row is newer.
LEMMA CheckUploadInStep ==
  ASSUME Inv, Reading, InStep, NEW t \in Send, CheckUpload(t)
  PROVE  InStep'
<1>1. /\ upload[t] = "sent" /\ upload' = [upload EXCEPT ![t] = "checked"]
      /\ entries' = [entries EXCEPT ![t] = {r \in entries[t] : Acceptable(t, r)}]
      /\ UNCHANGED <<members, row, own, pc, parts, chain, msg, peers, fetched, torn>>
  BY DEF CheckUpload, server, client, sends, readers
<1>2. /\ pc[t] = "upload" /\ entries[t] = Addressed(t) /\ chain[t] = NextChain(t)
      /\ Addressed(t) \subseteq members
  BY <1>1 DEF InStep, Uploads, Active, Addressed
<1>3. ASSUME NEW r \in Addressed(t) PROVE Acceptable(t, r)
  <2>1. r \in Recipient /\ r \in members BY <1>2 DEF Inv, Types
  <2>2. /\ own.gen \in Nat /\ row[r].gen \in Nat /\ chain[t].gen \in Nat
        /\ own.key # 0 => chain[t].gen = own.gen + 1
    BY <1>2, <2>1, KeysOfSends DEF NextChain
  <2>3. CASE row[r].key = 0
    <3>1. row[r].gen = 0 BY <2>1, <2>3 DEF Reading
    <3> QED BY <2>1, <2>2, <3>1 DEF Acceptable
  <2>4. CASE row[r].key # 0 /\ Known(row[r])
    BY <2>1, <2>2, <2>4 DEF Known, Acceptable
  <2>5. CASE Coming(row[r])
    <3>1. row[r].gen = chain[t].gen BY <1>2, <2>5, OneSend DEF Coming, Active
    <3> QED BY <2>1, <2>2, <3>1 DEF Acceptable
  <2> QED BY <2>1, <2>3, <2>4, <2>5 DEF InStep, Generations
<1>4. {r \in entries[t] : Acceptable(t, r)} = Addressed(t) BY <1>2, <1>3
<1>5. /\ entries'[t] = Addressed(t) /\ \A u \in Send \ {t} : entries'[u] = entries[u]
  BY <1>1, <1>4 DEF Inv, Types
<1>6. \A u \in Send : /\ u # t => upload'[u] = upload[u]
                      /\ upload'[u] = "done" => u # t
  BY <1>1
<1>7. \A u \in Send : NextChain(u)' = NextChain(u) /\ Addressed(u)' = Addressed(u)
  BY <1>1 DEF NextChain, Addressed
<1>8. Uploads' BY <1>1, <1>2, <1>5, <1>6, <1>7 DEF Uploads, InStep, Active
<1>9. \A x : Coming(x) => Coming(x)' BY <1>1 DEF Coming
<1>10. Generations' BY <1>1, <1>9, GenerationsSame DEF InStep, Unused
<1> QED BY <1>1, <1>8, <1>10 DEF InStep, Active

LEMMA CommitUploadInStep ==
  ASSUME Inv, Others, InStep, NEW t \in Send, CommitUpload(t)
  PROVE  InStep'
<1>1. /\ upload[t] = "checked"
      /\ \/ /\ upload' = [upload EXCEPT ![t] = "done"]
            /\ row' = [r \in Recipient |-> IF r \in entries[t]
                         THEN [gen |-> chain[t].gen, key |-> t] ELSE row[r]]
         \/ upload' = [upload EXCEPT ![t] = "failed"] /\ row' = row
      /\ UNCHANGED <<members, own, pc, parts, chain, msg, entries, peers, fetched, torn>>
  BY DEF CommitUpload, client, sends, readers
<1>2. /\ pc[t] = "upload" /\ entries[t] = Addressed(t) /\ Addressed(t) \subseteq Recipient
  BY <1>1 DEF InStep, Uploads, Inv, Types, Addressed
<1>3. /\ upload'[t] \in {"done", "failed"} /\ \A u \in Send \ {t} : upload'[u] = upload[u]
  BY <1>1 DEF Others
<1>4. \A u \in Send \ {t} : pc[u] # "upload" BY <1>2, OneSend DEF Active
<1>5. upload'[t] = "done" => \A r \in Addressed(t) : row'[r] = [gen |-> chain[t].gen, key |-> t]
  BY <1>1, <1>2 DEF Others
<1>6. \A u \in Send : NextChain(u)' = NextChain(u) /\ Addressed(u)' = Addressed(u)
  BY <1>1 DEF NextChain, Addressed
<1>7. Uploads' BY <1>1, <1>2, <1>3, <1>4, <1>5, <1>6 DEF Uploads, InStep, Active
<1>8. \A x : Coming(x) => Coming(x)' BY <1>1 DEF Coming
<1>9. \A r \in Recipient : row'[r] = row[r] \/ Coming(row[r])'
  <2> SUFFICES ASSUME NEW r \in Recipient, row'[r] # row[r] PROVE Coming(row[r])' OBVIOUS
  <2>1. row'[r].gen = chain'[t].gen /\ row'[r].key = t /\ pc'[t] = "upload" BY <1>1, <1>2
  <2> QED BY <2>1 DEF Coming
<1>10. \A r \in Recipient : \A c \in peers'[r] :
         \E d \in peers[r] \cup UNION {fetched[r][u] : u \in Send} :
           Known(d) /\ c.key = d.key /\ c.gen = d.gen /\ d.key \in {0} \cup Send
  BY <1>1, KeysOfSends DEF InStep, Generations
<1>11. Generations' BY <1>1, <1>8, <1>9, <1>10, GenerationsStay DEF InStep, Unused
<1> QED BY <1>1, <1>7, <1>11 DEF InStep, Active

LEMMA ChangeInStep ==
  ASSUME Inv, InStep, NEW r \in Recipient, Change(r), Idle
  PROVE  InStep'
<1>1. UNCHANGED <<row, own, pc, parts, chain, msg, upload, entries, peers, fetched, torn>>
  BY DEF Change, client, sends, requests, readers
<1>2. /\ \A u \in Send : pc[u] # "upload" /\ upload[u] \notin {"sent", "checked"}
      /\ \A x : ~Coming(x)
  BY NoSend
<1>3. Uploads' BY <1>1, <1>2 DEF Uploads, Addressed, InStep, Active, Idle
<1>4. Generations' BY <1>1, <1>2, GenerationsSame DEF InStep, Unused
<1> QED BY <1>1, <1>3, <1>4 DEF InStep, Active

\* A reader's step: its chains come from those it had and from answers that
\* have the generation of a message.
LEMMA ReaderInStep ==
  ASSUME Inv, InStep, UNCHANGED <<server, client, sends, requests, torn>>,
         \A r \in Recipient : \A c \in peers'[r] :
           \E d \in peers[r] \cup UNION {fetched[r][t] : t \in Send} :
             Known(d) /\ c.key = d.key /\ c.gen = d.gen /\ d.key \in {0} \cup Send,
         \A r \in Recipient, t \in Send : fetched'[r][t] \subseteq fetched[r][t] \cup {row[r]}
  PROVE  InStep'
<1>1. UNCHANGED <<members, row, own, pc, parts, chain, msg, upload, entries, torn>>
  BY DEF server, client, sends, requests
<1>2. \A u \in Send : NextChain(u)' = NextChain(u) BY <1>1 DEF NextChain
<1>3. Uploads' BY <1>1, <1>2 DEF Uploads, Addressed, InStep, Active
<1>4. \A x : Coming(x) => Coming(x)' BY <1>1 DEF Coming
<1>5. Generations' BY <1>1, <1>4, GenerationsStay DEF InStep, Unused
<1> QED BY <1>1, <1>3, <1>5 DEF InStep, Active

LEMMA OpenInStep ==
  ASSUME Inv, InStep, NEW r \in Recipient, NEW t \in Send, Open(r, t)
  PROVE  InStep'
<1>1. PICK c \in peers[r] : Consume(r, t, peers[r], c) BY DEF Open
<1> DEFINE d == [c EXCEPT !.it = msg[t].n + 1]
<1>2. c \in Chain BY DEF Inv, Types
<1>3. d.gen = c.gen /\ d.key = c.key BY <1>2 DEF Chain
<1>4. peers' = [peers EXCEPT ![r] = Keep(peers[r], d)] BY <1>1 DEF Consume
<1> HIDE DEF d
<1>5. Keep(peers[r], d) \subseteq peers[r] \cup {d} BY KeepPart
<1>6. ASSUME NEW q \in Recipient, NEW e \in peers'[q]
      PROVE  \E x \in peers[q] \cup UNION {fetched[q][u] : u \in Send} :
               Known(x) /\ e.key = x.key /\ e.gen = x.gen /\ x.key \in {0} \cup Send
  <2>1. \A x \in peers[q] : Known(x) /\ x.key \in {0} \cup Send
    BY KeysOfSends DEF InStep, Generations
  <2>2. e \in peers[q] \/ (q = r /\ e = d) BY <1>4, <1>5 DEF Inv, Types
  <2> QED BY <1>3, <2>1, <2>2
<1>7. fetched' = fetched /\ UNCHANGED <<server, client, sends, requests, torn>> BY DEF Open
<1> QED BY <1>6, <1>7, ReaderInStep

LEMMA FetchInStep ==
  ASSUME Inv, InStep, NEW r \in Recipient, NEW t \in Send, Fetch(r, t)
  PROVE  InStep'
<1>1. peers' = peers /\ UNCHANGED <<server, client, sends, requests, torn>> BY DEF Fetch
<1>2. \A q \in Recipient, u \in Send : fetched'[q][u] \subseteq fetched[q][u] \cup {row[q]}
  BY DEF Fetch, Inv, Types
<1>3. \A q \in Recipient : \A c \in peers'[q] :
        \E d \in peers[q] \cup UNION {fetched[q][u] : u \in Send} :
          Known(d) /\ c.key = d.key /\ c.gen = d.gen /\ d.key \in {0} \cup Send
  BY <1>1, KeysOfSends DEF InStep, Generations
<1> QED BY <1>1, <1>2, <1>3, ReaderInStep

\* An answer of the message's generation is of an adopted key: the key that is
\* coming has a generation of its own.
LEMMA FetchedInStep ==
  ASSUME Inv, Reading, InStep, NEW r \in Recipient, NEW t \in Send, Fetched(r, t)
  PROVE  InStep'
<1> DEFINE C(x) == [gen |-> x.gen, it |-> 0, key |-> x.key]
           D(x) == [C(x) EXCEPT !.it = msg[t].n + 1]
<1>1. PICK x \in fetched[r][t] :
        \/ /\ x.key # 0 /\ x.gen = msg[t].gen
           /\ \/ peers' = [peers EXCEPT ![r] = Keep(Keep(peers[r], C(x)), D(x))]
              \/ peers' = [peers EXCEPT ![r] = Keep(peers[r], C(x))]
        \/ peers' = peers
  BY DEF Fetched, Consume
<1>2. C(x).gen = x.gen /\ C(x).key = x.key /\ D(x).gen = x.gen /\ D(x).key = x.key OBVIOUS
<1>3. /\ UNCHANGED <<server, client, sends, requests, torn>>
      /\ \A q \in Recipient, u \in Send : fetched'[q][u] \subseteq fetched[q][u]
  BY DEF Fetched, Inv, Types
<1> HIDE DEF C, D
<1>4. x.key \in {0} \cup Send BY KeysOfSends
<1>5. x.gen = msg[t].gen => Known(x)
  <2> SUFFICES ASSUME x.gen = msg[t].gen, Coming(x) PROVE FALSE
    BY DEF InStep, Generations
  <2>1. t \in Sent BY DEF Reading
  <2>2. msg[t].key # 0 BY <2>1 DEF Reading, Sent
  <2>3. own.key # 0 /\ msg[t].gen <= own.gen BY <2>2 DEF InStep, Generations, Known
  <2>4. x.gen = own.gen + 1
    <3>1. PICK u \in Send : pc[u] = "upload" /\ x.gen = chain[u].gen BY DEF Coming
    <3>2. chain[u] = NextChain(u) BY <3>1 DEF InStep, Uploads
    <3> QED BY <2>3, <3>1, <3>2 DEF NextChain
  <2>5. own.gen \in Nat BY KeysOfSends
  <2> QED BY <2>3, <2>4, <2>5
<1>6. Keep(Keep(peers[r], C(x)), D(x)) \subseteq peers[r] \cup {C(x), D(x)} BY KeepPart
<1>7. Keep(peers[r], C(x)) \subseteq peers[r] \cup {C(x)} BY KeepPart
<1>8. ASSUME NEW q \in Recipient, NEW e \in peers'[q]
      PROVE  \E d \in peers[q] \cup UNION {fetched[q][u] : u \in Send} :
               Known(d) /\ e.key = d.key /\ e.gen = d.gen /\ d.key \in {0} \cup Send
  <2>1. \A d \in peers[q] : Known(d) /\ d.key \in {0} \cup Send
    BY KeysOfSends DEF InStep, Generations
  <2>2. \/ e \in peers[q]
        \/ q = r /\ x.gen = msg[t].gen /\ e \in {C(x), D(x)}
    BY <1>1, <1>6, <1>7 DEF Inv, Types
  <2>3. x \in UNION {fetched[r][u] : u \in Send} OBVIOUS
  <2> QED BY <1>2, <1>4, <1>5, <2>1, <2>2, <2>3
<1> QED BY <1>3, <1>8, ReaderInStep

LEMMA CalmNext == Inv /\ Others /\ Reading /\ Calm /\ [Next]_vars => Calm'
<1> SUFFICES ASSUME Inv, Others, Reading, Calm, [Next]_vars, calm' PROVE InStep'
  BY DEF Calm
<1>1. CASE UNCHANGED vars
  <2>1. UNCHANGED <<server, client, sends, requests, readers, torn, calm>> BY <1>1 DEF vars
  <2>2. InStep BY <2>1 DEF Calm
  <2>3. UNCHANGED <<peers, fetched>> BY <2>1 DEF readers
  <2>4. \A q \in Recipient : \A c \in peers'[q] :
          \E d \in peers[q] \cup UNION {fetched[q][u] : u \in Send} :
            Known(d) /\ c.key = d.key /\ c.gen = d.gen /\ d.key \in {0} \cup Send
    BY <2>2, <2>3, KeysOfSends DEF InStep, Generations
  <2> QED BY <2>1, <2>2, <2>3, <2>4, ReaderInStep
<1>2. ASSUME NEW t \in Send, Begin(t) PROVE InStep'
  BY <1>2, BeginInStep DEF Begin, Calm
<1>3. ASSUME NEW t \in Send, Rotate(t) PROVE InStep'
  <2>1. calm BY <1>3 DEF Rotate
  <2> QED BY <1>3, <2>1, RotateInStep DEF Calm
<1>4. ASSUME NEW t \in Send, UseChain(t) \/ RotateAlone(t) \/ UploadDone(t) \/ Post(t)
      PROVE  InStep'
  <2>1. calm BY <1>4 DEF UseChain, RotateAlone, UploadDone, Post
  <2> QED
    BY <1>4, <2>1, UseChainInStep, RotateAloneInStep, UploadDoneInStep, PostInStep DEF Calm
<1>5. ASSUME NEW t \in Send, CheckUpload(t) \/ CommitUpload(t) PROVE InStep'
  <2>1. calm BY <1>5 DEF CheckUpload, CommitUpload
  <2> QED BY <1>5, <2>1, CheckUploadInStep, CommitUploadInStep DEF Calm
<1>6. ASSUME NEW r \in Recipient, Change(r) PROVE InStep'
  BY <1>6, ChangeInStep DEF Change, Calm
<1>7. ASSUME NEW r \in Recipient, NEW t \in Send, Open(r, t) \/ Fetch(r, t) \/ Fetched(r, t)
      PROVE  InStep'
  <2>1. calm BY <1>7 DEF Open, Fetch, Fetched
  <2> QED BY <1>7, <2>1, OpenInStep, FetchInStep, FetchedInStep DEF Calm
<1>8. CASE \/ \E t \in Send : UploadRefused(t) \/ Fail(t)
           \/ Restart \/ LoseStorage
  BY <1>8 DEF UploadRefused, Fail, Restart, LoseStorage
<1> QED BY <1>1, <1>2, <1>3, <1>4, <1>5, <1>6, <1>7, <1>8 DEF Next

LEMMA CalmInit == Init => Reading /\ Calm
<1> SUFFICES ASSUME Init PROVE Reading /\ InStep BY DEF Calm
<1>1. /\ own.key = 0 /\ torn = FALSE
      /\ \A t \in Send : pc[t] = "new" /\ upload[t] = "none" /\ msg[t].key = 0
      /\ \A r \in Recipient : /\ row[r].key = 0 /\ row[r].gen = 0
                              /\ peers[r] = {} /\ read[r] = {}
                              /\ \A t \in Send : fetched[r][t] = {}
  BY DEF Init, NoChain, NoMessage, NoRow
<1>2. Reading BY <1>1 DEF Reading
<1>3. Uploads BY <1>1 DEF Uploads, Active
<1>4. Generations BY <1>1 DEF Generations, Known
<1> QED BY <1>1, <1>2, <1>3, <1>4 DEF InStep, Active

\* After sends that met no trouble and did not overlap, who is in the roster of
\* a message under the current key can decrypt it, unless it went past it or is
\* MAX_SKIP behind (_send_group_encrypted, upsert_sender_keys,
\* _decrypt_message_if_needed), for any number of users, messages and changes;
\* only the author's namesakes of other servers are never sent a key.
THEOREM CurrentKeyIsReadable == Spec => []CurrentIsReadable
<1> DEFINE All == Inv /\ Others /\ Reading /\ Calm
<1>1. Init => All BY InitInv, OthersInit, CalmInit
<1>2. All /\ [Next]_vars => All' BY NextInv, OthersNext, ReadingNext, CalmNext
<1>3. All => CurrentIsReadable
  <2> SUFFICES ASSUME All, calm, Idle, NEW t \in Sent, NEW r \in Recipient,
                      r \in Addressed(t), msg[t].key = own.key, InOrder(r, t)
               PROVE  Readable(r, t)
    BY DEF CurrentIsReadable
  <2>1. InStep /\ t \in Send /\ t \in Encrypted /\ msg[t].key # 0
    BY DEF Calm, Sent, Encrypted, Reading
  <2>2. Addressed(t) = Addressed(own.key) BY <2>1 DEF InStep, Inv, Same, Addressed
  <2>3. msg[t].gen = own.gen BY <2>1 DEF InStep, Generations, Known
  <2>4. row[r] = [gen |-> msg[t].gen, key |-> msg[t].key]
    BY <2>1, <2>2, <2>3, NoSend
  <2>5. ASSUME NEW c \in peers[r], c.gen = msg[t].gen PROVE Decrypts(c, msg[t])
    <3>1. c.key = msg[t].key BY <2>1, <2>3, <2>5 DEF InStep, Generations, Known, Reading
    <3>2. c.it \in Nat /\ msg[t].n \in Nat /\ MaxSkip \in Nat
      BY <2>1, GroupKeysAssumption DEF Inv, Types, Chain, Message
    <3>3. msg[t].n >= c.it
      <4>1. CASE c.it = 0 BY <3>2, <4>1
      <4>2. ASSUME NEW u \in read[r], msg[u].key = c.key, msg[u].n + 1 = c.it
            PROVE  msg[t].n >= c.it
        <5>1. u \in Send /\ msg[u].n \in Nat BY DEF Others, Inv, Types, Message
        <5>2. msg[u].n < msg[t].n BY <3>1, <4>2 DEF InOrder
        <5> QED BY <3>2, <4>2, <5>1, <5>2
      <4> QED BY <4>1, <4>2 DEF Reading
    <3>4. msg[t].n - c.it <= MaxSkip BY <3>2, <3>3 DEF InOrder
    <3> QED BY <3>1, <3>3, <3>4 DEF Decrypts
  <2> QED BY <2>4, <2>5 DEF Readable
<1> QED BY <1>1, <1>2, <1>3, PTL DEF Spec
=============================================================================
