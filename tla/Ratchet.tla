------------------------------ MODULE Ratchet ------------------------------
(***************************************************************************)
(* A direct chat of two users, each with one client that keeps a double    *)
(* ratchet session for the other and a store of decrypted bodies           *)
(* (client/crypto/ratchet_facade.py, ratchet_session_store.py,             *)
(* message_store.py, and the personal-chat paths of                        *)
(* client/views/room_view.py).                                             *)
(*                                                                         *)
(* Messages reach a client by its WebSocket and by pages of history, so in *)
(* any order and more than once; a body already in the store is not        *)
(* decrypted again.  A message is opened by a task that looks at the store *)
(* first and may then have to wait for the sender's public keys.  Between  *)
(* reading a session and storing it the Python client awaits nothing.      *)
(* A post whose answer does not come is repeated, and then the server may  *)
(* have one sealed message twice, under two ids.  Signatures are taken to  *)
(* be good.                                                                *)
(***************************************************************************)
EXTENDS DoubleRatchet, Integers, FiniteSets

CONSTANTS
  Course,       \* the ways a message comes: a page of history, whose messages
                \* are opened one by one, and the WebSocket
  MaxEntries,   \* _MAX_ENTRIES of the plaintext store
  MaxEvents     \* bound: messages posted, failed posts, repeated posts (one
                \* for a message), bodies that were not stored, restarts and
                \* losses of storage, all together

ASSUME RatchetAssumption ==
  /\ IsFiniteSet(Peer) /\ Cardinality(Peer) = 2
  /\ MaxEvents \in Nat
  /\ MaxEntries \in Nat \ {0}

VARIABLES
  session,   \* session[p]: {s} when p has the session s for the other, else {}
  plain,     \* plain[p]: ids of the messages whose body p has stored, oldest
             \* first
  cached,    \* cached[p]: p has the other's public keys in memory
  task,      \* task[p][c]: id of the message that p has found no body for and
             \* awaits public keys for, 0 for none; it came by c
  posts,     \* posts[p]: the messages of p the server has
  copied,    \* copied[p]: those of them it has a second time
  read,      \* read[p]: the messages p has decrypted so far (history)
  calm,      \* the two did not both start, no storage was lost and no session
             \* changed by a message that was decrypted before (history)
  troubles

client == <<session, plain, cached, task>>
vars == <<client, posts, copied, read, calm, troubles>>

Other(p) == CHOOSE q \in Peer : q # p

\* An event of those MaxEvents counts.
MayHappen == \A p \in Peer : Len(posts[p]) + Len(posts[Other(p)]) + troubles < MaxEvents

Index == 1..MaxEvents
NoTask == [c \in Course |-> 0]
Posted(p) == {i \in Index : i <= Len(posts[Other(p)])}
Msg(p, i) == posts[Other(p)][i]

\* The ids p can be given: i for the other's message i, -i for its second copy.
Id == Index \cup {-i : i \in Index}
Given(p) == Posted(p) \cup {-i : i \in copied[Other(p)]}
MessageOf(e) == IF e < 0 THEN -e ELSE e

\* _generate_dh: a key p has not posted and does not hold.  A key that was
\* neither posted nor kept is in nobody's state, so its name is used again.
Held(p) == {s.dh : s \in session[p]} \cup {posts[p][j].dh : j \in DOMAIN posts[p]}
Fresh(p) == CHOOSE k \in {p} \X (1..(MaxEvents + 2)) : k \notin Held(p)

Stored(p) == {plain[p][j] : j \in DOMAIN plain[p]}

Init ==
  /\ session = [p \in Peer |-> {}]
  /\ plain = [p \in Peer |-> <<>>]
  /\ cached = [p \in Peer |-> FALSE]
  /\ task = [p \in Peer |-> NoTask]
  /\ posts = [p \in Peer |-> <<>>]
  /\ copied = [p \in Peer |-> {}]
  /\ read = [p \in Peer |-> {}]
  /\ calm = TRUE
  /\ troubles = 0
-----------------------------------------------------------------------------
\* The session a message is encrypted with: the stored one, or a new one.
Outgoing(p) ==
  IF session[p] = {} THEN InitAlice(p, Other(p), Fresh(p))
  ELSE CHOOSE s \in session[p] : TRUE

BadEncrypt(p) ==
  session' = [session EXCEPT ![p] = {Outgoing(p)}]

\* encrypt_message: the session is stored before the message is posted.
Encrypt(p) ==
  session' = [session EXCEPT ![p] = {Encrypted(Outgoing(p))}]

\* _send_message in a personal chat.  When the post fails the message is gone,
\* and its place in the chain stays empty.
Send(p) ==
  /\ MayHappen
  /\ Encrypt(p)
  /\ cached' = [cached EXCEPT ![p] = TRUE]
  /\ \/ /\ posts' = [posts EXCEPT ![p] = Append(@, Header(Outgoing(p)))]
        /\ UNCHANGED troubles
     \/ /\ troubles' = troubles + 1
        /\ UNCHANGED posts
  /\ calm' = (calm /\ (session[p] = {} => session[Other(p)] = {}))
  /\ UNCHANGED <<plain, task, copied, read>>

\* The answer to a post is lost, and the client posts the same ciphertext again:
\* the server takes it for another message.
Repost(p) ==
  /\ MayHappen
  /\ \E i \in DOMAIN posts[p] \ copied[p] : copied' = [copied EXCEPT ![p] = @ \cup {i}]
  /\ troubles' = troubles + 1
  /\ UNCHANGED <<client, posts, read, calm>>

\* _decrypt_message_if_needed finds no stored body and no public keys.  One
\* message of the WebSocket at a time stands for many.
Await(p, c, e) ==
  /\ e \in Given(p) \ Stored(p) /\ ~cached[p] /\ task[p][c] = 0
  /\ task' = [task EXCEPT ![p][c] = e]
  /\ UNCHANGED <<session, plain, cached, posts, copied, read, calm, troubles>>

BadPut(p, e) == IF Len(plain[p]) <= MaxEntries THEN Append(plain[p], e) ELSE Append(Tail(plain[p]), e)

\* PlaintextMessageStore.put: the oldest entry makes room for a new one; an
\* entry that is there stays where it is.
Put(p, e) ==
  IF e \in Stored(p) THEN plain[p]
  ELSE IF Len(plain[p]) < MaxEntries THEN Append(plain[p], e)
  ELSE Append(Tail(plain[p]), e)

\* The message is read: the session is stored, then the body, as well as it
\* can be.
Commit(p, e, s) ==
  /\ session' = [session EXCEPT ![p] = {s}]
  /\ read' = [read EXCEPT ![p] = @ \cup {MessageOf(e)}]
  /\ \/ /\ plain' = [plain EXCEPT ![p] = Put(p, e)]
        /\ UNCHANGED troubles
     \/ /\ MayHappen
        /\ troubles' = troubles + 1
        /\ UNCHANGED plain

\* init_bob and _try: the session that begins with message i, if i is the start
\* of one.
Started(p, i) ==
  LET m == Msg(p, i)
      k == Fresh(p)
      b == InitBob(p, Other(p), m.dh, k)
  IN  IF Opens(b, m, k) THEN {Decrypted(b, m, k)} ELSE {}

\* _try with the stored session.
Continued(p, i) ==
  LET m == Msg(p, i)
      k == Fresh(p)
  IN  {Decrypted(s, m, k) : s \in {t \in session[p] : Opens(t, m, k)}}

\* The stored session leads to a key, but not to the right one.
Broken(p, i) ==
  LET k == Fresh(p)
  IN  \E s \in session[p] : Diverges(s, Msg(p, i), k)

BadResult(p, i) == IF session[p] = {} THEN Started(p, i) ELSE Continued(p, i)

\* decrypt_message: {s} when the body is found, with s the session to store.  A
\* broken session is healed by starting again as responder.
Result(p, i) ==
  IF session[p] = {} \/ Broken(p, i) THEN Started(p, i) ELSE Continued(p, i)

\* Without a result a broken session is deleted; any other stays.
Decrypt(p, e) ==
  LET i == MessageOf(e)
      result == Result(p, i)
  IN  \/ \E s \in result : Commit(p, e, s)
      \/ /\ result = {}
         /\ session' = [session EXCEPT ![p] = IF Broken(p, i) THEN {} ELSE @]
         /\ UNCHANGED <<plain, read, troubles>>

\* A task goes on to decrypt: at once when the keys are cached, or when they
\* have come, whatever other tasks have done meanwhile.
Open(p, e) ==
  /\ \/ /\ e \in Given(p) \ Stored(p) /\ cached[p]
        /\ UNCHANGED <<cached, task>>
     \/ \E c \in Course :
          /\ task[p][c] = e
          /\ cached' = [cached EXCEPT ![p] = TRUE]
          /\ task' = [task EXCEPT ![p][c] = 0]
  /\ Decrypt(p, e)
  /\ calm' = (calm /\ (MessageOf(e) \in read[p] => session' = session))
  /\ UNCHANGED <<posts, copied>>

\* The user goes on with a client without stored sessions and bodies: a new
\* device, or a storage that could not be opened.
LoseStorage(p) ==
  /\ MayHappen /\ session[p] # {}
  /\ session' = [session EXCEPT ![p] = {}]
  /\ plain' = [plain EXCEPT ![p] = <<>>]
  /\ cached' = [cached EXCEPT ![p] = FALSE]
  /\ task' = [task EXCEPT ![p] = NoTask]
  /\ calm' = FALSE
  /\ troubles' = troubles + 1
  /\ UNCHANGED <<posts, copied, read>>

\* The client is started again: what is stored stays.
Restart(p) ==
  /\ MayHappen
  /\ cached[p] \/ task[p] # NoTask
  /\ cached' = [cached EXCEPT ![p] = FALSE]
  /\ task' = [task EXCEPT ![p] = NoTask]
  /\ troubles' = troubles + 1
  /\ UNCHANGED <<session, plain, posts, copied, read, calm>>

Next ==
  \E p \in Peer :
    \/ Send(p) \/ Repost(p) \/ LoseStorage(p) \/ Restart(p)
    \/ \E c \in Course, e \in Id : Await(p, c, e)
    \/ \E e \in Id : Open(p, e)

Spec == Init /\ [][Next]_vars
-----------------------------------------------------------------------------
\* decrypt_message would return the body of message i to p.
Readable(p, i) == Result(p, i) # {}

\* Messages p has read no copy of.
Unread(p) == Posted(p) \ read[p]

\* The gaps before the message are within MAX_SKIP.
Near(m) == m.n <= MaxSkip /\ m.pn <= MaxSkip

\* Every variable keeps to its type, and the plaintext store to its size.
TypeOK ==
  /\ \A p \in Peer : Cardinality(session[p]) <= 1 /\ \A s \in session[p] : Session(s)
  /\ \A p \in Peer : Len(plain[p]) <= MaxEntries /\ {MessageOf(e) : e \in Stored(p)} \subseteq read[p]
  /\ cached \in [Peer -> BOOLEAN]
  /\ task \in [Peer -> [Course -> {0} \cup Id]]
  /\ \A p \in Peer : Len(posts[p]) <= MaxEvents /\ copied[p] \subseteq DOMAIN posts[p]
  /\ read \in [Peer -> SUBSET Index]
  /\ calm \in BOOLEAN /\ troubles \in Nat

\* "message keys are burned as the chain advances" (double_ratchet.py): no two
\* messages, of one peer or of both, are ever sealed with the same key, whatever
\* is lost, repeated or healed.
KeysUsedOnce ==
  \A p, q \in Peer : \A i \in DOMAIN posts[p], j \in DOMAIN posts[q] :
    <<p, i>> # <<q, j>> =>
      <<posts[p][i].chain, posts[p][i].n>> # <<posts[q][j].chain, posts[q][j].n>>

\* Skipped keys and PN: as long as one peer started the session, no storage was
\* lost and no session changed by a message decrypted before, every message is
\* readable when it, or the first of its two copies, is first opened, in whatever
\* order messages come and however many are missing.  The other copy is then not
\* readable: its key is consumed.
AnyOrderIsReadable ==
  calm => \A p \in Peer : \A i \in Unread(p) :
    Near(Msg(p, i)) => Readable(p, i)

\* "recovers from [...] peer state loss" (ratchet_facade.py): the messages a peer
\* sends before it has got an answer are readable to the other in every state
\* the other can be in, each unless it was read before.
FirstMessagesAreReadable ==
  \A p \in Peer : \A i \in Unread(p) :
    Len(Msg(p, i).chain) = 2 /\ Near(Msg(p, i)) => Readable(p, i)

\* q has read a message of p's present chain and p has not turned since: what q
\* then sends p can read once, whatever the two went through before.
AnswerIsReadable ==
  \A p \in Peer : \A s \in session[p], t \in session[Other(p)] :
    s.dh = t.remote => \A i \in Unread(p) :
      Msg(p, i).dh = t.dh /\ Near(Msg(p, i)) => Readable(p, i)

\* Whatever was lost, repeated or started twice, two peers get back to reading
\* each other: by the first messages of one, and then by the other's answer.
SessionsHeal == FirstMessagesAreReadable /\ AnswerIsReadable
=============================================================================
