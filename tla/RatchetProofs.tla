--------------------------- MODULE RatchetProofs ---------------------------
(***************************************************************************)
(* Proofs about Ratchet: types, no message key used twice, healing, and    *)
(* reading in any order.                                                   *)
(*                                                                         *)
(* The invariant has three parts, one upon the other.                      *)
(*   TypeInv   every variable keeps to its type, and a task waits for a    *)
(*             message that was posted.                                    *)
(*   ChainInv  what is posted under one ratchet key is of one chain, with  *)
(*             one PN and each index once; a chain is a first one, from    *)
(*             the shared secret, or its last two results of               *)
(*             Diffie-Hellman show whose it is (Later); a session is at    *)
(*             the sending chain of its ratchet key, ahead of all that is  *)
(*             posted, its receiving chain is the one of the ratchet key   *)
(*             it has from the other, the keys it keeps are of posted      *)
(*             chains, and what it has gone past it has read or kept.      *)
(*   CalmInv   while the chat is calm one of the two has seen the other's  *)
(*             present ratchet key, and all of the earlier chains is read  *)
(*             or kept for.                                                *)
(* KeysUsedOnce and SessionsHeal follow from the first two, in every state *)
(* two peers can get to; AnyOrderIsReadable needs the third.               *)
(***************************************************************************)
EXTENDS Ratchet, FiniteSetTheorems, SequenceTheorems, TLAPS

\* Sessions and headers.
Slots == Key \X Nat
Kept  == UNION {[D -> Root] : D \in SUBSET Slots}
SessRec == [root : Root, dh : Key, remote : Key, ckSend : Root, ckRecv : Root,
            ns : Nat, nr : Nat, pn : Nat, skipped : Kept]
HeaderRec == [dh : Key, pn : Nat, n : Nat, chain : Root]

\* The headers of p's messages, the ratchet keys p may make, and a box with one session or none.
Sent(p) == {posts[p][j] : j \in DOMAIN posts[p]}
Mine(p) == {p} \X (Nat \ {0})
One(S)  == S = {} \/ \E s \in SessRec : S = {s}

StoredRead(p) == \A e \in Stored(p) : MessageOf(e) \in read[p]

Typed ==
    /\ session \in [Peer -> SUBSET SessRec] /\ \A p \in Peer : One(session[p])
    /\ plain \in [Peer -> Seq(Id)]
    /\ \A p \in Peer : Len(plain[p]) <= MaxEntries /\ StoredRead(p)
    /\ cached \in [Peer -> BOOLEAN]
    /\ task \in [Peer -> [Course -> {0} \cup Id]]
    /\ posts \in [Peer -> Seq(HeaderRec)]
    /\ copied \in [Peer -> SUBSET Index]
    /\ read \in [Peer -> SUBSET Index]
    /\ calm \in BOOLEAN /\ troubles \in Nat
Bounded ==
    /\ \A p \in Peer : Len(posts[p]) + Len(posts[Other(p)]) <= MaxEvents
    /\ \A p \in Peer, c \in Course : task[p][c] # 0 => task[p][c] \in Given(p)
    /\ \A p \in Peer : copied[p] \subseteq DOMAIN posts[p]
TypeInv == Typed /\ Bounded

-----------------------------------------------------------------------------
(* The double ratchet.                                                      *)

LEMMA KeptFacts ==
    /\ <<>> \in Kept /\ DOMAIN <<>> = {}
    /\ \A f \in Kept : DOMAIN f \subseteq Slots /\ \A e \in DOMAIN f : f[e] \in Root
    /\ \A D \in SUBSET Slots : \A f \in [D -> Root] : f \in Kept
<1>1. DOMAIN <<>> = {} OBVIOUS
<1>2. <<>> \in [{} -> Root] BY <1>1
<1>3. <<>> \in Kept BY <1>2 DEF Kept
<1>4. ASSUME NEW f \in Kept PROVE DOMAIN f \subseteq Slots /\ \A e \in DOMAIN f : f[e] \in Root
  <2>1. PICK D \in SUBSET Slots : f \in [D -> Root] BY DEF Kept
  <2> QED BY <2>1
<1>5. ASSUME NEW D \in SUBSET Slots, NEW f \in [D -> Root] PROVE f \in Kept BY DEF Kept
<1> QED BY <1>1, <1>3, <1>4, <1>5

LEMMA SkipToFields ==
    ASSUME NEW s \in SessRec, NEW until \in Nat
    PROVE  LET u == SkipTo(s, until)
               new == {<<s.remote, i>> : i \in s.nr..(until - 1)}
           IN  /\ u \in SessRec
               /\ u.root = s.root /\ u.dh = s.dh /\ u.remote = s.remote /\ u.ckSend = s.ckSend
               /\ u.ckRecv = s.ckRecv /\ u.ns = s.ns /\ u.pn = s.pn
               /\ u.nr = IF until <= s.nr THEN s.nr ELSE until
               /\ DOMAIN u.skipped = DOMAIN s.skipped \cup new
               /\ \A e \in DOMAIN u.skipped :
                     u.skipped[e] = IF e \in new THEN s.ckRecv ELSE s.skipped[e]
<1> DEFINE new == {<<s.remote, i>> : i \in s.nr..(until - 1)}
           kept == [e \in new \cup DOMAIN s.skipped |-> IF e \in new THEN s.ckRecv ELSE s.skipped[e]]
<1>1. s.nr \in Nat /\ s.remote \in Key /\ s.ckRecv \in Root /\ s.skipped \in Kept BY DEF SessRec
<1>2. CASE until <= s.nr
  <2>1. s.nr..(until - 1) = {} BY <1>1, <1>2
  <2>2. new = {} BY <2>1
  <2> QED BY <1>2, <2>2 DEF SkipTo
<1>3. CASE ~(until <= s.nr)
  <2>1. SkipTo(s, until) = [s EXCEPT !.skipped = kept, !.nr = until] BY <1>3 DEF SkipTo
  <2>2. new \subseteq Slots BY <1>1 DEF Slots
  <2>3. DOMAIN s.skipped \subseteq Slots /\ \A e \in DOMAIN s.skipped : s.skipped[e] \in Root
    BY <1>1, KeptFacts
  <2> HIDE DEF new
  <2>4. kept \in [new \cup DOMAIN s.skipped -> Root] BY <1>1, <2>3
  <2>5. kept \in Kept BY <2>2, <2>3, <2>4, KeptFacts
  <2>6. DOMAIN kept = new \cup DOMAIN s.skipped
        /\ \A e \in DOMAIN kept : kept[e] = IF e \in new THEN s.ckRecv ELSE s.skipped[e]
    OBVIOUS
  <2> HIDE DEF kept
  <2> DEFINE u == [s EXCEPT !.skipped = kept, !.nr = until]
  <2>7. u \in SessRec BY <2>5 DEF SessRec
  <2>8. u.root = s.root /\ u.dh = s.dh /\ u.remote = s.remote /\ u.ckSend = s.ckSend
        /\ u.ckRecv = s.ckRecv /\ u.ns = s.ns /\ u.pn = s.pn /\ u.nr = until /\ u.skipped = kept
    BY DEF SessRec
  <2> HIDE DEF u
  <2>9. SkipTo(s, until) = u BY <2>1 DEF u
  <2> QED BY <1>3, <2>6, <2>7, <2>8, <2>9 DEF new
<1> QED BY <1>2, <1>3

LEMMA KdfFacts ==
    ASSUME NEW r \in Root, NEW a \in Key, NEW b \in Key
    PROVE  /\ KdfRk(r, a, b) \in Root /\ KdfRk(r, a, b) # NoChain /\ Len(r) \in Nat
           /\ Len(KdfRk(r, a, b)) = Len(r) + 1
           /\ KdfRk(r, a, b)[Len(r) + 1] = Dh(a, b)
           /\ \A i \in 1..Len(r) : KdfRk(r, a, b)[i] = r[i]
<1>1. Dh(a, b) \in SUBSET Key BY DEF Dh
<1>2. KdfRk(r, a, b) = Append(r, Dh(a, b)) BY DEF KdfRk
<1> HIDE DEF Dh, Key
<1> QED BY <1>1, <1>2 DEF Root, NoChain

LEMMA SecretFacts ==
    ASSUME NEW p \in Peer, NEW q \in Peer
    PROVE  /\ Identity(p) \in Key /\ Identity(q) \in Key
           /\ SharedSecret(p, q) = SharedSecret(q, p)
           /\ SharedSecret(p, q) \in Root /\ Len(SharedSecret(p, q)) = 1
<1>1. Identity(p) \in Key /\ Identity(q) \in Key BY DEF Identity, Key
<1>2. Dh(Identity(p), Identity(q)) = Dh(Identity(q), Identity(p)) BY DEF Dh
<1>3. SharedSecret(p, q) = SharedSecret(q, p) BY <1>2 DEF SharedSecret, KdfRk
<1>4. <<>> \in Root /\ Len(<<>>) = 0 BY DEF Root
<1>5. SharedSecret(p, q) \in Root /\ Len(SharedSecret(p, q)) = 1
  <2>1. /\ KdfRk(<<>>, Identity(p), Identity(q)) \in Root
        /\ Len(KdfRk(<<>>, Identity(p), Identity(q))) = Len(<<>>) + 1
    BY <1>1, <1>4, KdfFacts
  <2> QED BY <1>4, <2>1 DEF SharedSecret
<1> QED BY <1>1, <1>3, <1>5

LEMMA DhFlip == ASSUME NEW a, NEW b PROVE Dh(a, b) = Dh(b, a)
BY DEF Dh

LEMMA AliceFields ==
    ASSUME NEW p \in Peer, NEW q \in Peer, NEW k \in Key
    PROVE  LET s == InitAlice(p, q, k)
               c == KdfRk(SharedSecret(p, q), k, Identity(q))
           IN  /\ s \in SessRec /\ c \in Root
               /\ s.root = c /\ s.dh = k /\ s.remote = Identity(q) /\ s.ckSend = c
               /\ s.ckRecv = NoChain /\ s.ns = 0 /\ s.nr = 0 /\ s.pn = 0
               /\ s.skipped = <<>> /\ DOMAIN s.skipped = {}
<1> DEFINE c == KdfRk(SharedSecret(p, q), k, Identity(q))
<1>1. c \in Root /\ Identity(q) \in Key BY SecretFacts, KdfFacts
<1>2. NoChain \in Root BY DEF NoChain, Root
<1>3. InitAlice(p, q, k) =
        [root |-> c, dh |-> k, remote |-> Identity(q), ckSend |-> c, ckRecv |-> NoChain,
         ns |-> 0, nr |-> 0, pn |-> 0, skipped |-> <<>>]
  BY DEF InitAlice
<1> HIDE DEF c
<1>4. InitAlice(p, q, k) \in SessRec BY <1>1, <1>2, <1>3, KeptFacts DEF SessRec
<1> QED BY <1>1, <1>3, <1>4, KeptFacts DEF c

LEMMA BobFields ==
    ASSUME NEW p \in Peer, NEW q \in Peer, NEW d \in Key, NEW k \in Key
    PROVE  LET s == InitBob(p, q, d, k)
               c == KdfRk(SharedSecret(p, q), Identity(p), d)
           IN  /\ s \in SessRec /\ c \in Root
               /\ s.root = KdfRk(c, k, d) /\ s.dh = k /\ s.remote = d /\ s.ckSend = KdfRk(c, k, d)
               /\ s.ckRecv = c /\ s.ns = 0 /\ s.nr = 0 /\ s.pn = 0
               /\ s.skipped = <<>> /\ DOMAIN s.skipped = {}
<1> DEFINE c == KdfRk(SharedSecret(p, q), Identity(p), d)
           r == KdfRk(c, k, d)
<1>1. c \in Root BY SecretFacts, KdfFacts
<1>2. r \in Root BY <1>1, KdfFacts
<1>3. InitBob(p, q, d, k) =
        [root |-> r, dh |-> k, remote |-> d, ckSend |-> r, ckRecv |-> c,
         ns |-> 0, nr |-> 0, pn |-> 0, skipped |-> <<>>]
  BY DEF InitBob
<1> HIDE DEF c, r
<1>4. InitBob(p, q, d, k) \in SessRec BY <1>1, <1>2, <1>3, KeptFacts DEF SessRec
<1> QED BY <1>1, <1>3, <1>4, KeptFacts DEF c, r

LEMMA TurnFields ==
    ASSUME NEW s \in SessRec, NEW m \in HeaderRec, NEW k \in Key
    PROVE  LET t == Turn(s, m, k)
               recv == KdfRk(s.root, s.dh, m.dh)
           IN  /\ t \in SessRec /\ recv \in Root /\ KdfRk(recv, k, m.dh) \in Root
               /\ t.root = KdfRk(recv, k, m.dh) /\ t.dh = k /\ t.remote = m.dh
               /\ t.ckSend = KdfRk(recv, k, m.dh) /\ t.ckRecv = recv
               /\ t.ns = 0 /\ t.nr = 0 /\ t.pn = s.ns /\ t.skipped = SkipTo(s, m.pn).skipped
<1> DEFINE old == SkipTo(s, m.pn)
           recv == KdfRk(s.root, s.dh, m.dh)
           r == KdfRk(recv, k, m.dh)
<1>1. m.pn \in Nat /\ m.dh \in Key /\ s.root \in Root /\ s.dh \in Key /\ s.ns \in Nat
  BY DEF HeaderRec, SessRec
<1>2. old \in SessRec /\ old.root = s.root /\ old.dh = s.dh /\ old.ns = s.ns
  BY <1>1, SkipToFields
<1>3. recv \in Root BY <1>1, KdfFacts
<1>4. r \in Root BY <1>1, <1>3, KdfFacts
<1>5. Turn(s, m, k) =
        [old EXCEPT !.pn = old.ns, !.ns = 0, !.nr = 0, !.remote = m.dh,
                    !.ckRecv = recv, !.dh = k, !.root = r, !.ckSend = r]
  BY <1>2 DEF Turn
<1> HIDE DEF old, recv, r
<1>6. Turn(s, m, k) =
        [root |-> r, dh |-> k, remote |-> m.dh, ckSend |-> r, ckRecv |-> recv,
         ns |-> 0, nr |-> 0, pn |-> s.ns, skipped |-> old.skipped]
  BY <1>2, <1>5 DEF SessRec
<1>7. old.skipped \in Kept BY <1>2 DEF SessRec
<1>8. Turn(s, m, k) \in SessRec BY <1>1, <1>3, <1>4, <1>6, <1>7 DEF SessRec
<1> QED BY <1>3, <1>4, <1>6, <1>8 DEF old, recv, r

\* The keys that are kept on the way from one index of a chain to another.
New(d, from, to) == {<<d, i>> : i \in from..(to - 1)}

\* What decrypting makes of a session: with a key that was kept, with one of the present
\* receiving chain, and with one of a new chain.
TookKept(s, m, t) ==
    /\ t.root = s.root /\ t.dh = s.dh /\ t.remote = s.remote /\ t.ckSend = s.ckSend
    /\ t.ckRecv = s.ckRecv /\ t.ns = s.ns /\ t.pn = s.pn /\ t.nr = s.nr
    /\ DOMAIN t.skipped = DOMAIN s.skipped \ {Slot(m)}
    /\ \A e \in DOMAIN t.skipped : t.skipped[e] = s.skipped[e]

Advanced(s, m, t) ==
    /\ t.root = s.root /\ t.dh = s.dh /\ t.remote = s.remote /\ t.ckSend = s.ckSend
    /\ t.ckRecv = s.ckRecv /\ t.ns = s.ns /\ t.pn = s.pn /\ t.nr = m.n + 1
    /\ DOMAIN t.skipped = DOMAIN s.skipped \cup New(s.remote, s.nr, m.n)
    /\ \A e \in DOMAIN t.skipped :
          t.skipped[e] = IF e \in New(s.remote, s.nr, m.n) THEN s.ckRecv ELSE s.skipped[e]

TurnedTo(s, m, k, t) ==
    /\ t.ckRecv = KdfRk(s.root, s.dh, m.dh) /\ t.root = KdfRk(t.ckRecv, k, m.dh)
    /\ t.ckSend = t.root /\ t.dh = k /\ t.remote = m.dh /\ t.ns = 0 /\ t.pn = s.ns /\ t.nr = m.n + 1
    /\ DOMAIN t.skipped =
          (DOMAIN s.skipped \cup New(s.remote, s.nr, m.pn)) \cup New(m.dh, 0, m.n)
    /\ \A e \in DOMAIN t.skipped :
          t.skipped[e] = IF e \in New(m.dh, 0, m.n) THEN t.ckRecv
                         ELSE IF e \in New(s.remote, s.nr, m.pn) THEN s.ckRecv
                         ELSE s.skipped[e]

LEMMA Read1 ==
    ASSUME NEW s \in SessRec, NEW m \in HeaderRec, NEW k \in Key, IsKept(s, m)
    PROVE  Decrypted(s, m, k) \in SessRec /\ TookKept(s, m, Decrypted(s, m, k))
<1> DEFINE f == [e \in DOMAIN s.skipped \ {Slot(m)} |-> s.skipped[e]]
<1>1. s.skipped \in Kept BY DEF SessRec
<1>2. DOMAIN s.skipped \subseteq Slots /\ \A e \in DOMAIN s.skipped : s.skipped[e] \in Root
  BY <1>1, KeptFacts
<1>3. f \in [DOMAIN s.skipped \ {Slot(m)} -> Root] BY <1>2
<1>4. f \in Kept BY <1>2, <1>3, KeptFacts
<1>5. DOMAIN f = DOMAIN s.skipped \ {Slot(m)} /\ \A e \in DOMAIN f : f[e] = s.skipped[e] OBVIOUS
<1>6. Decrypted(s, m, k) = [s EXCEPT !.skipped = f] BY DEF Decrypted
<1> HIDE DEF f
<1>7. [s EXCEPT !.skipped = f] \in SessRec BY <1>4 DEF SessRec
<1> QED BY <1>5, <1>6, <1>7 DEF TookKept, SessRec

\* The end of ratchet_decrypt, from the session that is at the message's chain.
LEMMA Read2 ==
    ASSUME NEW u \in SessRec, NEW n \in Nat, n >= u.nr
    PROVE  LET t == [SkipTo(u, n) EXCEPT !.nr = n + 1]
           IN  /\ t \in SessRec
               /\ t.root = u.root /\ t.dh = u.dh /\ t.remote = u.remote /\ t.ckSend = u.ckSend
               /\ t.ckRecv = u.ckRecv /\ t.ns = u.ns /\ t.pn = u.pn /\ t.nr = n + 1
               /\ DOMAIN t.skipped = DOMAIN u.skipped \cup New(u.remote, u.nr, n)
               /\ \A e \in DOMAIN t.skipped :
                     t.skipped[e] = IF e \in New(u.remote, u.nr, n) THEN u.ckRecv ELSE u.skipped[e]
<1> DEFINE v == SkipTo(u, n)
<1>1. /\ v \in SessRec
      /\ v.root = u.root /\ v.dh = u.dh /\ v.remote = u.remote /\ v.ckSend = u.ckSend
      /\ v.ckRecv = u.ckRecv /\ v.ns = u.ns /\ v.pn = u.pn
      /\ DOMAIN v.skipped = DOMAIN u.skipped \cup New(u.remote, u.nr, n)
      /\ \A e \in DOMAIN v.skipped :
            v.skipped[e] = IF e \in New(u.remote, u.nr, n) THEN u.ckRecv ELSE u.skipped[e]
  BY SkipToFields DEF New
<1> HIDE DEF v
<1>2. [v EXCEPT !.nr = n + 1] \in SessRec BY <1>1 DEF SessRec
<1>3. LET t == [v EXCEPT !.nr = n + 1]
      IN  /\ t.root = v.root /\ t.dh = v.dh /\ t.remote = v.remote /\ t.ckSend = v.ckSend
          /\ t.ckRecv = v.ckRecv /\ t.ns = v.ns /\ t.pn = v.pn /\ t.nr = n + 1
          /\ t.skipped = v.skipped
  BY <1>1 DEF SessRec
<1>4. [SkipTo(u, n) EXCEPT !.nr = n + 1] = [v EXCEPT !.nr = n + 1] BY DEF v
<1> DEFINE t == [v EXCEPT !.nr = n + 1]
<1> HIDE DEF t
<1>5. t \in SessRec /\ t.root = v.root /\ t.dh = v.dh /\ t.remote = v.remote /\ t.ckSend = v.ckSend
      /\ t.ckRecv = v.ckRecv /\ t.ns = v.ns /\ t.pn = v.pn /\ t.nr = n + 1
      /\ t.skipped = v.skipped
  BY <1>2, <1>3 DEF t
<1>6. [SkipTo(u, n) EXCEPT !.nr = n + 1] = t BY <1>4 DEF t
<1> QED BY <1>1, <1>5, <1>6

LEMMA Read3 ==
    ASSUME NEW s \in SessRec, NEW m \in HeaderRec, NEW k \in Key, ~IsKept(s, m),
           Derives(s, m, k), m.dh = s.remote
    PROVE  /\ Decrypted(s, m, k) \in SessRec /\ Advanced(s, m, Decrypted(s, m, k))
           /\ m.n >= s.nr /\ s.ckRecv # NoChain
<1>1. Turned(s, m, k) = s BY DEF Turned
<1>2. m.n >= s.nr /\ m.n \in Nat /\ s.ckRecv # NoChain BY <1>1 DEF Derives, HeaderRec
<1>3. Decrypted(s, m, k) = [SkipTo(s, m.n) EXCEPT !.nr = m.n + 1] BY <1>1 DEF Decrypted
<1> QED BY <1>2, <1>3, Read2 DEF Advanced

LEMMA Read4 ==
    ASSUME NEW s \in SessRec, NEW m \in HeaderRec, NEW k \in Key, ~IsKept(s, m), m.dh # s.remote
    PROVE  /\ Decrypted(s, m, k) \in SessRec /\ TurnedTo(s, m, k, Decrypted(s, m, k))
<1> DEFINE u == Turn(s, m, k)
           recv == KdfRk(s.root, s.dh, m.dh)
<1>1. Turned(s, m, k) = u BY DEF Turned
<1>2. /\ u \in SessRec /\ recv \in Root
      /\ u.root = KdfRk(recv, k, m.dh) /\ u.dh = k /\ u.remote = m.dh
      /\ u.ckSend = KdfRk(recv, k, m.dh) /\ u.ckRecv = recv
      /\ u.ns = 0 /\ u.nr = 0 /\ u.pn = s.ns /\ u.skipped = SkipTo(s, m.pn).skipped
  BY TurnFields
<1>3. Decrypted(s, m, k) = [SkipTo(u, m.n) EXCEPT !.nr = m.n + 1] BY <1>1 DEF Decrypted
<1>4. m.n \in Nat /\ m.n >= u.nr /\ m.pn \in Nat BY <1>2 DEF HeaderRec
<1>5. LET v == SkipTo(s, m.pn)
      IN  /\ DOMAIN v.skipped = DOMAIN s.skipped \cup New(s.remote, s.nr, m.pn)
          /\ \A e \in DOMAIN v.skipped :
                v.skipped[e] = IF e \in New(s.remote, s.nr, m.pn) THEN s.ckRecv ELSE s.skipped[e]
  BY <1>4, SkipToFields DEF New
<1> HIDE DEF u, recv
<1> DEFINE t == Decrypted(s, m, k)
<1>6. /\ t \in SessRec
      /\ t.root = u.root /\ t.dh = u.dh /\ t.remote = u.remote /\ t.ckSend = u.ckSend
      /\ t.ckRecv = u.ckRecv /\ t.ns = u.ns /\ t.pn = u.pn /\ t.nr = m.n + 1
      /\ DOMAIN t.skipped = DOMAIN u.skipped \cup New(u.remote, u.nr, m.n)
      /\ \A e \in DOMAIN t.skipped :
            t.skipped[e] = IF e \in New(u.remote, u.nr, m.n) THEN u.ckRecv ELSE u.skipped[e]
  BY <1>2, <1>3, <1>4, Read2
<1> HIDE DEF t
<1>7. TurnedTo(s, m, k, t)
  BY <1>2, <1>5, <1>6 DEF TurnedTo, recv
<1> QED BY <1>6, <1>7 DEF t

-----------------------------------------------------------------------------
(* The two peers, their keys and their messages.                            *)

LEMMA OtherFacts ==
    ASSUME NEW p \in Peer
    PROVE  /\ Other(p) \in Peer /\ Other(p) # p /\ Other(Other(p)) = p
           /\ \A x \in Peer : x = p \/ x = Other(p)
<1>1. Cardinality(Peer) = 2 BY RatchetAssumption DEF RatchetAssumption
<1>2. IsFiniteSet(Peer) BY RatchetAssumption DEF RatchetAssumption
<1>3. IsFiniteSet(Peer \ {p}) /\ Cardinality(Peer \ {p}) = 1 BY <1>1, <1>2, FS_RemoveElement
<1>4. PICK q : Peer \ {p} = {q} BY <1>3, FS_Singleton
<1>5. q \in Peer /\ q # p /\ \A x \in Peer : x = p \/ x = q BY <1>4
<1>6. Other(p) = q BY <1>5 DEF Other
<1>7. Other(q) = p BY <1>5 DEF Other
<1> QED BY <1>5, <1>6, <1>7

LEMMA MineFacts ==
    ASSUME NEW p \in Peer
    PROVE  /\ \A k \in Mine(p) : k \in Key /\ k # Identity(p) /\ k # Identity(Other(p))
           /\ \A k \in Mine(p), h \in Mine(Other(p)) : k # h
           /\ Identity(p) \in Key /\ Identity(Other(p)) \in Key
           /\ Identity(p) # Identity(Other(p))
<1>1. Other(p) \in Peer /\ Other(p) # p BY OtherFacts
<1> QED BY <1>1 DEF Mine, Key, Identity

LEMMA FreshFacts ==
    ASSUME TypeInv, NEW p \in Peer
    PROVE  /\ Fresh(p) \in Mine(p) /\ Fresh(p) \in Key
           /\ \A s \in session[p] : s.dh # Fresh(p)
           /\ \A x \in Sent(p) : x.dh # Fresh(p)
<1> DEFINE N == MaxEvents + 2
           K == {p} \X (1..N)
           A == {s.dh : s \in session[p]}
           B == {posts[p][j].dh : j \in DOMAIN posts[p]}
<1>1. MaxEvents \in Nat BY RatchetAssumption DEF RatchetAssumption
<1>2. posts[p] \in Seq(HeaderRec) /\ Len(posts[p]) <= MaxEvents
  <2>1. posts[p] \in Seq(HeaderRec) /\ posts[Other(p)] \in Seq(HeaderRec)
    BY OtherFacts DEF TypeInv, Typed
  <2>2. Len(posts[p]) + Len(posts[Other(p)]) <= MaxEvents BY DEF TypeInv, Bounded
  <2>3. Len(posts[p]) \in Nat /\ Len(posts[Other(p)]) \in Nat BY <2>1
  <2> DEFINE a == Len(posts[p])
             b == Len(posts[Other(p)])
  <2>4. a + b <= MaxEvents /\ a \in Nat /\ b \in Nat BY <2>2, <2>3
  <2> HIDE DEF a, b
  <2>5. a <= MaxEvents BY <1>1, <2>4
  <2> QED BY <2>1, <2>5 DEF a
<1>3. IsFiniteSet(A) /\ Cardinality(A) <= 1 /\ Cardinality(A) \in Nat
  <2>1. One(session[p]) BY DEF TypeInv, Typed
  <2>2. CASE session[p] = {}
    <3>1. A = {} BY <2>2
    <3>2. IsFiniteSet(A) /\ Cardinality(A) = 0 BY <3>1, FS_EmptySet
    <3> QED BY <3>2
  <2>3. ASSUME NEW s, session[p] = {s} PROVE IsFiniteSet(A) /\ Cardinality(A) = 1
    <3>1. A = {s.dh} BY <2>3
    <3> QED BY <3>1, FS_Singleton
  <2> QED BY <2>1, <2>2, <2>3 DEF One
<1>4. IsFiniteSet(B) /\ Cardinality(B) <= Len(posts[p]) /\ Cardinality(B) \in Nat
  <2> DEFINE n == Len(posts[p])
             f == [j \in 1..n |-> posts[p][j].dh]
  <2>1. n \in Nat /\ DOMAIN posts[p] = 1..n BY <1>2
  <2>2. IsFiniteSet(1..n) /\ Cardinality(1..n) = n BY <2>1, FS_Interval
  <2>3. f \in Surjection(1..n, B)
    <3>1. f \in [1..n -> B] BY <2>1
    <3>2. \A y \in B : \E i \in 1..n : f[i] = y BY <2>1
    <3> QED BY <3>1, <3>2 DEF Surjection
  <2> HIDE DEF n, f, B
  <2>4. IsFiniteSet(B) /\ Cardinality(B) <= Cardinality(1..n) BY <2>2, <2>3, FS_Surjection
  <2>5. IsFiniteSet(B) /\ Cardinality(B) <= n BY <2>2, <2>4
  <2> QED BY <2>5, FS_CardinalityType DEF n
<1>5. IsFiniteSet(K) /\ Cardinality(K) = N
  <2> DEFINE f == [i \in 1..N |-> <<p, i>>]
  <2>1. IsFiniteSet(1..N) /\ Cardinality(1..N) = N BY <1>1, FS_Interval
  <2>2. f \in Bijection(1..N, K)
    <3>1. f \in [1..N -> K] OBVIOUS
    <3>2. \A i, j \in 1..N : f[i] = f[j] => i = j OBVIOUS
    <3>3. \A y \in K : \E i \in 1..N : f[i] = y OBVIOUS
    <3> QED BY <3>1, <3>2, <3>3 DEF Bijection, Injection, Surjection, IsInjective
  <2>3. ExistsBijection(1..N, K) BY <2>2 DEF ExistsBijection
  <2> QED BY <2>1, <2>3, FS_Bijection
<1>6. Held(p) = A \cup B BY DEF Held
<1> HIDE DEF A, B, K, N
<1>7. IsFiniteSet(A \cup B) /\ Cardinality(A \cup B) <= 1 + Len(posts[p])
  <2>1. IsFiniteSet(A \cup B)
        /\ Cardinality(A \cup B) = Cardinality(A) + Cardinality(B) - Cardinality(A \cap B)
    BY <1>3, <1>4, FS_Union
  <2>2. IsFiniteSet(A \cap B) BY <1>3, FS_Intersection
  <2>3. Cardinality(A \cap B) \in Nat BY <2>2, FS_CardinalityType
  <2> QED BY <1>2, <1>3, <1>4, <2>1, <2>3
<1>8. \E k \in K : k \notin Held(p)
  <2> SUFFICES ASSUME K \subseteq A \cup B PROVE FALSE BY <1>6
  <2>1. Cardinality(K) <= Cardinality(A \cup B) BY <1>7, FS_Subset
  <2>2. Cardinality(A \cup B) \in Nat BY <1>7, FS_CardinalityType
  <2> QED BY <1>1, <1>2, <1>5, <1>7, <2>1, <2>2 DEF N
<1>9. Fresh(p) \in K /\ Fresh(p) \notin Held(p) BY <1>8 DEF Fresh, K, N
<1>10. Fresh(p) \in Mine(p) BY <1>1, <1>9 DEF K, N, Mine
<1> QED BY <1>6, <1>9, <1>10, MineFacts DEF A, B, Sent

LEMMA PostedFacts ==
    ASSUME TypeInv, NEW p \in Peer
    PROVE  /\ Posted(p) = DOMAIN posts[Other(p)] /\ Posted(p) \subseteq Index
           /\ \A i \in Posted(p) : Msg(p, i) \in HeaderRec /\ Msg(p, i) \in Sent(Other(p))
           /\ Sent(p) \subseteq HeaderRec
           /\ \A x \in Sent(Other(p)) : \E i \in Posted(p) : x = Msg(p, i)
<1> DEFINE q == Other(p)
<1>1. q \in Peer /\ Other(q) = p BY OtherFacts
<1>2. posts[p] \in Seq(HeaderRec) /\ posts[q] \in Seq(HeaderRec) BY <1>1 DEF TypeInv, Typed
<1>3. Len(posts[q]) + Len(posts[p]) <= MaxEvents BY <1>1 DEF TypeInv, Bounded
<1>4. Len(posts[p]) \in Nat /\ Len(posts[q]) \in Nat /\ MaxEvents \in Nat
  BY <1>2, RatchetAssumption DEF RatchetAssumption
<1>5. Posted(p) = 1..Len(posts[q])
  <2> DEFINE a == Len(posts[q])
             b == Len(posts[p])
  <2>1. Posted(p) = {i \in 1..MaxEvents : i <= a} BY DEF Posted, Index
  <2>2. a + b <= MaxEvents /\ a \in Nat /\ b \in Nat BY <1>3, <1>4
  <2> HIDE DEF a, b
  <2>3. {i \in 1..MaxEvents : i <= a} = 1..a BY <1>4, <2>2
  <2> QED BY <2>1, <2>3 DEF a
<1>6. DOMAIN posts[q] = 1..Len(posts[q]) BY <1>2
<1>7. \A i \in 1..Len(posts[q]) : posts[q][i] \in HeaderRec BY <1>2
<1>8. Sent(p) \subseteq HeaderRec BY <1>2 DEF Sent
<1> QED BY <1>5, <1>6, <1>7, <1>8 DEF Posted, Msg, Sent

LEMMA OutgoingFacts ==
    ASSUME TypeInv, NEW p \in Peer
    PROVE  /\ Outgoing(p) \in SessRec
           /\ session[p] = {} => Outgoing(p) = InitAlice(p, Other(p), Fresh(p))
           /\ \A s \in session[p] : session[p] = {s} /\ Outgoing(p) = s /\ s \in SessRec
<1>1. One(session[p]) BY DEF TypeInv, Typed
<1>2. CASE session[p] = {}
  <2>1. Outgoing(p) = InitAlice(p, Other(p), Fresh(p)) BY <1>2 DEF Outgoing
  <2>2. Outgoing(p) \in SessRec BY <2>1, OtherFacts, FreshFacts, AliceFields
  <2> QED BY <1>2, <2>1, <2>2
<1>3. ASSUME NEW s \in SessRec, session[p] = {s}
      PROVE  Outgoing(p) = s /\ session[p] # {}
  BY <1>3 DEF Outgoing
<1> QED BY <1>1, <1>2, <1>3 DEF One

LEMMA EncryptedFacts ==
    ASSUME NEW s \in SessRec
    PROVE  LET t == Encrypted(s)
               m == Header(s)
           IN  /\ t \in SessRec
               /\ t.root = s.root /\ t.dh = s.dh /\ t.remote = s.remote /\ t.ckSend = s.ckSend
               /\ t.ckRecv = s.ckRecv /\ t.ns = s.ns + 1 /\ t.nr = s.nr /\ t.pn = s.pn
               /\ t.skipped = s.skipped
               /\ m \in HeaderRec
               /\ m.dh = s.dh /\ m.pn = s.pn /\ m.n = s.ns /\ m.chain = s.ckSend
<1>1. s.ns \in Nat /\ s.ns + 1 \in Nat BY DEF SessRec
<1>2. Encrypted(s) = [s EXCEPT !.ns = s.ns + 1] BY DEF Encrypted
<1>3. Encrypted(s) \in SessRec BY <1>1, <1>2 DEF SessRec
<1>4. Header(s) \in HeaderRec BY DEF SessRec, HeaderRec, Header
<1> QED BY <1>2, <1>3, <1>4 DEF SessRec, Header

\* A session that answers a first message.
StartedAt(p, m, k, t) ==
    /\ m.chain = KdfRk(SharedSecret(p, Other(p)), Identity(p), m.dh)
    /\ t.dh = k /\ t.remote = m.dh /\ t.ckRecv = m.chain
    /\ t.root = KdfRk(m.chain, k, m.dh) /\ t.ckSend = t.root
    /\ t.ns = 0 /\ t.pn = 0 /\ t.nr = m.n + 1
    /\ DOMAIN t.skipped = New(m.dh, 0, m.n)
    /\ \A e \in DOMAIN t.skipped : t.skipped[e] = m.chain

\* A session s that was there, and t after one more message of it.
ReadOn(s, m, k, t) ==
    \/ IsKept(s, m) /\ TookKept(s, m, t) /\ s.skipped[Slot(m)] = m.chain
    \/ /\ ~IsKept(s, m) /\ m.dh = s.remote /\ Advanced(s, m, t)
       /\ s.ckRecv = m.chain /\ m.n >= s.nr
    \/ /\ ~IsKept(s, m) /\ m.dh # s.remote /\ TurnedTo(s, m, k, t)
       /\ t.ckRecv = m.chain /\ CanSkip(s, m.pn)

LEMMA StartedFacts ==
    ASSUME TypeInv, NEW p \in Peer, NEW i \in Posted(p), NEW t \in Started(p, i)
    PROVE  t \in SessRec /\ StartedAt(p, Msg(p, i), Fresh(p), t)
<1> DEFINE m == Msg(p, i)
           k == Fresh(p)
           b == InitBob(p, Other(p), m.dh, k)
           c == KdfRk(SharedSecret(p, Other(p)), Identity(p), m.dh)
<1>1. m \in HeaderRec /\ k \in Key BY PostedFacts, FreshFacts
<1>2. m.dh \in Key /\ m.n \in Nat /\ Other(p) \in Peer BY <1>1, OtherFacts DEF HeaderRec
<1>3. t = Decrypted(b, m, k) /\ Derives(b, m, k) /\ Derived(b, m, k) = m.chain
  BY DEF Started, Opens
<1>4. /\ b \in SessRec /\ c \in Root
      /\ b.root = KdfRk(c, k, m.dh) /\ b.dh = k /\ b.remote = m.dh /\ b.ckSend = KdfRk(c, k, m.dh)
      /\ b.ckRecv = c /\ b.ns = 0 /\ b.nr = 0 /\ b.pn = 0
      /\ b.skipped = <<>> /\ DOMAIN b.skipped = {}
  BY <1>1, <1>2, BobFields
<1> HIDE DEF m, k, b
<1>5. ~IsKept(b, m) BY <1>4 DEF IsKept
<1>6. b.ckRecv = m.chain BY <1>3, <1>4, <1>5 DEF Derived, Turned
<1>7. t \in SessRec /\ Advanced(b, m, t) BY <1>1, <1>3, <1>4, <1>5, Read3
<1>8. StartedAt(p, m, k, t)
  <2> HIDE DEF c
  <2>1. c = m.chain BY <1>4, <1>6
  <2>2. m.chain = KdfRk(SharedSecret(p, Other(p)), Identity(p), m.dh) BY <2>1 DEF c
  <2>3. DOMAIN t.skipped = New(m.dh, 0, m.n) /\ \A e \in DOMAIN t.skipped : t.skipped[e] = m.chain
    BY <1>4, <1>6, <1>7 DEF Advanced
  <2> QED BY <1>4, <1>7, <2>1, <2>2, <2>3 DEF StartedAt, Advanced
<1> QED BY <1>7, <1>8 DEF m, k

LEMMA ContinuedFacts ==
    ASSUME TypeInv, NEW p \in Peer, NEW i \in Posted(p), NEW t \in Continued(p, i)
    PROVE  t \in SessRec /\ \E s \in session[p] : ReadOn(s, Msg(p, i), Fresh(p), t)
<1> DEFINE m == Msg(p, i)
           k == Fresh(p)
<1>1. m \in HeaderRec /\ k \in Key BY PostedFacts, FreshFacts
<1>2. PICK s \in session[p] : Opens(s, m, k) /\ t = Decrypted(s, m, k) BY DEF Continued
<1>3. s \in SessRec BY OutgoingFacts
<1> HIDE DEF m, k
<1>4. Derives(s, m, k) /\ Derived(s, m, k) = m.chain BY <1>2 DEF Opens
<1>5. CASE IsKept(s, m)
  <2>1. t \in SessRec /\ TookKept(s, m, t) BY <1>1, <1>2, <1>3, <1>5, Read1
  <2> QED BY <1>2, <1>4, <1>5, <2>1 DEF Derived, ReadOn, m, k
<1>6. CASE ~IsKept(s, m) /\ m.dh = s.remote
  <2>1. t \in SessRec /\ Advanced(s, m, t) /\ m.n >= s.nr BY <1>1, <1>2, <1>3, <1>4, <1>6, Read3
  <2>2. s.ckRecv = m.chain BY <1>4, <1>6 DEF Derived, Turned
  <2> QED BY <1>2, <1>6, <2>1, <2>2 DEF ReadOn, m, k
<1>7. CASE ~IsKept(s, m) /\ m.dh # s.remote
  <2>1. t \in SessRec /\ TurnedTo(s, m, k, t) BY <1>1, <1>2, <1>3, <1>7, Read4
  <2>2. Derived(s, m, k) = Turn(s, m, k).ckRecv BY <1>7 DEF Derived, Turned
  <2>3. Turn(s, m, k).ckRecv = KdfRk(s.root, s.dh, m.dh) BY <1>1, <1>3, TurnFields
  <2>4. t.ckRecv = m.chain BY <1>4, <2>1, <2>2, <2>3 DEF TurnedTo
  <2>5. CanSkip(s, m.pn) BY <1>4, <1>7 DEF Derives
  <2> QED BY <1>2, <1>7, <2>1, <2>4, <2>5 DEF ReadOn, m, k
<1> QED BY <1>5, <1>6, <1>7

LEMMA ResultFacts ==
    ASSUME TypeInv, NEW p \in Peer, NEW i \in Posted(p), NEW t \in Result(p, i)
    PROVE  /\ t \in SessRec
           /\ \/ /\ session[p] = {} \/ Broken(p, i)
                 /\ StartedAt(p, Msg(p, i), Fresh(p), t)
              \/ \E s \in session[p] : ReadOn(s, Msg(p, i), Fresh(p), t)
<1>1. CASE session[p] = {} \/ Broken(p, i)
  <2>1. t \in Started(p, i) BY <1>1 DEF Result
  <2> QED BY <1>1, <2>1, StartedFacts
<1>2. CASE ~(session[p] = {} \/ Broken(p, i))
  <2>1. t \in Continued(p, i) BY <1>2 DEF Result
  <2> QED BY <2>1, ContinuedFacts
<1> QED BY <1>1, <1>2

-----------------------------------------------------------------------------
(* Types.                                                                   *)

\* An id is of a message, and a message that can be given was posted.
LEMMA IdFacts ==
    ASSUME NEW e \in Id
    PROVE  MessageOf(e) \in Index /\ e # 0
<1>1. MaxEvents \in Nat BY RatchetAssumption DEF RatchetAssumption
<1>2. CASE e \in Index BY <1>1, <1>2 DEF Index, MessageOf
<1>3. ASSUME NEW i \in Index, e = -i PROVE MessageOf(e) \in Index /\ e # 0
  <2>1. i \in Int /\ i > 0 BY <1>1 DEF Index
  <2>2. e < 0 /\ -e = i BY <1>3, <2>1
  <2> QED BY <2>1, <2>2 DEF MessageOf
<1> QED BY <1>2, <1>3 DEF Id

LEMMA GivenFacts ==
    ASSUME TypeInv, NEW p \in Peer, NEW e \in Given(p)
    PROVE  e \in Id /\ MessageOf(e) \in Posted(p)
<1>1. MaxEvents \in Nat /\ Other(p) \in Peer
  BY RatchetAssumption, OtherFacts DEF RatchetAssumption
<1>2. Posted(p) = DOMAIN posts[Other(p)] /\ Posted(p) \subseteq Index BY PostedFacts
<1>3. copied[Other(p)] \subseteq Posted(p) BY <1>1, <1>2 DEF TypeInv, Bounded
<1>4. CASE e \in Posted(p)
  <2>1. e \in Index BY <1>2, <1>4
  <2>2. ~(e < 0) BY <1>1, <2>1 DEF Index
  <2> QED BY <1>4, <2>1, <2>2 DEF Id, MessageOf
<1>5. ASSUME NEW i \in copied[Other(p)], e = -i PROVE e \in Id /\ MessageOf(e) \in Posted(p)
  <2>1. i \in Index /\ i \in Posted(p) BY <1>2, <1>3, <1>5
  <2>2. i \in Int /\ i > 0 BY <1>1, <2>1 DEF Index
  <2>3. e < 0 /\ -e = i BY <1>5, <2>2
  <2>4. e \in Id BY <1>5, <2>1 DEF Id
  <2> QED BY <2>1, <2>3, <2>4 DEF MessageOf
<1> QED BY <1>4, <1>5 DEF Given

LEMMA PutFacts ==
    ASSUME TypeInv, NEW p \in Peer, NEW e \in Id
    PROVE  LET f == Put(p, e)
           IN  /\ f \in Seq(Id) /\ Len(f) <= MaxEntries
               /\ \A j \in DOMAIN f : f[j] \in Stored(p) \cup {e}
<1> DEFINE f == plain[p]
<1>1. f \in Seq(Id) /\ Len(f) <= MaxEntries /\ MaxEntries \in Nat /\ MaxEntries # 0
  BY RatchetAssumption DEF TypeInv, Typed, RatchetAssumption
<1>2. \A j \in DOMAIN f : f[j] \in Stored(p) BY DEF Stored
<1>3. CASE e \in Stored(p) BY <1>1, <1>2, <1>3 DEF Put
<1>4. CASE e \notin Stored(p) /\ Len(f) < MaxEntries
  <2> DEFINE g == Append(f, e)
  <2>1. Put(p, e) = g BY <1>4 DEF Put
  <2> HIDE DEF f, Id
  <2>2. g \in Seq(Id) /\ Len(g) = Len(f) + 1 /\ Len(f) \in Nat BY <1>1
  <2>3. \A j \in DOMAIN g : g[j] \in Stored(p) \cup {e}
    <3> TAKE j \in DOMAIN g
    <3>1. CASE j \in DOMAIN f BY <1>1, <1>2, <3>1
    <3>2. CASE j \notin DOMAIN f BY <1>1, <3>2
    <3> QED BY <3>1, <3>2
  <2>4. Len(g) <= MaxEntries BY <1>1, <1>4, <2>2
  <2> QED BY <2>1, <2>2, <2>3, <2>4
<1>5. CASE e \notin Stored(p) /\ ~(Len(f) < MaxEntries)
  <2> DEFINE h == Tail(f)
             g == Append(h, e)
  <2>1. Put(p, e) = g BY <1>5 DEF Put
  <2> HIDE DEF f, Id
  <2>2. Len(f) = MaxEntries /\ f # <<>> BY <1>1, <1>5
  <2>3. h \in Seq(Id) /\ Len(h) = Len(f) - 1 /\ \A j \in DOMAIN h : h[j] = f[j + 1] /\ j + 1 \in DOMAIN f
    BY <1>1, <2>2
  <2> HIDE DEF h
  <2>4. g \in Seq(Id) /\ Len(g) = Len(h) + 1 /\ Len(h) \in Nat BY <2>3
  <2>5. \A j \in DOMAIN g : g[j] \in Stored(p) \cup {e}
    <3> TAKE j \in DOMAIN g
    <3>1. CASE j \in DOMAIN h BY <1>2, <2>3, <3>1
    <3>2. CASE j \notin DOMAIN h BY <2>3, <3>2
    <3> QED BY <3>1, <3>2
  <2>6. Len(g) <= MaxEntries BY <1>1, <2>2, <2>3, <2>4
  <2> QED BY <2>1, <2>4, <2>5, <2>6
<1> QED BY <1>3, <1>4, <1>5

\* Sending: the session is stored, and the header is posted or not.
LEMMA SendFacts ==
    ASSUME TypeInv, NEW p \in Peer, Send(p)
    PROVE  LET s == Outgoing(p)
           IN  /\ session' = [session EXCEPT ![p] = {Encrypted(s)}]
               /\ \/ posts' = posts
                  \/ posts' = [posts EXCEPT ![p] = Append(@, Header(s))]
               /\ calm' = (calm /\ (session[p] = {} => session[Other(p)] = {}))
               /\ read' = read
BY DEF Send, Encrypt

\* Opening: the message was posted, and is read, or it leaves the session as it
\* was, or a broken session is deleted.
LEMMA OpenFacts ==
    ASSUME TypeInv, NEW p \in Peer, NEW e \in Id, Open(p, e),
           NEW i, i = MessageOf(e)
    PROVE  /\ i \in Posted(p) /\ posts' = posts /\ copied' = copied
           /\ calm' = (calm /\ (i \in read[p] => session' = session))
           /\ \/ \E t \in Result(p, i) :
                    /\ session' = [session EXCEPT ![p] = {t}]
                    /\ read' = [read EXCEPT ![p] = @ \cup {i}]
              \/ /\ Result(p, i) = {} /\ Broken(p, i)
                 /\ session' = [session EXCEPT ![p] = {}] /\ read' = read
              \/ session' = session /\ read' = read
<1>1. e \in Given(p)
  <2>1. CASE e \in Given(p) \ Stored(p) BY <2>1
  <2>2. ASSUME NEW c \in Course, task[p][c] = e PROVE e \in Given(p)
    <3>1. e # 0 BY IdFacts
    <3> QED BY <2>2, <3>1 DEF TypeInv, Bounded
  <2> QED BY <2>1, <2>2 DEF Open
<1>2. i \in Posted(p) BY <1>1, GivenFacts
<1>3. /\ posts' = posts /\ copied' = copied /\ Decrypt(p, e)
      /\ calm' = (calm /\ (i \in read[p] => session' = session))
  BY DEF Open
<1>4. CASE \E t \in Result(p, i) : Commit(p, e, t) BY <1>2, <1>3, <1>4 DEF Commit
<1>5. CASE Result(p, i) = {} /\ session' = [session EXCEPT ![p] = IF Broken(p, i) THEN {} ELSE @]
           /\ read' = read
  <2>1. session \in [Peer -> SUBSET SessRec] BY DEF TypeInv, Typed
  <2>2. CASE Broken(p, i) BY <1>2, <1>3, <1>5, <2>2
  <2>3. CASE ~Broken(p, i) BY <1>2, <1>3, <1>5, <2>1, <2>3
  <2> QED BY <2>2, <2>3
<1> QED BY <1>3, <1>4, <1>5 DEF Decrypt

\* The parts of the type invariant that the two actions on the session disturb.
Boxes == session \in [Peer -> SUBSET SessRec] /\ \A p \in Peer : One(session[p])

LEMMA BoxFacts ==
    ASSUME TypeInv, NEW p \in Peer, NEW S \in SUBSET SessRec, One(S),
           session' = [session EXCEPT ![p] = S]
    PROVE  Boxes'
<1>1. session \in [Peer -> SUBSET SessRec] /\ \A x \in Peer : One(session[x]) BY DEF TypeInv, Typed
<1>2. session' \in [Peer -> SUBSET SessRec] BY <1>1
<1>3. \A x \in Peer : session'[x] = IF x = p THEN S ELSE session[x] BY <1>1
<1> QED BY <1>1, <1>2, <1>3 DEF Boxes

LEMMA SendTypes ==
    ASSUME TypeInv, NEW p \in Peer, Send(p)
    PROVE  TypeInv'
<1> DEFINE s == Outgoing(p)
           t == Encrypted(s)
           m == Header(s)
<1>1. s \in SessRec /\ t \in SessRec /\ m \in HeaderRec BY OutgoingFacts, EncryptedFacts
<1>2. /\ MayHappen /\ session' = [session EXCEPT ![p] = {t}]
      /\ cached' = [cached EXCEPT ![p] = TRUE]
      /\ UNCHANGED <<plain, task, copied, read>>
      /\ calm' = (calm /\ (session[p] = {} => session[Other(p)] = {}))
  BY DEF Send, Encrypt
<1>3. \/ posts' = [posts EXCEPT ![p] = Append(@, m)] /\ troubles' = troubles
      \/ troubles' = troubles + 1 /\ posts' = posts
  BY DEF Send
<1> HIDE DEF s, t, m
<1>4. Boxes'
  <2>1. {t} \in SUBSET SessRec /\ One({t}) BY <1>1 DEF One
  <2> QED BY <1>2, <2>1, BoxFacts
<1>5. posts' \in [Peer -> Seq(HeaderRec)] /\ troubles' \in Nat
  <2>1. posts \in [Peer -> Seq(HeaderRec)] /\ troubles \in Nat BY DEF TypeInv, Typed
  <2>2. Append(posts[p], m) \in Seq(HeaderRec) BY <1>1, <2>1
  <2>3. posts' = posts \/ posts' = [posts EXCEPT ![p] = Append(posts[p], m)] BY <1>3
  <2>4. posts' \in [Peer -> Seq(HeaderRec)] BY <2>1, <2>2, <2>3, Zenon
  <2>5. troubles' \in Nat BY <1>3, <2>1
  <2> QED BY <2>4, <2>5
<1>6. cached' \in [Peer -> BOOLEAN] BY <1>2 DEF TypeInv, Typed
<1>7. calm' \in BOOLEAN BY <1>2 DEF TypeInv, Typed
<1>8. Typed'
  <2>1. \A x \in Peer : StoredRead(x)' = StoredRead(x) BY <1>2 DEF Stored, StoredRead
  <2>2. /\ plain' \in [Peer -> Seq(Id)]
        /\ \A x \in Peer : Len(plain'[x]) <= MaxEntries /\ StoredRead(x)'
        /\ task' \in [Peer -> [Course -> {0} \cup Id]]
        /\ copied' \in [Peer -> SUBSET Index] /\ read' \in [Peer -> SUBSET Index]
    BY <1>2, <2>1 DEF TypeInv, Typed
  <2> QED BY <1>4, <1>5, <1>6, <1>7, <2>2 DEF Typed, Boxes
<1>9. Bounded'
  <2>1. posts \in [Peer -> Seq(HeaderRec)] BY DEF TypeInv, Typed
  <2>2. \A x \in Peer : Len(posts[x]) \in Nat BY <2>1
  <2>3. \A x \in Peer : Len(posts[x]) <= Len(posts'[x])
           /\ Len(posts'[x]) <= IF x = p THEN Len(posts[x]) + 1 ELSE Len(posts[x])
    <3> TAKE x \in Peer
    <3>1. Len(Append(posts[p], m)) = Len(posts[p]) + 1 BY <1>1, <2>1
    <3>2. CASE posts' = posts BY <2>2, <3>2
    <3>3. CASE posts' = [posts EXCEPT ![p] = Append(@, m)] /\ x = p
      <4>1. posts'[x] = Append(posts[p], m) BY <2>1, <3>3
      <4> QED BY <2>2, <3>1, <3>3, <4>1
    <3>4. CASE posts' = [posts EXCEPT ![p] = Append(@, m)] /\ x # p
      <4>1. posts'[x] = posts[x] BY <2>1, <3>4
      <4> QED BY <2>2, <3>4, <4>1
    <3> QED BY <1>3, <3>2, <3>3, <3>4
  <2>4. \A x \in Peer : Len(posts'[x]) \in Nat BY <1>5
  <2>5. \A x \in Peer : Len(posts'[x]) + Len(posts'[Other(x)]) <= MaxEvents
    <3> TAKE x \in Peer
    <3>1. Other(x) \in Peer /\ Other(x) # x BY OtherFacts
    <3>2. Len(posts[x]) + Len(posts[Other(x)]) + troubles < MaxEvents BY <1>2 DEF MayHappen
    <3>3. troubles \in Nat /\ MaxEvents \in Nat
      BY RatchetAssumption DEF TypeInv, Typed, RatchetAssumption
    <3> DEFINE a == Len(posts[x])
               b == Len(posts[Other(x)])
               c == Len(posts'[x])
               d == Len(posts'[Other(x)])
    <3>4. a \in Nat /\ b \in Nat /\ c \in Nat /\ d \in Nat BY <2>2, <2>4, <3>1
    <3>5. c + d <= a + b + 1
      <4>1. c <= a + 1 /\ d <= b + 1 /\ (c <= a \/ d <= b)
        <5>1. c <= (IF x = p THEN a + 1 ELSE a) BY <2>3
        <5>2. d <= (IF Other(x) = p THEN b + 1 ELSE b) BY <2>3, <3>1
        <5> HIDE DEF a, b, c, d
        <5> QED BY <3>1, <3>4, <5>1, <5>2
      <4> HIDE DEF a, b, c, d
      <4> QED BY <3>4, <4>1
    <3>6. a + b + troubles < MaxEvents BY <3>2
    <3> HIDE DEF a, b, c, d
    <3>7. c + d <= MaxEvents BY <3>3, <3>4, <3>5, <3>6
    <3> QED BY <3>7 DEF c, d
  <2>6. \A x \in Peer : Posted(x) \subseteq Posted(x)'
    <3> TAKE x \in Peer
    <3>1. Len(posts[Other(x)]) <= Len(posts'[Other(x)]) /\ Len(posts[Other(x)]) \in Nat
          /\ Len(posts'[Other(x)]) \in Nat
      BY <2>2, <2>3, <2>4, OtherFacts
    <3> DEFINE a == Len(posts[Other(x)])
               b == Len(posts'[Other(x)])
    <3>2. a <= b /\ a \in Nat /\ b \in Nat BY <3>1
    <3>3. Posted(x) = {i \in Index : i <= a} /\ Posted(x)' = {i \in Index : i <= b}
      BY DEF Posted
    <3> HIDE DEF a, b
    <3>4. Index \subseteq Int BY DEF Index
    <3>5. \A i \in Index : i <= a => i <= b BY <3>2, <3>4
    <3> QED BY <3>3, <3>5
  <2>7. \A x \in Peer : Given(x) \subseteq Given(x)' BY <1>2, <2>6 DEF Given
  <2>8. \A x \in Peer : DOMAIN posts[x] \subseteq DOMAIN posts'[x]
    <3>1. \A x \in Peer : Other(x) \in Peer /\ Other(Other(x)) = x BY OtherFacts
    <3>2. \A x \in Peer : posts[x] \in Seq(HeaderRec) /\ posts'[x] \in Seq(HeaderRec) BY <1>5, <2>1
    <3>3. ASSUME NEW x \in Peer PROVE DOMAIN posts[x] \subseteq DOMAIN posts'[x]
      <4> DEFINE f == posts[x]
                 g == posts'[x]
      <4>1. f \in Seq(HeaderRec) /\ g \in Seq(HeaderRec) /\ Len(f) <= Len(g) BY <2>3, <3>2
      <4> HIDE DEF f, g
      <4>2. DOMAIN f = 1..Len(f) /\ DOMAIN g = 1..Len(g) /\ Len(f) \in Nat /\ Len(g) \in Nat BY <4>1
      <4>3. DOMAIN f \subseteq DOMAIN g BY <4>1, <4>2
      <4> QED BY <4>3 DEF f, g
    <3> QED BY <3>3
  <2> QED BY <1>2, <2>5, <2>7, <2>8 DEF TypeInv, Bounded
<1> QED BY <1>8, <1>9 DEF TypeInv

\* A post that the server has twice.
LEMMA RepostTypes ==
    ASSUME TypeInv, NEW p \in Peer, Repost(p)
    PROVE  TypeInv'
<1>1. PICK i \in DOMAIN posts[p] : copied' = [copied EXCEPT ![p] = @ \cup {i}] BY DEF Repost
<1>2. UNCHANGED <<session, plain, cached, task, posts, read, calm>> /\ troubles' = troubles + 1
  BY DEF Repost, client
<1>3. copied \in [Peer -> SUBSET Index] /\ Other(p) \in Peer /\ Other(Other(p)) = p
  BY OtherFacts DEF TypeInv, Typed
<1>4. Posted(Other(p)) = DOMAIN posts[p] /\ Posted(Other(p)) \subseteq Index BY <1>3, PostedFacts
<1>5. copied' \in [Peer -> SUBSET Index] BY <1>1, <1>3, <1>4
<1>6. \A x \in Peer : copied'[x] = IF x = p THEN copied[p] \cup {i} ELSE copied[x] BY <1>1, <1>3
<1>7. troubles' \in Nat BY <1>2 DEF TypeInv, Typed
<1>8. Typed' BY <1>2, <1>5, <1>7 DEF TypeInv, Typed, Stored, StoredRead
<1>9. Bounded'
  <2>1. \A x \in Peer : Other(x) \in Peer BY OtherFacts
  <2>2. \A x \in Peer : Posted(x)' = Posted(x) BY <1>2 DEF Posted
  <2>3. \A x \in Peer : copied[x] \subseteq copied'[x] BY <1>6
  <2>4. \A x \in Peer : Given(x) \subseteq Given(x)' BY <2>1, <2>2, <2>3 DEF Given
  <2>5. \A x \in Peer : copied'[x] \subseteq DOMAIN posts[x] BY <1>6 DEF TypeInv, Bounded
  <2> QED BY <1>2, <2>4, <2>5 DEF TypeInv, Bounded
<1> QED BY <1>8, <1>9 DEF TypeInv

LEMMA OpenTypes ==
    ASSUME TypeInv, NEW p \in Peer, NEW e \in Id, Open(p, e)
    PROVE  TypeInv'
<1> PICK i : i = MessageOf(e) OBVIOUS
<1>1. /\ i \in Posted(p) /\ posts' = posts /\ copied' = copied
      /\ calm' = (calm /\ (i \in read[p] => session' = session))
      /\ \/ \E t \in Result(p, i) : session' = [session EXCEPT ![p] = {t}]
         \/ session' = [session EXCEPT ![p] = {}]
         \/ session' = session
  BY OpenFacts
<1>2. Boxes'
  <2>1. ASSUME NEW t \in Result(p, i), session' = [session EXCEPT ![p] = {t}] PROVE Boxes'
    <3>1. t \in SessRec BY <1>1, ResultFacts
    <3>2. {t} \in SUBSET SessRec /\ One({t}) BY <3>1 DEF One
    <3> QED BY <2>1, <3>2, BoxFacts
  <2>2. CASE session' = [session EXCEPT ![p] = {}]
    <3>1. {} \in SUBSET SessRec /\ One({}) BY DEF One
    <3> QED BY <2>2, <3>1, BoxFacts
  <2>3. CASE session' = session BY <2>3 DEF TypeInv, Typed, Boxes
  <2> QED BY <1>1, <2>1, <2>2, <2>3
<1>3. \/ /\ read' = [read EXCEPT ![p] = @ \cup {i}]
         /\ \/ plain' = [plain EXCEPT ![p] = Put(p, e)] /\ troubles' = troubles
            \/ plain' = plain /\ troubles' = troubles + 1
      \/ UNCHANGED <<plain, read, troubles>>
  BY DEF Open, Decrypt, Commit
<1>4. plain \in [Peer -> Seq(Id)] /\ read \in [Peer -> SUBSET Index] /\ troubles \in Nat
      /\ \A x \in Peer : Len(plain[x]) <= MaxEntries /\ StoredRead(x)
  BY DEF TypeInv, Typed
<1>5. Put(p, e) \in Seq(Id) /\ Len(Put(p, e)) <= MaxEntries
      /\ \A j \in DOMAIN Put(p, e) : Put(p, e)[j] \in Stored(p) \cup {e}
  BY PutFacts
<1>6. plain' \in [Peer -> Seq(Id)] /\ read' \in [Peer -> SUBSET Index] /\ troubles' \in Nat
  <2>1. plain' = plain \/ plain' = [plain EXCEPT ![p] = Put(p, e)] BY <1>3
  <2>2. plain' \in [Peer -> Seq(Id)] BY <1>4, <1>5, <2>1, Zenon
  <2>3. read' = read \/ read' = [read EXCEPT ![p] = @ \cup {i}] BY <1>3
  <2>4. read' \in [Peer -> SUBSET Index]
    <3>1. i \in Index BY IdFacts
    <3> QED BY <1>4, <2>3, <3>1
  <2>5. troubles' \in Nat BY <1>3, <1>4
  <2> QED BY <2>2, <2>4, <2>5
<1>7. \A x \in Peer : Len(plain'[x]) <= MaxEntries /\ StoredRead(x)'
  <2> TAKE x \in Peer
  <2>1. read[x] \subseteq read'[x] BY <1>3, <1>4
  <2>2. CASE plain'[x] = plain[x] BY <1>4, <2>1, <2>2 DEF Stored, StoredRead
  <2>3. CASE x = p /\ plain'[x] = Put(p, e) /\ read' = [read EXCEPT ![p] = @ \cup {i}]
    <3>1. i \in read'[p] BY <1>4, <2>3
    <3>2. Stored(x)' \subseteq Stored(p) \cup {e} BY <1>5, <2>3 DEF Stored
    <3>3. \A d \in Stored(p) : MessageOf(d) \in read[p] BY <1>4 DEF StoredRead
    <3>4. StoredRead(x)' BY <2>1, <2>3, <3>1, <3>2, <3>3 DEF StoredRead
    <3> QED BY <1>5, <2>3, <3>4
  <2> QED BY <1>3, <1>4, <2>2, <2>3
<1>8. cached' \in [Peer -> BOOLEAN] /\ task' \in [Peer -> [Course -> {0} \cup Id]]
  <2>1. cached \in [Peer -> BOOLEAN] /\ task \in [Peer -> [Course -> {0} \cup Id]]
    BY DEF TypeInv, Typed
  <2>2. \/ UNCHANGED <<cached, task>>
        \/ \E c \in Course : /\ cached' = [cached EXCEPT ![p] = TRUE]
                             /\ task' = [task EXCEPT ![p][c] = 0]
    BY DEF Open
  <2>3. cached' = cached \/ cached' = [cached EXCEPT ![p] = TRUE] BY <2>2
  <2>4. cached' \in [Peer -> BOOLEAN] BY <2>1, <2>3, Zenon
  <2>5. task' = task \/ \E c \in Course : task' = [task EXCEPT ![p][c] = 0] BY <2>2
  <2>6. task' \in [Peer -> [Course -> {0} \cup Id]]
    <3> DEFINE T == {0} \cup Id
    <3>1. 0 \in T OBVIOUS
    <3> HIDE DEF T
    <3> QED BY <2>1, <2>5, <3>1 DEF T
  <2> QED BY <2>4, <2>6
<1>9. Typed'
  BY <1>1, <1>2, <1>6, <1>7, <1>8 DEF TypeInv, Typed, Boxes
<1>10. Bounded'
  <2>1. \A x \in Peer, c \in Course : task'[x][c] = task[x][c] \/ task'[x][c] = 0
    <3>1. task \in [Peer -> [Course -> {0} \cup Id]] BY DEF TypeInv, Typed
    <3>2. task' = task \/ \E c \in Course : task' = [task EXCEPT ![p][c] = 0] BY DEF Open
    <3> QED BY <3>1, <3>2
  <2> QED BY <1>1, <2>1 DEF TypeInv, Bounded, Posted, Given
<1> QED BY <1>9, <1>10 DEF TypeInv

LEMMA AwaitTypes ==
    ASSUME TypeInv, NEW p \in Peer, NEW c \in Course, NEW e \in Id, Await(p, c, e)
    PROVE  TypeInv'
<1>1. task' = [task EXCEPT ![p][c] = e] /\ e \in Given(p)
      /\ UNCHANGED <<session, plain, cached, posts, copied, read, calm, troubles>>
  BY DEF Await
<1>2. task \in [Peer -> [Course -> {0} \cup Id]] BY DEF TypeInv, Typed
<1>3. task' \in [Peer -> [Course -> {0} \cup Id]] BY <1>1, <1>2
<1>4. \A x \in Peer, d \in Course :
         task'[x][d] = IF x = p /\ d = c THEN e ELSE task[x][d]
  BY <1>1, <1>2
<1>5. Typed' BY <1>1, <1>3 DEF TypeInv, Typed, Stored, StoredRead
<1>6. Bounded'
  <2>1. \A x \in Peer : Given(x)' = Given(x) BY <1>1 DEF Given, Posted
  <2>2. \A x \in Peer, d \in Course : task'[x][d] # 0 => task'[x][d] \in Given(x)
    BY <1>1, <1>4 DEF TypeInv, Bounded
  <2> QED BY <1>1, <2>1, <2>2 DEF TypeInv, Bounded
<1> QED BY <1>5, <1>6 DEF TypeInv

\* A client that is started again, with or without its storage.
LEMMA StartTypes ==
    ASSUME TypeInv, NEW p \in Peer, LoseStorage(p) \/ Restart(p)
    PROVE  TypeInv'
<1>1. \/ /\ session' = [session EXCEPT ![p] = {}] /\ plain' = [plain EXCEPT ![p] = <<>>]
         /\ calm' = FALSE
      \/ session' = session /\ plain' = plain /\ calm' = calm
  BY Zenon DEF LoseStorage, Restart
<1>2. /\ cached' = [cached EXCEPT ![p] = FALSE] /\ task' = [task EXCEPT ![p] = NoTask]
      /\ troubles' = troubles + 1 /\ posts' = posts /\ copied' = copied /\ read' = read
  BY Zenon DEF LoseStorage, Restart
<1>3. Boxes'
  <2>1. {} \in SUBSET SessRec /\ One({}) BY DEF One
  <2>2. CASE session' = [session EXCEPT ![p] = {}] BY <2>1, <2>2, BoxFacts
  <2>3. CASE session' = session BY <2>3 DEF TypeInv, Typed, Boxes
  <2> QED BY <1>1, <2>2, <2>3
<1>4. plain \in [Peer -> Seq(Id)] /\ MaxEntries \in Nat
      /\ \A x \in Peer : Len(plain[x]) <= MaxEntries /\ StoredRead(x)
  BY RatchetAssumption DEF TypeInv, Typed, RatchetAssumption
<1>5. plain' \in [Peer -> Seq(Id)]
      /\ \A x \in Peer : Len(plain'[x]) <= MaxEntries /\ StoredRead(x)'
  <2>1. CASE plain' = plain BY <1>2, <1>4, <2>1 DEF Stored, StoredRead
  <2>2. CASE plain' = [plain EXCEPT ![p] = <<>>]
    <3>1. plain' \in [Peer -> Seq(Id)] BY <1>4, <2>2
    <3>2. \A x \in Peer : plain'[x] = IF x = p THEN <<>> ELSE plain[x] BY <1>4, <2>2
    <3>3. Len(<<>>) = 0 /\ 0 <= MaxEntries /\ DOMAIN <<>> = {} BY <1>4
    <3>4. \A x \in Peer : Len(plain'[x]) <= MaxEntries BY <1>4, <3>2, <3>3
    <3>5. \A x \in Peer : Stored(x)' \subseteq Stored(x) BY <3>2, <3>3 DEF Stored
    <3>6. \A x \in Peer : StoredRead(x)' BY <1>2, <1>4, <3>5 DEF StoredRead
    <3> QED BY <3>1, <3>4, <3>6
  <2> QED BY <1>1, <2>1, <2>2
<1>6. cached' \in [Peer -> BOOLEAN] /\ task' \in [Peer -> [Course -> {0} \cup Id]]
      /\ \A x \in Peer : task'[x] = IF x = p THEN NoTask ELSE task[x]
  <2>1. cached \in [Peer -> BOOLEAN] /\ task \in [Peer -> [Course -> {0} \cup Id]]
    BY DEF TypeInv, Typed
  <2>2. NoTask \in [Course -> {0} \cup Id] BY DEF NoTask
  <2> QED BY <1>2, <2>1, <2>2
<1>7. troubles' \in Nat BY <1>2 DEF TypeInv, Typed
<1>8. Typed'
  BY <1>1, <1>2, <1>3, <1>5, <1>6, <1>7 DEF TypeInv, Typed, Boxes
<1>9. Bounded'
  <2>1. \A x \in Peer, c \in Course : task'[x][c] # 0 => task'[x][c] = task[x][c]
    BY <1>6 DEF NoTask
  <2> QED BY <1>2, <2>1 DEF TypeInv, Bounded, Posted, Given
<1> QED BY <1>8, <1>9 DEF TypeInv

LEMMA TypeStep ==
    ASSUME TypeInv, [Next]_vars
    PROVE  TypeInv'
<1>1. CASE UNCHANGED vars
  BY <1>1 DEF vars, client, TypeInv, Typed, Bounded, Stored, StoredRead, Posted, Given
<1>2. CASE Next
  BY <1>2, SendTypes, RepostTypes, OpenTypes, AwaitTypes, StartTypes DEF Next
<1> QED BY <1>1, <1>2

LEMMA TypeInit == ASSUME Init PROVE TypeInv
<1>1. MaxEvents \in Nat /\ MaxEntries \in Nat BY RatchetAssumption DEF RatchetAssumption
<1>2. <<>> \in Seq(Id) /\ <<>> \in Seq(HeaderRec) /\ Len(<<>>) = 0 /\ DOMAIN <<>> = {} OBVIOUS
<1>3. \A x \in Peer : session[x] = {} /\ plain[x] = <<>> /\ task[x] = NoTask /\ posts[x] = <<>>
  BY DEF Init
<1>4. NoTask \in [Course -> {0} \cup Id] BY DEF NoTask
<1>5. Typed
  <2>1. session \in [Peer -> SUBSET SessRec] BY DEF Init
  <2>2. \A x \in Peer : One(session[x]) BY <1>3 DEF One
  <2>3. plain \in [Peer -> Seq(Id)] /\ posts \in [Peer -> Seq(HeaderRec)] BY <1>2 DEF Init
  <2>4. \A x \in Peer : Len(plain[x]) <= MaxEntries /\ StoredRead(x)
    <3>1. \A x \in Peer : Stored(x) = {} BY <1>2, <1>3 DEF Stored
    <3>2. 0 <= MaxEntries BY <1>1
    <3> QED BY <1>2, <1>3, <3>1, <3>2 DEF StoredRead
  <2>5. cached \in [Peer -> BOOLEAN] /\ read \in [Peer -> SUBSET Index] /\ calm \in BOOLEAN
        /\ copied \in [Peer -> SUBSET Index]
        /\ troubles \in Nat
    BY DEF Init
  <2>6. task \in [Peer -> [Course -> {0} \cup Id]] BY <1>4 DEF Init
  <2> QED BY <2>1, <2>2, <2>3, <2>4, <2>5, <2>6 DEF Typed
<1>6. Bounded
  <2>1. \A x \in Peer : Len(posts[x]) + Len(posts[Other(x)]) <= MaxEvents
    <3>1. 0 + 0 <= MaxEvents BY <1>1
    <3> QED BY <1>2, <1>3, <3>1, OtherFacts
  <2>2. \A x \in Peer, c \in Course : task[x][c] = 0 BY <1>3 DEF NoTask
  <2>3. \A x \in Peer : copied[x] = {} BY DEF Init
  <2> QED BY <2>1, <2>2, <2>3 DEF Bounded
<1> QED BY <1>5, <1>6 DEF TypeInv

\* Every variable keeps to its type: a peer has at most one session with the other, and the
\* plaintext store never outgrows _MAX_ENTRIES (client/crypto/message_store.py).
THEOREM RatchetTypes == Spec => []TypeOK
<1>1. Init => TypeInv BY TypeInit
<1>2. TypeInv /\ [Next]_vars => TypeInv' BY TypeStep
<1>3. TypeInv => TypeOK
  <2> SUFFICES ASSUME TypeInv PROVE TypeOK OBVIOUS
  <2>1. \A p \in Peer : Cardinality(session[p]) <= 1
    <3> TAKE p \in Peer
    <3>1. One(session[p]) BY DEF TypeInv, Typed
    <3>2. Cardinality({}) = 0 BY FS_EmptySet
    <3>3. \A s : Cardinality({s}) = 1 BY FS_Singleton
    <3>4. CASE session[p] = {} BY <3>2, <3>4
    <3>5. CASE \E s : session[p] = {s} BY <3>3, <3>5
    <3> QED BY <3>1, <3>4, <3>5 DEF One
  <2>2. ASSUME NEW s \in SessRec PROVE Session(s)
    <3>1. s.skipped \in Kept BY DEF SessRec
    <3>2. DOMAIN s.skipped \subseteq Slots /\ \A e \in DOMAIN s.skipped : s.skipped[e] \in Root
      BY <3>1, KeptFacts
    <3>3. DOMAIN s = {"root", "dh", "remote", "ckSend", "ckRecv", "ns", "nr", "pn", "skipped"}
      BY DEF SessRec
    <3>4. {s.root, s.ckSend, s.ckRecv} \subseteq Root /\ {s.dh, s.remote} \subseteq Key
          /\ {s.ns, s.nr, s.pn} \subseteq Nat
      BY DEF SessRec
    <3> QED BY <3>2, <3>3, <3>4 DEF Session, Slots
  <2>3. \A p \in Peer : \A s \in session[p] : Session(s)
    BY <2>2 DEF TypeInv, Typed
  <2>4. \A p \in Peer : Len(posts[p]) <= MaxEvents
    <3> TAKE p \in Peer
    <3>1. posts[p] \in Seq(HeaderRec) /\ posts[Other(p)] \in Seq(HeaderRec)
      BY OtherFacts DEF TypeInv, Typed
    <3>2. Len(posts[p]) + Len(posts[Other(p)]) <= MaxEvents BY DEF TypeInv, Bounded
    <3> DEFINE a == Len(posts[p])
               b == Len(posts[Other(p)])
    <3>3. a + b <= MaxEvents BY <3>2
    <3>6. a \in Nat /\ b \in Nat BY <3>1
    <3>4. MaxEvents \in Nat BY RatchetAssumption DEF RatchetAssumption
    <3> HIDE DEF a, b
    <3>5. a <= MaxEvents BY <3>3, <3>4, <3>6
    <3> QED BY <3>5 DEF a
  <2>5. \A p \in Peer : {MessageOf(e) : e \in Stored(p)} \subseteq read[p]
    BY DEF TypeInv, Typed, StoredRead
  <2>6. \A p \in Peer : copied[p] \subseteq DOMAIN posts[p] BY DEF TypeInv, Bounded
  <2> QED BY <2>1, <2>3, <2>4, <2>5, <2>6 DEF TypeInv, Typed, TypeOK
<1> QED BY <1>1, <1>2, <1>3, PTL DEF Spec

-----------------------------------------------------------------------------
(* Chains.                                                                  *)

\* The chain p begins with, under the ratchet key k, and one it comes to by a turn.
First(p, k) == KdfRk(SharedSecret(p, Other(p)), k, Identity(Other(p)))
Later(p, k, c) ==
    /\ c \in Root /\ Len(c) >= 3
    /\ \E y \in {p} \X Nat, h \in Mine(Other(p)) :
          y # k /\ c[Len(c) - 1] = Dh(y, h) /\ c[Len(c)] = Dh(k, h)

\* What p has posted.
Formed(p) ==
    \A x \in Sent(p) :
       x.dh \in Mine(p) /\ ((x.chain = First(p, x.dh) /\ x.pn = 0) \/ Later(p, x.dh, x.chain))
Apart(p) ==
    \A i, j \in DOMAIN posts[p] :
       posts[p][i].dh = posts[p][j].dh =>
          /\ posts[p][i].chain = posts[p][j].chain /\ posts[p][i].pn = posts[p][j].pn
          /\ posts[p][i].n = posts[p][j].n => i = j

\* A session nobody has answered, and one that has heard from the other.
Begun(p, s) ==
    /\ s.remote = Identity(Other(p)) /\ s.ckRecv = NoChain
    /\ s.nr = 0 /\ s.pn = 0 /\ s.ckSend = First(p, s.dh)
Answering(p, s) ==
    /\ s.ckSend = KdfRk(s.ckRecv, s.dh, s.remote) /\ Later(p, s.dh, s.ckSend)
    /\ Len(s.ckRecv) = 2 => s.pn = 0
    /\ \E x \in Sent(Other(p)) : x.dh = s.remote /\ x.chain = s.ckRecv /\ s.nr <= x.n + 1
Chained(p, s) == s.dh \in Mine(p) /\ s.root = s.ckSend /\ (Begun(p, s) \/ Answering(p, s))
\* All that p has posted on the present sending chain is before the next message.
Ahead(p, s) ==
    \A x \in Sent(p) : x.dh = s.dh => x.chain = s.ckSend /\ x.pn = s.pn /\ x.n < s.ns
\* The keys that are kept are of chains the other posted on, and stand for all that is
\* unread before the next index of the receiving chain.
Keeping(p, s) ==
    \A e \in DOMAIN s.skipped : \E x \in Sent(Other(p)) : x.dh = e[1] /\ x.chain = s.skipped[e]
Missing(p, s) ==
    \A i \in Unread(p) : Msg(p, i).dh = s.remote /\ Msg(p, i).n < s.nr => IsKept(s, Msg(p, i))
Own(p, s) == Chained(p, s) /\ Ahead(p, s) /\ Keeping(p, s) /\ Missing(p, s)

ChainInv == \A p \in Peer : Formed(p) /\ Apart(p) /\ \A s \in session[p] : Own(p, s)

LEMMA FirstFacts ==
    ASSUME NEW p \in Peer, NEW k \in Mine(p)
    PROVE  /\ First(p, k) \in Root /\ Len(First(p, k)) = 2
           /\ First(p, k)[2] = Dh(k, Identity(Other(p)))
           /\ First(p, k) = KdfRk(SharedSecret(Other(p), p), Identity(Other(p)), k)
<1>1. Other(p) \in Peer /\ k \in Key /\ Identity(Other(p)) \in Key BY OtherFacts, MineFacts
<1>2. SharedSecret(p, Other(p)) \in Root /\ Len(SharedSecret(p, Other(p))) = 1
      /\ SharedSecret(p, Other(p)) = SharedSecret(Other(p), p)
  BY <1>1, SecretFacts
<1> DEFINE r == SharedSecret(p, Other(p))
           d == Identity(Other(p))
<1>3. r \in Root /\ Len(r) = 1 /\ d \in Key BY <1>1, <1>2
<1> HIDE DEF r, d
<1>4. KdfRk(r, k, d) \in Root /\ Len(KdfRk(r, k, d)) = Len(r) + 1
      /\ KdfRk(r, k, d)[Len(r) + 1] = Dh(k, d)
  BY <1>1, <1>3, KdfFacts
<1>5. Len(KdfRk(r, k, d)) = 2 /\ KdfRk(r, k, d)[2] = Dh(k, d) BY <1>3, <1>4
<1>6. KdfRk(r, k, d) = KdfRk(r, d, k) BY DhFlip DEF KdfRk
<1> QED BY <1>2, <1>4, <1>5, <1>6 DEF First, r, d

LEMMA LaterFacts ==
    ASSUME NEW p \in Peer, NEW y \in {p} \X Nat, NEW k \in Mine(p), NEW h \in Mine(Other(p)),
           NEW r \in Root, r # NoChain, y # k
    PROVE  Later(p, k, KdfRk(KdfRk(r, y, h), k, h))
<1>1. y \in Key /\ h \in Key /\ k \in Key
  <2>1. Other(p) \in Peer BY OtherFacts
  <2> QED BY <2>1, MineFacts DEF Key
<1> DEFINE c == KdfRk(r, y, h)
           d == KdfRk(c, k, h)
<1>2. c \in Root /\ Len(c) = Len(r) + 1 /\ c[Len(r) + 1] = Dh(y, h) /\ Len(r) \in Nat
  BY <1>1, KdfFacts
<1>3. d \in Root /\ Len(d) = Len(c) + 1 /\ d[Len(c) + 1] = Dh(k, h)
      /\ \A i \in 1..Len(c) : d[i] = c[i]
  <2> HIDE DEF c
  <2> QED BY <1>1, <1>2, KdfFacts
<1>4. Len(r) >= 1
  <2>1. r \in Seq(SUBSET Key) /\ r # <<>> BY DEF Root, NoChain
  <2> HIDE DEF Key
  <2> QED BY <2>1
<1> HIDE DEF c, d
<1> DEFINE n == Len(r)
           g == Len(d)
<1>5. n \in Nat /\ n >= 1 /\ Len(c) = n + 1 /\ g = n + 2 BY <1>2, <1>3, <1>4
<1>6. g - 1 = n + 1 /\ g = Len(c) + 1 /\ g >= 3 /\ n + 1 \in 1..Len(c) BY <1>5
<1>7. d[g - 1] = Dh(y, h) /\ d[g] = Dh(k, h) BY <1>2, <1>3, <1>6
<1>8. Later(p, k, d) BY <1>3, <1>6, <1>7 DEF Later
<1> QED BY <1>8 DEF c, d

LEMMA ChainFacts ==
    ASSUME NEW p \in Peer, NEW s \in SessRec, Chained(p, s)
    PROVE  /\ s.root \in Root /\ Len(s.root) >= 2 /\ s.root # NoChain
           /\ s.dh \in Mine(p) /\ s.root = s.ckSend
<1>1. s.root \in Root /\ s.dh \in Mine(p) /\ s.root = s.ckSend BY DEF Chained, SessRec
<1>2. Len(s.root) >= 2
  <2>1. CASE s.ckSend = First(p, s.dh) BY <1>1, <2>1, FirstFacts
  <2>2. CASE Later(p, s.dh, s.ckSend)
    <3>1. Len(s.root) >= 3 /\ Len(s.root) \in Nat BY <1>1, <2>2 DEF Later, Root
    <3> QED BY <3>1
  <2> QED BY <2>1, <2>2 DEF Chained, Begun, Answering
<1>3. Len(NoChain) = 0 BY DEF NoChain
<1> QED BY <1>1, <1>2, <1>3

LEMMA SentFacts ==
    ASSUME TypeInv, ChainInv, NEW p \in Peer, NEW x \in Sent(p)
    PROVE  /\ x \in HeaderRec /\ x.dh \in Mine(p) /\ x.dh \in Key /\ x.n \in Nat /\ x.pn \in Nat
           /\ x.chain \in Root /\ Len(x.chain) >= 2 /\ x.chain # NoChain
           /\ (x.chain = First(p, x.dh) /\ x.pn = 0) \/ Later(p, x.dh, x.chain)
<1>1. x \in HeaderRec BY PostedFacts
<1>2. x.dh \in Mine(p) /\ ((x.chain = First(p, x.dh) /\ x.pn = 0) \/ Later(p, x.dh, x.chain))
  BY DEF ChainInv, Formed
<1>3. x.chain \in Root /\ x.dh \in Key /\ x.n \in Nat /\ x.pn \in Nat BY <1>1 DEF HeaderRec
<1>4. Len(x.chain) >= 2
  <2>1. CASE x.chain = First(p, x.dh) BY <1>2, <2>1, FirstFacts
  <2>2. CASE Later(p, x.dh, x.chain)
    <3>1. Len(x.chain) >= 3 /\ Len(x.chain) \in Nat BY <1>3, <2>2 DEF Later, Root
    <3> QED BY <3>1
  <2> QED BY <1>2, <2>1, <2>2
<1>5. Len(NoChain) = 0 BY DEF NoChain
<1> QED BY <1>1, <1>2, <1>3, <1>4, <1>5

LEMMA OutgoingOwn ==
    ASSUME TypeInv, ChainInv, NEW p \in Peer
    PROVE  Own(p, Outgoing(p))
<1>1. CASE session[p] # {}
  <2>1. PICK s \in session[p] : TRUE BY <1>1
  <2>2. Outgoing(p) = s BY OutgoingFacts
  <2> QED BY <2>2 DEF ChainInv
<1>2. CASE session[p] = {}
  <2> DEFINE k == Fresh(p)
             s == Outgoing(p)
  <2>1. k \in Mine(p) /\ k \in Key /\ \A x \in Sent(p) : x.dh # k BY FreshFacts
  <2>2. s = InitAlice(p, Other(p), k) BY <1>2, OutgoingFacts
  <2>3. /\ s.root = First(p, k) /\ s.dh = k /\ s.remote = Identity(Other(p)) /\ s.ckSend = First(p, k)
        /\ s.ckRecv = NoChain /\ s.ns = 0 /\ s.nr = 0 /\ s.pn = 0 /\ DOMAIN s.skipped = {}
    BY <2>1, <2>2, OtherFacts, AliceFields DEF First
  <2> HIDE DEF k, s
  <2>4. Chained(p, s) BY <2>1, <2>3 DEF Chained, Begun
  <2>5. Ahead(p, s) BY <2>1, <2>3 DEF Ahead
  <2>6. Keeping(p, s) BY <2>3 DEF Keeping
  <2>7. Missing(p, s)
    <3>1. \A i \in Unread(p) : Msg(p, i).n \in Nat BY PostedFacts DEF Unread, HeaderRec
    <3>2. \A i \in Unread(p) : ~(Msg(p, i).n < s.nr) BY <2>3, <3>1
    <3> QED BY <3>2 DEF Missing
  <2>8. Own(p, s) BY <2>4, <2>5, <2>6, <2>7 DEF Own
  <2> QED BY <2>8 DEF s
<1> QED BY <1>1, <1>2

\* What a message of p changes in what is posted.
LEMMA PostFacts ==
    ASSUME TypeInv, NEW p \in Peer, NEW m \in HeaderRec,
           posts' = [posts EXCEPT ![p] = Append(@, m)], read' = read
    PROVE  LET q == Other(p)
               n == Len(posts[p]) + 1
           IN  /\ Sent(p)' = Sent(p) \cup {m} /\ Sent(q)' = Sent(q)
               /\ DOMAIN posts'[p] = DOMAIN posts[p] \cup {n} /\ n \notin DOMAIN posts[p]
               /\ posts'[p][n] = m /\ \A j \in DOMAIN posts[p] : posts'[p][j] = posts[p][j]
               /\ posts'[q] = posts[q]
               /\ Unread(p)' = Unread(p) /\ \A i \in Unread(p) : Msg(p, i)' = Msg(p, i)
               /\ \A i \in Unread(q)' :
                     \/ i \in Unread(q) /\ Msg(q, i)' = Msg(q, i)
                     \/ i = n /\ Msg(q, i)' = m
<1> DEFINE q == Other(p)
           n == Len(posts[p]) + 1
<1>1. q \in Peer /\ q # p /\ Other(q) = p BY OtherFacts
<1>2. posts \in [Peer -> Seq(HeaderRec)] BY DEF TypeInv, Typed
<1>3. posts'[p] = Append(posts[p], m) /\ posts'[q] = posts[q] BY <1>1, <1>2
<1>4. /\ DOMAIN posts'[p] = DOMAIN posts[p] \cup {n} /\ n \notin DOMAIN posts[p]
      /\ posts'[p][n] = m /\ \A j \in DOMAIN posts[p] : posts'[p][j] = posts[p][j]
  <2> DEFINE f == posts[p]
             g == Append(f, m)
  <2>1. f \in Seq(HeaderRec) BY <1>2
  <2> HIDE DEF f
  <2>2. DOMAIN f = 1..Len(f) /\ Len(f) \in Nat BY <2>1
  <2>3. DOMAIN g = 1..(Len(f) + 1) /\ g[Len(f) + 1] = m /\ \A j \in 1..Len(f) : g[j] = f[j]
    BY <2>1
  <2> HIDE DEF g
  <2>4. DOMAIN g = DOMAIN f \cup {Len(f) + 1} /\ Len(f) + 1 \notin DOMAIN f BY <2>2, <2>3
  <2> QED BY <1>3, <2>2, <2>3, <2>4 DEF f, g
<1> HIDE DEF n
<1>5. Sent(p)' = Sent(p) \cup {m} BY <1>4 DEF Sent
<1>6. Sent(q)' = Sent(q) BY <1>3 DEF Sent
<1>7. Posted(p)' = Posted(p) /\ \A i : Msg(p, i)' = Msg(p, i) BY <1>3 DEF Posted, Msg
<1>8. Unread(p)' = Unread(p) BY <1>7 DEF Unread
<1>9. \A i \in Posted(q)' : i \in Posted(q) \/ i = n
  <2>1. Posted(q)' = {i \in Index : i <= Len(posts'[p])} BY <1>1 DEF Posted
  <2>2. Posted(q) = {i \in Index : i <= Len(posts[p])} BY <1>1 DEF Posted
  <2>3. Len(posts'[p]) = n /\ Len(posts[p]) \in Nat BY <1>2, <1>3 DEF n
  <2>4. Index \subseteq Int BY DEF Index
  <2> DEFINE a == Len(posts[p])
  <2>5. a \in Nat /\ n = a + 1 BY <2>3 DEF n
  <2> HIDE DEF a
  <2>6. \A i \in Index : i <= n => i <= a \/ i = n BY <2>4, <2>5
  <2> QED BY <2>1, <2>2, <2>3, <2>6 DEF a
<1>10. \A i \in Posted(q) : Msg(q, i)' = Msg(q, i)
  <2>1. Posted(q) = DOMAIN posts[p] BY <1>1, PostedFacts
  <2> QED BY <1>1, <1>4, <2>1 DEF Msg
<1>11. \A i : i = n => Msg(q, i)' = m BY <1>1, <1>4 DEF Msg
<1>12. ASSUME NEW i \in Unread(q)'
       PROVE  (i \in Unread(q) /\ Msg(q, i)' = Msg(q, i)) \/ (i = n /\ Msg(q, i)' = m)
  <2>1. i \in Posted(q)' /\ i \notin read[q] BY DEF Unread
  <2>2. CASE i \in Posted(q) BY <1>10, <2>1, <2>2 DEF Unread
  <2>3. CASE i = n BY <1>11, <2>3
  <2> QED BY <1>9, <2>1, <2>2, <2>3
<1> QED BY <1>3, <1>4, <1>5, <1>6, <1>7, <1>8, <1>12 DEF n

\* The sender after a message of its session s.
LEMMA SenderOwn ==
    ASSUME TypeInv, ChainInv, NEW p \in Peer, NEW s \in SessRec, Own(p, s),
           posts' = [posts EXCEPT ![p] = Append(@, Header(s))], read' = read
    PROVE  Formed(p)' /\ Apart(p)' /\ Own(p, Encrypted(s))'
<1> DEFINE q == Other(p)
           n == Len(posts[p]) + 1
           m == Header(s)
           t == Encrypted(s)
<1>1. /\ m \in HeaderRec /\ m.dh = s.dh /\ m.pn = s.pn /\ m.n = s.ns /\ m.chain = s.ckSend
      /\ t \in SessRec
      /\ t.root = s.root /\ t.dh = s.dh /\ t.remote = s.remote /\ t.ckSend = s.ckSend
      /\ t.ckRecv = s.ckRecv /\ t.ns = s.ns + 1 /\ t.nr = s.nr /\ t.pn = s.pn
      /\ t.skipped = s.skipped
  BY EncryptedFacts
<1>2. /\ Sent(p)' = Sent(p) \cup {m} /\ Sent(q)' = Sent(q)
      /\ DOMAIN posts'[p] = DOMAIN posts[p] \cup {n} /\ n \notin DOMAIN posts[p]
      /\ posts'[p][n] = m /\ \A j \in DOMAIN posts[p] : posts'[p][j] = posts[p][j]
      /\ Unread(p)' = Unread(p) /\ \A i \in Unread(p) : Msg(p, i)' = Msg(p, i)
  <2>1. m \in HeaderRec BY <1>1
  <2> QED BY <2>1, PostFacts
<1>3. Chained(p, s) /\ Ahead(p, s) /\ Keeping(p, s) /\ Missing(p, s) BY DEF Own
<1>4. s.ns \in Nat /\ \A x \in Sent(p) : x.n \in Nat BY SentFacts DEF SessRec
<1> HIDE DEF q, n, m, t
<1>5. Formed(p)'
  <2>1. m.dh \in Mine(p) /\ ((m.chain = First(p, m.dh) /\ m.pn = 0) \/ Later(p, m.dh, m.chain))
    BY <1>1, <1>3 DEF Chained, Begun, Answering
  <2>2. Formed(p) BY DEF ChainInv
  <2> QED BY <1>2, <2>1, <2>2 DEF Formed
<1>6. Apart(p)'
  <2>1. \A j \in DOMAIN posts[p] :
           posts[p][j].dh = m.dh => /\ posts[p][j].chain = m.chain /\ posts[p][j].pn = m.pn
                                    /\ posts[p][j].n # m.n
    <3> TAKE j \in DOMAIN posts[p]
    <3> HAVE posts[p][j].dh = m.dh
    <3> DEFINE x == posts[p][j]
    <3>1. x \in Sent(p) BY DEF Sent
    <3> HIDE DEF x
    <3>2. x.dh = s.dh BY <1>1 DEF x
    <3>3. x.chain = s.ckSend /\ x.pn = s.pn /\ x.n < s.ns BY <1>3, <3>1, <3>2 DEF Ahead
    <3>4. x.n # s.ns BY <1>4, <3>1, <3>3
    <3> QED BY <1>1, <3>3, <3>4 DEF x
  <2>2. Apart(p) BY DEF ChainInv
  <2> QED BY <1>2, <2>1, <2>2 DEF Apart
<1>7. Chained(p, t)'
  <2>1. s.dh \in Mine(p) /\ s.root = s.ckSend BY <1>3 DEF Chained
  <2>2. CASE Begun(p, s) BY <1>1, <2>1, <2>2 DEF Chained, Begun
  <2>3. CASE Answering(p, s) BY <1>1, <1>2, <2>1, <2>3 DEF Chained, Answering, q
  <2> QED BY <1>3, <2>2, <2>3 DEF Chained
<1>8. Ahead(p, t)'
  <2>1. \A x \in Sent(p) : x.n < s.ns => x.n < s.ns + 1 BY <1>4
  <2>2. s.ns < s.ns + 1 BY <1>4
  <2> QED BY <1>1, <1>2, <1>3, <2>1, <2>2 DEF Ahead
<1>9. Keeping(p, t)' BY <1>1, <1>2, <1>3 DEF Keeping, q
<1>10. Missing(p, t)'
  <2>1. \A m2 : IsKept(t, m2) = IsKept(s, m2) BY <1>1 DEF IsKept
  <2> QED BY <1>1, <1>2, <1>3, <2>1 DEF Missing
<1>11. Own(p, t)' BY <1>7, <1>8, <1>9, <1>10 DEF Own
<1> QED BY <1>5, <1>6, <1>11 DEF t

LEMMA ApartStill == ASSUME NEW x \in Peer, posts'[x] = posts[x], Apart(x) PROVE Apart(x)'
BY DEF Apart

\* The other peer meanwhile.
LEMMA ReceiverOwn ==
    ASSUME TypeInv, ChainInv, NEW p \in Peer, NEW s \in SessRec, Own(p, s),
           posts' = [posts EXCEPT ![p] = Append(@, Header(s))], read' = read
    PROVE  LET q == Other(p)
           IN  Formed(q)' /\ Apart(q)' /\ \A u \in session[q] : Own(q, u)'
<1> DEFINE q == Other(p)
           n == Len(posts[p]) + 1
           m == Header(s)
<1>1. m \in HeaderRec /\ m.dh = s.dh /\ m.n = s.ns BY EncryptedFacts
<1>2. /\ Sent(p)' = Sent(p) \cup {m} /\ Sent(q)' = Sent(q) /\ posts'[q] = posts[q]
      /\ \A i \in Unread(q)' :
            (i \in Unread(q) /\ Msg(q, i)' = Msg(q, i)) \/ (i = n /\ Msg(q, i)' = m)
  <2>1. m \in HeaderRec BY <1>1
  <2>2. Sent(p)' = Sent(p) \cup {m} /\ Sent(q)' = Sent(q) /\ posts'[q] = posts[q]
    BY <2>1, PostFacts
  <2>3. \A i \in Unread(q)' :
           (i \in Unread(q) /\ Msg(q, i)' = Msg(q, i)) \/ (i = n /\ Msg(q, i)' = m)
    BY <2>1, PostFacts
  <2> QED BY <2>2, <2>3
<1>3. q \in Peer /\ Other(q) = p BY OtherFacts
<1>4. Chained(p, s) /\ Ahead(p, s) BY DEF Own
<1> HIDE DEF q, n, m
<1>5. Formed(q)' /\ Apart(q)'
  <2>1. Formed(q) /\ Apart(q) BY <1>3 DEF ChainInv
  <2>2. Formed(q)' BY <1>2, <2>1 DEF Formed
  <2>4. Apart(q)' BY <1>2, <1>3, <2>1, ApartStill
  <2> QED BY <2>2, <2>4
<1>6. ASSUME NEW u \in session[q] PROVE Own(q, u)'
  <2>1. Chained(q, u) /\ Ahead(q, u) /\ Keeping(q, u) /\ Missing(q, u) /\ u \in SessRec
    BY <1>3, OutgoingFacts DEF Own, ChainInv
  <2>2. Chained(q, u)'
    <3>1. CASE Begun(q, u) BY <2>1, <3>1 DEF Chained, Begun
    <3>2. CASE Answering(q, u) BY <1>2, <1>3, <2>1, <3>2 DEF Chained, Answering
    <3> QED BY <2>1, <3>1, <3>2 DEF Chained
  <2>3. Ahead(q, u)' BY <1>2, <2>1 DEF Ahead
  <2>4. Keeping(q, u)' BY <1>2, <1>3, <2>1 DEF Keeping
  <2>5. m.dh = u.remote => ~(m.n < u.nr)
    <3> HAVE m.dh = u.remote
    <3>1. CASE Begun(q, u)
      <4>1. u.remote = Identity(p) BY <1>3, <3>1 DEF Begun
      <4>2. m.dh \in Mine(p) BY <1>1, <1>4 DEF Chained
      <4> QED BY <4>1, <4>2, MineFacts
    <3>2. CASE Answering(q, u)
      <4>1. PICK x \in Sent(p) : x.dh = u.remote /\ u.nr <= x.n + 1 BY <1>3, <3>2 DEF Answering
      <4>2. x.n < s.ns BY <1>1, <1>4, <4>1 DEF Ahead
      <4>3. x.n \in Nat /\ s.ns \in Nat /\ u.nr \in Nat BY <2>1, SentFacts DEF SessRec
      <4>4. u.nr <= s.ns BY <4>1, <4>2, <4>3
      <4> QED BY <1>1, <4>3, <4>4
    <3> QED BY <2>1, <3>1, <3>2 DEF Chained
  <2>6. Missing(q, u)' BY <1>2, <2>1, <2>5 DEF Missing
  <2> QED BY <2>2, <2>3, <2>4, <2>6 DEF Own
<1> QED BY <1>5, <1>6 DEF q

\* What reading message i changes in what is unread.
LEMMA StillFacts ==
    ASSUME TypeInv, NEW p \in Peer, NEW i \in Index, posts' = posts,
           read' = [read EXCEPT ![p] = @ \cup {i}]
    PROVE  /\ Unread(p)' = Unread(p) \ {i}
           /\ \A x \in Peer \ {p} : Unread(x)' = Unread(x)
           /\ \A x \in Peer, j \in Index : Msg(x, j)' = Msg(x, j)
           /\ \A x \in Peer : Sent(x)' = Sent(x)
<1>1. read \in [Peer -> SUBSET Index] BY DEF TypeInv, Typed
<1>2. read'[p] = read[p] \cup {i} /\ \A x \in Peer \ {p} : read'[x] = read[x] BY <1>1
<1>3. \A x \in Peer : Posted(x)' = Posted(x) BY DEF Posted
<1>4. Unread(p)' = Unread(p) \ {i} BY <1>2, <1>3 DEF Unread
<1>5. \A x \in Peer \ {p} : Unread(x)' = Unread(x) BY <1>2, <1>3 DEF Unread
<1>6. \A x \in Peer, j \in Index : Msg(x, j)' = Msg(x, j) BY DEF Msg
<1>7. \A x \in Peer : Sent(x)' = Sent(x) BY DEF Sent
<1> QED BY <1>4, <1>5, <1>6, <1>7

LEMMA NoTwin ==
    ASSUME TypeInv, ChainInv, NEW p \in Peer, NEW i \in Posted(p), NEW j \in Posted(p),
           Msg(p, i).dh = Msg(p, j).dh
    PROVE  /\ Msg(p, i).chain = Msg(p, j).chain /\ Msg(p, i).pn = Msg(p, j).pn
           /\ Msg(p, i).n = Msg(p, j).n => i = j
<1>1. Other(p) \in Peer /\ Posted(p) = DOMAIN posts[Other(p)] BY OtherFacts, PostedFacts
<1>2. Apart(Other(p)) BY <1>1 DEF ChainInv
<1> QED BY <1>1, <1>2 DEF Apart, Msg

\* The reader's session: what is the same in all cases.
LEMMA ReadHeader ==
    ASSUME TypeInv, ChainInv, NEW p \in Peer, NEW i \in Posted(p)
    PROVE  LET m == Msg(p, i)
               q == Other(p)
           IN  /\ m \in HeaderRec /\ m \in Sent(q) /\ m.dh \in Mine(q) /\ m.dh \in Key
               /\ m.n \in Nat /\ m.pn \in Nat /\ m.chain \in Root /\ Len(m.chain) >= 2
               /\ m.chain # NoChain /\ m.dh # Identity(q)
               /\ Fresh(p) \in Mine(p) /\ Fresh(p) \in Key
               /\ q \in Peer /\ Other(q) = p
<1>1. Other(p) \in Peer /\ Other(Other(p)) = p BY OtherFacts
<1>2. Msg(p, i) \in HeaderRec /\ Msg(p, i) \in Sent(Other(p)) BY PostedFacts
<1> DEFINE m == Msg(p, i)
           q == Other(p)
<1> HIDE DEF m, q
<1>3. q \in Peer /\ m \in Sent(q) BY <1>1, <1>2 DEF m, q
<1>4. /\ m.dh \in Mine(q) /\ m.dh \in Key /\ m.n \in Nat /\ m.pn \in Nat
      /\ m.chain \in Root /\ Len(m.chain) >= 2 /\ m.chain # NoChain
  BY <1>3, SentFacts
<1>5. m.dh # Identity(q) BY <1>3, <1>4, MineFacts
<1> QED BY <1>1, <1>2, <1>4, <1>5, FreshFacts DEF m, q

LEMMA NewHas ==
    ASSUME NEW d, NEW from \in Nat, NEW to \in Nat, NEW n \in Nat, from <= n, n < to
    PROVE  <<d, n>> \in New(d, from, to)
<1>1. n \in from..(to - 1) OBVIOUS
<1> QED BY <1>1 DEF New

LEMMA NewOnly ==
    ASSUME NEW d, NEW from \in Nat, NEW to \in Nat, NEW e \in New(d, from, to)
    PROVE  e[1] = d /\ from < to
<1>1. PICK n \in from..(to - 1) : e = <<d, n>> BY DEF New
<1>2. from < to BY <1>1
<1> QED BY <1>1, <1>2

LEMMA StartedOwn ==
    ASSUME TypeInv, ChainInv, NEW p \in Peer, NEW i \in Posted(p), NEW t \in SessRec,
           StartedAt(p, Msg(p, i), Fresh(p), t),
           posts' = posts, read' = [read EXCEPT ![p] = @ \cup {i}]
    PROVE  Own(p, t)'
<1> DEFINE m == Msg(p, i)
           q == Other(p)
           k == Fresh(p)
<1>1. /\ m \in Sent(q) /\ m.dh \in Mine(q) /\ m.dh \in Key /\ m.n \in Nat
      /\ m.chain \in Root /\ Len(m.chain) >= 2 /\ m.chain # NoChain
      /\ k \in Mine(p) /\ k \in Key /\ q \in Peer /\ Other(q) = p
  BY ReadHeader
<1>2. /\ Unread(p)' = Unread(p) \ {i} /\ \A j \in Index : Msg(p, j)' = Msg(p, j)
      /\ Sent(p)' = Sent(p) /\ Sent(q)' = Sent(q)
  BY <1>1, PostedFacts, StillFacts
<1>3. \A x \in Sent(p) : x.dh # k BY FreshFacts
<1>4. StartedAt(p, m, k, t) OBVIOUS
<1>5. \A j \in Unread(p) \ {i} :
         j \in Index /\ Msg(p, j).n \in Nat /\ (Msg(p, j).dh = m.dh => Msg(p, j).n # m.n)
  <2> TAKE j \in Unread(p) \ {i}
  <2>1. j \in Posted(p) /\ j # i BY DEF Unread
  <2> QED BY <2>1, NoTwin, ReadHeader, PostedFacts
<1> HIDE DEF m, k
<1>6. /\ m.chain = KdfRk(SharedSecret(p, q), Identity(p), m.dh)
      /\ t.dh = k /\ t.remote = m.dh /\ t.ckRecv = m.chain
      /\ t.root = KdfRk(m.chain, k, m.dh) /\ t.ckSend = t.root
      /\ t.ns = 0 /\ t.pn = 0 /\ t.nr = m.n + 1
      /\ DOMAIN t.skipped = New(m.dh, 0, m.n)
      /\ \A e \in DOMAIN t.skipped : t.skipped[e] = m.chain
  BY <1>4 DEF StartedAt
<1>7. Later(p, k, t.ckSend)
  <2>1. Identity(p) \in {p} \X Nat /\ Identity(p) # k BY <1>1, MineFacts DEF Identity
  <2>2. SharedSecret(p, q) \in Root /\ Len(SharedSecret(p, q)) = 1 BY <1>1, SecretFacts
  <2>3. SharedSecret(p, q) # NoChain
    <3>1. Len(NoChain) = 0 BY DEF NoChain
    <3> QED BY <2>2, <3>1
  <2>4. Later(p, k, KdfRk(KdfRk(SharedSecret(p, q), Identity(p), m.dh), k, m.dh))
    BY <1>1, <2>1, <2>2, <2>3, LaterFacts
  <2> QED BY <1>6, <2>4
<1>8. Chained(p, t)'
  <2>1. \E x \in Sent(q) : x.dh = t.remote /\ x.chain = t.ckRecv /\ t.nr <= x.n + 1
    BY <1>1, <1>6
  <2>2. Answering(p, t)' BY <1>2, <1>6, <1>7, <2>1 DEF Answering
  <2> QED BY <1>1, <1>6, <2>2 DEF Chained
<1>9. Ahead(p, t)' BY <1>2, <1>3, <1>6 DEF Ahead
<1>10. Keeping(p, t)'
  <2>1. \A e \in DOMAIN t.skipped : m.dh = e[1] /\ m.chain = t.skipped[e]
    BY <1>1, <1>6, NewOnly
  <2> QED BY <1>1, <1>2, <2>1 DEF Keeping
<1>11. Missing(p, t)'
  <2>1. ASSUME NEW j \in Unread(p) \ {i}, Msg(p, j).dh = t.remote, Msg(p, j).n < t.nr
        PROVE  IsKept(t, Msg(p, j))
    <3> DEFINE n == Msg(p, j).n
    <3>1. n \in Nat /\ n # m.n /\ n < m.n + 1 BY <1>5, <1>6, <2>1
    <3> HIDE DEF n
    <3>2. 0 <= n /\ n < m.n BY <1>1, <3>1
    <3>3. <<m.dh, n>> \in New(m.dh, 0, m.n) BY <1>1, <3>1, <3>2, NewHas
    <3> QED BY <1>6, <2>1, <3>3 DEF IsKept, Slot, n
  <2>2. \A j \in Unread(p)' : j \in Unread(p) \ {i} /\ Msg(p, j)' = Msg(p, j) BY <1>2, <1>5
  <2>3. \A j \in Unread(p)' :
           Msg(p, j)'.dh = t.remote /\ Msg(p, j)'.n < t.nr => IsKept(t, Msg(p, j)')
    BY <2>1, <2>2
  <2> QED BY <2>3 DEF Missing
<1> QED BY <1>8, <1>9, <1>10, <1>11 DEF Own

\* A message whose key was kept.
LEMMA KeptOwn ==
    ASSUME TypeInv, ChainInv, NEW p \in Peer, NEW i \in Posted(p), NEW s \in SessRec, Own(p, s),
           NEW t \in SessRec, IsKept(s, Msg(p, i)), TookKept(s, Msg(p, i), t),
           posts' = posts, read' = [read EXCEPT ![p] = @ \cup {i}]
    PROVE  Own(p, t)'
<1> DEFINE m == Msg(p, i)
           q == Other(p)
<1>1. q \in Peer /\ Other(q) = p BY OtherFacts
<1>2. /\ Unread(p)' = Unread(p) \ {i} /\ \A j \in Index : Msg(p, j)' = Msg(p, j)
      /\ Sent(p)' = Sent(p) /\ Sent(q)' = Sent(q)
  BY <1>1, PostedFacts, StillFacts
<1>3. \A j \in Unread(p) \ {i} :
         j \in Index /\ (Msg(p, j).dh = m.dh => Msg(p, j).n # m.n)
  <2> TAKE j \in Unread(p) \ {i}
  <2>1. j \in Posted(p) /\ j # i BY DEF Unread
  <2> QED BY <2>1, NoTwin, PostedFacts
<1>4. Chained(p, s) /\ Ahead(p, s) /\ Keeping(p, s) /\ Missing(p, s) BY DEF Own
<1>5. TookKept(s, m, t) OBVIOUS
<1> HIDE DEF m
<1>6. /\ t.root = s.root /\ t.dh = s.dh /\ t.remote = s.remote /\ t.ckSend = s.ckSend
      /\ t.ckRecv = s.ckRecv /\ t.ns = s.ns /\ t.pn = s.pn /\ t.nr = s.nr
      /\ DOMAIN t.skipped = DOMAIN s.skipped \ {Slot(m)}
      /\ \A e \in DOMAIN t.skipped : t.skipped[e] = s.skipped[e]
  BY <1>5 DEF TookKept
<1>7. Chained(p, t)'
  <2>1. CASE Begun(p, s) BY <1>4, <1>6, <2>1 DEF Chained, Begun
  <2>2. CASE Answering(p, s) BY <1>2, <1>4, <1>6, <2>2 DEF Chained, Answering
  <2> QED BY <1>4, <2>1, <2>2 DEF Chained
<1>8. Ahead(p, t)' BY <1>2, <1>4, <1>6 DEF Ahead
<1>9. Keeping(p, t)' BY <1>2, <1>4, <1>6 DEF Keeping
<1>10. Missing(p, t)'
  <2>1. ASSUME NEW j \in Unread(p) \ {i}, Msg(p, j).dh = t.remote, Msg(p, j).n < t.nr
        PROVE  IsKept(t, Msg(p, j))
    <3>1. IsKept(s, Msg(p, j)) BY <1>4, <1>6, <2>1 DEF Missing
    <3>2. Slot(Msg(p, j)) # Slot(m) BY <1>3 DEF Slot
    <3> QED BY <1>6, <3>1, <3>2 DEF IsKept
  <2>2. \A j \in Unread(p)' : j \in Unread(p) \ {i} /\ Msg(p, j)' = Msg(p, j) BY <1>2, <1>3
  <2>3. \A j \in Unread(p)' :
           Msg(p, j)'.dh = t.remote /\ Msg(p, j)'.n < t.nr => IsKept(t, Msg(p, j)')
    BY <2>1, <2>2
  <2> QED BY <2>3 DEF Missing
<1> QED BY <1>7, <1>8, <1>9, <1>10 DEF Own

\* A message of the present receiving chain.
LEMMA AdvancedOwn ==
    ASSUME TypeInv, ChainInv, NEW p \in Peer, NEW i \in Posted(p), NEW s \in SessRec, Own(p, s),
           NEW t \in SessRec, Advanced(s, Msg(p, i), t),
           Msg(p, i).dh = s.remote, Msg(p, i).chain = s.ckRecv, Msg(p, i).n >= s.nr,
           posts' = posts, read' = [read EXCEPT ![p] = @ \cup {i}]
    PROVE  Own(p, t)'
<1> DEFINE m == Msg(p, i)
           q == Other(p)
<1>1. /\ m \in Sent(q) /\ m.n \in Nat /\ m.dh # Identity(q)
      /\ q \in Peer /\ Other(q) = p
  BY ReadHeader
<1>2. /\ Unread(p)' = Unread(p) \ {i} /\ \A j \in Index : Msg(p, j)' = Msg(p, j)
      /\ Sent(p)' = Sent(p) /\ Sent(q)' = Sent(q)
  BY <1>1, PostedFacts, StillFacts
<1>3. \A j \in Unread(p) \ {i} :
         j \in Index /\ Msg(p, j).n \in Nat /\ (Msg(p, j).dh = m.dh => Msg(p, j).n # m.n)
  <2> TAKE j \in Unread(p) \ {i}
  <2>1. j \in Posted(p) /\ j # i BY DEF Unread
  <2> QED BY <2>1, NoTwin, ReadHeader, PostedFacts
<1>4. Chained(p, s) /\ Ahead(p, s) /\ Keeping(p, s) /\ Missing(p, s) BY DEF Own
<1>5. Advanced(s, m, t) /\ m.dh = s.remote /\ m.chain = s.ckRecv /\ m.n >= s.nr OBVIOUS
<1>6. s.nr \in Nat BY DEF SessRec
<1> HIDE DEF m
<1>7. /\ t.root = s.root /\ t.dh = s.dh /\ t.remote = s.remote /\ t.ckSend = s.ckSend
      /\ t.ckRecv = s.ckRecv /\ t.ns = s.ns /\ t.pn = s.pn /\ t.nr = m.n + 1
      /\ DOMAIN t.skipped = DOMAIN s.skipped \cup New(s.remote, s.nr, m.n)
      /\ \A e \in DOMAIN t.skipped :
            t.skipped[e] = IF e \in New(s.remote, s.nr, m.n) THEN s.ckRecv ELSE s.skipped[e]
  BY <1>5 DEF Advanced
<1>8. Chained(p, t)'
  <2>1. Answering(p, s) BY <1>1, <1>4, <1>5 DEF Chained, Begun
  <2>2. m.n + 1 <= m.n + 1 BY <1>1
  <2>3. \E x \in Sent(q) : x.dh = t.remote /\ x.chain = t.ckRecv /\ t.nr <= x.n + 1
    BY <1>1, <1>5, <1>7, <2>2
  <2>4. Answering(p, t)' BY <1>2, <1>7, <2>1, <2>3 DEF Answering
  <2> QED BY <1>4, <1>7, <2>4 DEF Chained
<1>9. Ahead(p, t)' BY <1>2, <1>4, <1>7 DEF Ahead
<1>10. Keeping(p, t)'
  <2>1. ASSUME NEW e \in DOMAIN t.skipped
        PROVE  \E x \in Sent(q) : x.dh = e[1] /\ x.chain = t.skipped[e]
    <3>1. CASE e \in New(s.remote, s.nr, m.n)
      <4>1. e[1] = s.remote BY <1>1, <1>6, <3>1, NewOnly
      <4> QED BY <1>1, <1>5, <1>7, <3>1, <4>1
    <3>2. CASE e \notin New(s.remote, s.nr, m.n)
      <4>1. e \in DOMAIN s.skipped /\ t.skipped[e] = s.skipped[e] BY <1>7, <3>2
      <4> QED BY <1>4, <4>1 DEF Keeping
    <3> QED BY <3>1, <3>2
  <2> QED BY <1>2, <2>1 DEF Keeping
<1>11. Missing(p, t)'
  <2>1. ASSUME NEW j \in Unread(p) \ {i}, Msg(p, j).dh = t.remote, Msg(p, j).n < t.nr
        PROVE  IsKept(t, Msg(p, j))
    <3> DEFINE n == Msg(p, j).n
    <3>1. n \in Nat /\ n # m.n /\ n < m.n + 1 BY <1>3, <1>5, <1>7, <2>1
    <3> HIDE DEF n
    <3>2. n < m.n BY <1>1, <3>1
    <3>3. CASE n < s.nr
      <4>1. IsKept(s, Msg(p, j)) BY <1>4, <1>7, <2>1, <3>3 DEF Missing, n
      <4> QED BY <1>7, <4>1 DEF IsKept
    <3>4. CASE s.nr <= n
      <4>1. <<s.remote, n>> \in New(s.remote, s.nr, m.n) BY <1>1, <1>6, <3>1, <3>2, <3>4, NewHas
      <4> QED BY <1>7, <2>1, <4>1 DEF IsKept, Slot, n
    <3> QED BY <1>6, <3>1, <3>3, <3>4
  <2>2. \A j \in Unread(p)' : j \in Unread(p) \ {i} /\ Msg(p, j)' = Msg(p, j) BY <1>2, <1>3
  <2>3. \A j \in Unread(p)' :
           Msg(p, j)'.dh = t.remote /\ Msg(p, j)'.n < t.nr => IsKept(t, Msg(p, j)')
    BY <2>1, <2>2
  <2> QED BY <2>3 DEF Missing
<1> QED BY <1>8, <1>9, <1>10, <1>11 DEF Own

\* A message of a new chain.
LEMMA TurnedOwn ==
    ASSUME TypeInv, ChainInv, NEW p \in Peer, NEW i \in Posted(p), NEW s \in SessRec, Own(p, s),
           NEW t \in SessRec, TurnedTo(s, Msg(p, i), Fresh(p), t), s \in session[p],
           t.ckRecv = Msg(p, i).chain, CanSkip(s, Msg(p, i).pn),
           posts' = posts, read' = [read EXCEPT ![p] = @ \cup {i}]
    PROVE  Own(p, t)'
<1> DEFINE m == Msg(p, i)
           q == Other(p)
           k == Fresh(p)
<1>1. /\ m \in Sent(q) /\ m.dh \in Mine(q) /\ m.dh \in Key /\ m.n \in Nat /\ m.pn \in Nat
      /\ m.chain \in Root /\ Len(m.chain) >= 2 /\ m.chain # NoChain
      /\ k \in Mine(p) /\ k \in Key /\ q \in Peer /\ Other(q) = p
  BY ReadHeader
<1>2. /\ Unread(p)' = Unread(p) \ {i} /\ \A j \in Index : Msg(p, j)' = Msg(p, j)
      /\ Sent(p)' = Sent(p) /\ Sent(q)' = Sent(q)
  BY <1>1, PostedFacts, StillFacts
<1>3. (\A x \in Sent(p) : x.dh # k) /\ s.dh # k BY FreshFacts
<1>4. Chained(p, s) /\ Keeping(p, s) BY DEF Own
<1>5. TurnedTo(s, m, k, t) /\ t.ckRecv = m.chain /\ CanSkip(s, m.pn) OBVIOUS
<1>6. \A j \in Unread(p) \ {i} :
         j \in Index /\ Msg(p, j).n \in Nat /\ (Msg(p, j).dh = m.dh => Msg(p, j).n # m.n)
  <2> TAKE j \in Unread(p) \ {i}
  <2>1. j \in Posted(p) /\ j # i BY DEF Unread
  <2> QED BY <2>1, NoTwin, ReadHeader, PostedFacts
<1>7. s.nr \in Nat BY DEF SessRec
<1> HIDE DEF m, k
<1>8. /\ t.ckRecv = KdfRk(s.root, s.dh, m.dh) /\ t.root = KdfRk(t.ckRecv, k, m.dh)
      /\ t.ckSend = t.root /\ t.dh = k /\ t.remote = m.dh /\ t.ns = 0 /\ t.pn = s.ns
      /\ t.nr = m.n + 1
      /\ DOMAIN t.skipped =
            (DOMAIN s.skipped \cup New(s.remote, s.nr, m.pn)) \cup New(m.dh, 0, m.n)
      /\ \A e \in DOMAIN t.skipped :
            t.skipped[e] = IF e \in New(m.dh, 0, m.n) THEN t.ckRecv
                           ELSE IF e \in New(s.remote, s.nr, m.pn) THEN s.ckRecv
                           ELSE s.skipped[e]
  BY <1>5 DEF TurnedTo
<1>9. s.root \in Root /\ Len(s.root) >= 2 /\ s.root # NoChain /\ s.dh \in Mine(p)
      /\ s.root = s.ckSend
  BY <1>4, ChainFacts
<1>10. Chained(p, t)'
  <2>1. s.dh \in {p} \X Nat BY <1>9 DEF Mine
  <2>2. Later(p, k, t.ckSend) BY <1>1, <1>3, <1>8, <1>9, <2>1, LaterFacts
  <2>3. Len(t.ckRecv) # 2
    <3>1. s.dh \in Key BY <1>9, MineFacts
    <3>2. Len(t.ckRecv) = Len(s.root) + 1 /\ Len(s.root) \in Nat
      BY <1>1, <1>8, <1>9, <3>1, KdfFacts
    <3> QED BY <1>9, <3>2
  <2>4. m.n + 1 <= m.n + 1 BY <1>1
  <2>5. \E x \in Sent(q) : x.dh = t.remote /\ x.chain = t.ckRecv /\ t.nr <= x.n + 1
    BY <1>1, <1>5, <1>8, <2>4
  <2>6. Answering(p, t)' BY <1>2, <1>8, <2>2, <2>3, <2>5 DEF Answering
  <2> QED BY <1>1, <1>8, <2>6 DEF Chained
<1>11. Ahead(p, t)' BY <1>2, <1>3, <1>8 DEF Ahead
<1>12. Keeping(p, t)'
  <2>1. ASSUME NEW e \in DOMAIN t.skipped
        PROVE  \E x \in Sent(q) : x.dh = e[1] /\ x.chain = t.skipped[e]
    <3>1. CASE e \in New(m.dh, 0, m.n)
      <4>1. e[1] = m.dh BY <1>1, <3>1, NewOnly
      <4> QED BY <1>1, <1>5, <1>8, <3>1, <4>1
    <3>2. CASE e \notin New(m.dh, 0, m.n) /\ e \in New(s.remote, s.nr, m.pn)
      <4>1. e[1] = s.remote /\ s.nr < m.pn BY <1>1, <1>7, <3>2, NewOnly
      <4>2. s.ckRecv # NoChain BY <1>1, <1>5, <1>7, <4>1 DEF CanSkip
      <4>3. Answering(p, s) BY <1>4, <4>2 DEF Chained, Begun
      <4>4. PICK x \in Sent(q) : x.dh = s.remote /\ x.chain = s.ckRecv BY <4>3 DEF Answering
      <4> QED BY <1>8, <3>2, <4>1, <4>4
    <3>3. CASE e \notin New(m.dh, 0, m.n) /\ e \notin New(s.remote, s.nr, m.pn)
      <4>1. e \in DOMAIN s.skipped /\ t.skipped[e] = s.skipped[e] BY <1>8, <3>3
      <4> QED BY <1>4, <4>1 DEF Keeping
    <3> QED BY <3>1, <3>2, <3>3
  <2> QED BY <1>2, <2>1 DEF Keeping
<1>13. Missing(p, t)'
  <2>1. ASSUME NEW j \in Unread(p) \ {i}, Msg(p, j).dh = t.remote, Msg(p, j).n < t.nr
        PROVE  IsKept(t, Msg(p, j))
    <3> DEFINE n == Msg(p, j).n
    <3>1. n \in Nat /\ n # m.n /\ n < m.n + 1 BY <1>6, <1>8, <2>1
    <3> HIDE DEF n
    <3>2. 0 <= n /\ n < m.n BY <1>1, <3>1
    <3>3. <<m.dh, n>> \in New(m.dh, 0, m.n) BY <1>1, <3>1, <3>2, NewHas
    <3> QED BY <1>8, <2>1, <3>3 DEF IsKept, Slot, n
  <2>2. \A j \in Unread(p)' : j \in Unread(p) \ {i} /\ Msg(p, j)' = Msg(p, j) BY <1>2, <1>6
  <2>3. \A j \in Unread(p)' :
           Msg(p, j)'.dh = t.remote /\ Msg(p, j)'.n < t.nr => IsKept(t, Msg(p, j)')
    BY <2>1, <2>2
  <2> QED BY <2>3 DEF Missing
<1> QED BY <1>10, <1>11, <1>12, <1>13 DEF Own

LEMMA ResultOwn ==
    ASSUME TypeInv, ChainInv, NEW p \in Peer, NEW i \in Posted(p), NEW t \in Result(p, i),
           posts' = posts, read' = [read EXCEPT ![p] = @ \cup {i}]
    PROVE  t \in SessRec /\ Own(p, t)'
<1>1. t \in SessRec BY ResultFacts
<1>2. CASE StartedAt(p, Msg(p, i), Fresh(p), t) BY <1>1, <1>2, StartedOwn
<1>3. ASSUME NEW s \in session[p], ReadOn(s, Msg(p, i), Fresh(p), t) PROVE Own(p, t)'
  <2>1. s \in SessRec /\ Own(p, s) BY OutgoingFacts DEF ChainInv
  <2> DEFINE m == Msg(p, i)
             k == Fresh(p)
  <2>2. CASE IsKept(s, m) /\ TookKept(s, m, t) BY <1>1, <2>1, <2>2, KeptOwn
  <2>3. CASE m.dh = s.remote /\ Advanced(s, m, t) /\ s.ckRecv = m.chain /\ m.n >= s.nr
    BY <1>1, <2>1, <2>3, AdvancedOwn
  <2>4. CASE TurnedTo(s, m, k, t) /\ t.ckRecv = m.chain /\ CanSkip(s, m.pn)
    BY <1>1, <2>1, <2>4, TurnedOwn
  <2> HIDE DEF m, k
  <2>5. ReadOn(s, m, k, t) BY <1>3 DEF m, k
  <2> QED BY <2>2, <2>3, <2>4, <2>5 DEF ReadOn
<1> QED BY <1>1, <1>2, <1>3, ResultFacts

LEMMA FormedStill ==
    ASSUME posts' = posts, NEW x \in Peer, Formed(x), Apart(x)
    PROVE  Formed(x)' /\ Apart(x)'
<1>1. Sent(x)' = Sent(x) BY DEF Sent
<1>2. Formed(x)' BY <1>1 DEF Formed
<1> QED BY <1>2, ApartStill

LEMMA OwnStill ==
    ASSUME TypeInv, posts' = posts, NEW x \in Peer, NEW u, Own(x, u), Unread(x)' = Unread(x)
    PROVE  Own(x, u)'
<1>1. Sent(x)' = Sent(x) /\ Sent(Other(x))' = Sent(Other(x)) /\ \A j : Msg(x, j)' = Msg(x, j)
  BY DEF Sent, Msg
<1>2. Chained(x, u) /\ Ahead(x, u) /\ Keeping(x, u) /\ Missing(x, u) BY DEF Own
<1>3. Chained(x, u)'
  <2>1. CASE Begun(x, u) BY <1>2, <2>1 DEF Chained, Begun
  <2>2. CASE Answering(x, u) BY <1>1, <1>2, <2>2 DEF Chained, Answering
  <2> QED BY <1>2, <2>1, <2>2 DEF Chained
<1>4. Ahead(x, u)' BY <1>1, <1>2 DEF Ahead
<1>5. Keeping(x, u)' BY <1>1, <1>2 DEF Keeping
<1>6. Missing(x, u)' BY <1>1, <1>2 DEF Missing
<1> QED BY <1>3, <1>4, <1>5, <1>6 DEF Own

\* A message that is not posted takes its place in the chain all the same.
LEMMA DroppedOwn ==
    ASSUME TypeInv, ChainInv, NEW p \in Peer, NEW s \in SessRec, Own(p, s),
           posts' = posts, read' = read
    PROVE  Own(p, Encrypted(s))'
<1> DEFINE t == Encrypted(s)
<1>1. /\ t.root = s.root /\ t.dh = s.dh /\ t.remote = s.remote /\ t.ckSend = s.ckSend
      /\ t.ckRecv = s.ckRecv /\ t.ns = s.ns + 1 /\ t.nr = s.nr /\ t.pn = s.pn
      /\ t.skipped = s.skipped /\ s.ns \in Nat
  BY EncryptedFacts DEF SessRec
<1> HIDE DEF t
<1>2. Chained(p, s) /\ Ahead(p, s) /\ Keeping(p, s) /\ Missing(p, s) BY DEF Own
<1>3. Chained(p, t)
  <2>1. CASE Begun(p, s) BY <1>1, <1>2, <2>1 DEF Chained, Begun
  <2>2. CASE Answering(p, s) BY <1>1, <1>2, <2>2 DEF Chained, Answering
  <2> QED BY <1>2, <2>1, <2>2 DEF Chained
<1>4. Ahead(p, t)
  <2>1. \A x \in Sent(p) : x.n \in Nat BY SentFacts
  <2>2. \A x \in Sent(p) : x.n < s.ns => x.n < s.ns + 1 BY <1>1, <2>1
  <2> QED BY <1>1, <1>2, <2>2 DEF Ahead
<1>5. Keeping(p, t) BY <1>1, <1>2 DEF Keeping
<1>6. Missing(p, t)
  <2>1. \A m : IsKept(t, m) = IsKept(s, m) BY <1>1 DEF IsKept
  <2> QED BY <1>1, <1>2, <2>1 DEF Missing
<1>7. Own(p, t) BY <1>3, <1>4, <1>5, <1>6 DEF Own
<1>8. Unread(p)' = Unread(p) BY DEF Unread, Posted
<1>9. \A u : Own(p, u) => Own(p, u)' BY <1>8, OwnStill
<1>10. Own(p, t) => Own(p, Encrypted(s))'
  <2>1. PICK u : u = Encrypted(s) OBVIOUS
  <2>2. Own(p, u) BY <1>7, <2>1 DEF t
  <2> QED BY <1>9, <2>1, <2>2
<1> QED BY <1>7, <1>10

\* How the sessions and the messages of a step are related to those before it.
Sends(p) ==
    /\ session' = [session EXCEPT ![p] = {Encrypted(Outgoing(p))}] /\ read' = read
    /\ posts' = posts \/ posts' = [posts EXCEPT ![p] = Append(@, Header(Outgoing(p)))]
    /\ calm' = (calm /\ (session[p] = {} => session[Other(p)] = {}))
Reads(p, i) ==
    /\ i \in Posted(p) /\ posts' = posts /\ read' = [read EXCEPT ![p] = @ \cup {i}]
    /\ \E t \in Result(p, i) : session' = [session EXCEPT ![p] = {t}]
    /\ calm' = (calm /\ i \notin read[p])
Drops(p, i) ==
    /\ i \in Posted(p) /\ Result(p, i) = {} /\ Broken(p, i)
    /\ session' = [session EXCEPT ![p] = {}] /\ UNCHANGED <<posts, read>>
    /\ calm' = (calm /\ i \notin read[p])
Loses(p) ==
    session' = [session EXCEPT ![p] = {}] /\ UNCHANGED <<posts, read>> /\ calm' = FALSE
Stays == UNCHANGED <<session, posts, read>> /\ (calm' => calm)

LEMMA StepKinds ==
    ASSUME TypeInv, [Next]_vars
    PROVE  \/ \E p \in Peer : Sends(p) \/ Loses(p) \/ \E i \in Index : Reads(p, i) \/ Drops(p, i)
           \/ Stays
<1>1. CASE UNCHANGED vars BY <1>1 DEF vars, client, Stays
<1>2. ASSUME NEW p \in Peer, Send(p) PROVE Sends(p) BY <1>2, SendFacts DEF Sends
<1>3. ASSUME NEW p \in Peer, LoseStorage(p) PROVE Loses(p) BY <1>3 DEF LoseStorage, Loses
<1>4. ASSUME NEW p \in Peer, Restart(p) PROVE Stays BY <1>4 DEF Restart, Stays
<1>5. ASSUME NEW p \in Peer, NEW c \in Course, NEW e \in Id, Await(p, c, e) PROVE Stays
  BY <1>5 DEF Await, Stays
<1>8. ASSUME NEW p \in Peer, Repost(p) PROVE Stays BY <1>8 DEF Repost, client, Stays
<1>6. ASSUME NEW p \in Peer, NEW e \in Id, Open(p, e)
      PROVE  (\E i \in Index : Reads(p, i) \/ Drops(p, i)) \/ Stays
  <2> PICK i : i = MessageOf(e) OBVIOUS
  <2>0. i \in Index BY IdFacts
  <2>1. /\ i \in Posted(p) /\ posts' = posts
        /\ calm' = (calm /\ (i \in read[p] => session' = session))
    BY <1>6, OpenFacts
  <2>2. \/ \E t \in Result(p, i) : /\ session' = [session EXCEPT ![p] = {t}]
                                   /\ read' = [read EXCEPT ![p] = @ \cup {i}]
        \/ /\ Result(p, i) = {} /\ Broken(p, i)
           /\ session' = [session EXCEPT ![p] = {}] /\ read' = read
        \/ session' = session /\ read' = read
    BY <1>6, OpenFacts
  <2>3. CASE i \in read[p] /\ session' = session
    <3>1. read \in [Peer -> SUBSET Index] BY DEF TypeInv, Typed
    <3>2. [read EXCEPT ![p] = @ \cup {i}] = read BY <2>3, <3>1
    <3> QED BY <2>1, <2>2, <2>3, <3>2 DEF Stays
  <2>4. CASE ~(i \in read[p] /\ session' = session)
    <3>1. CASE session' = session /\ read' = read BY <2>1, <3>1 DEF Stays
    <3>2. CASE ~(session' = session /\ read' = read)
      <4>1. calm \in BOOLEAN BY DEF TypeInv, Typed
      <4>2. calm' = (calm /\ i \notin read[p])
        <5>1. CASE i \notin read[p] BY <2>1, <5>1
        <5>2. CASE i \in read[p] BY <2>1, <2>4, <5>2
        <5> QED BY <5>1, <5>2
      <4> QED BY <2>0, <2>1, <2>2, <3>2, <4>2 DEF Reads, Drops
    <3> QED BY <3>1, <3>2
  <2> QED BY <2>3, <2>4
<1>7. CASE Next BY <1>2, <1>3, <1>4, <1>5, <1>6, <1>7, <1>8 DEF Next
<1> QED BY <1>1, <1>7

LEMMA ChainStep ==
    ASSUME TypeInv, ChainInv, [Next]_vars
    PROVE  ChainInv'
<1>1. session \in [Peer -> SUBSET SessRec] BY DEF TypeInv, Typed
<1>2. \A x \in Peer : Formed(x) /\ Apart(x) /\ \A u \in session[x] : Own(x, u) BY DEF ChainInv
<1>3. ASSUME NEW p \in Peer, Sends(p) PROVE ChainInv'
  <2> DEFINE s == Outgoing(p)
             q == Other(p)
  <2>1. s \in SessRec /\ Own(p, s) BY OutgoingFacts, OutgoingOwn
  <2>2. session'[p] = {Encrypted(s)} /\ \A x \in Peer \ {p} : session'[x] = session[x]
    BY <1>1, <1>3 DEF Sends
  <2>3. read' = read /\ (posts' = posts \/ posts' = [posts EXCEPT ![p] = Append(@, Header(s))])
    BY <1>3 DEF Sends
  <2>4. q \in Peer /\ q # p /\ \A x \in Peer : x = p \/ x = q BY OtherFacts
  <2> PICK v : v = s OBVIOUS
  <2>5. v \in SessRec /\ Own(p, v) /\ session'[p] = {Encrypted(v)} BY <2>1, <2>2
  <2>6. CASE posts' = posts
    <3>1. Own(p, Encrypted(v))' BY <2>3, <2>5, <2>6, DroppedOwn
    <3>2. \A x \in Peer : Unread(x)' = Unread(x) BY <2>3, <2>6 DEF Unread, Posted
    <3>3. \A u \in session[q] : Own(q, u)' BY <1>2, <2>4, <2>6, <3>2, OwnStill
    <3>4. \A x \in Peer : Formed(x)' /\ Apart(x)' BY <1>2, <2>6, FormedStill
    <3>5. \A x \in Peer : \A u \in session'[x] : Own(x, u)'
      <4> TAKE x \in Peer
      <4>1. CASE x = p BY <2>5, <3>1, <4>1
      <4>2. CASE x = q /\ x # p BY <2>2, <3>3, <4>2
      <4> QED BY <2>4, <4>1, <4>2
    <3> QED BY <3>4, <3>5 DEF ChainInv
  <2>7. CASE posts' = [posts EXCEPT ![p] = Append(@, Header(v))]
    <3>1. Formed(p)' /\ Apart(p)' /\ Own(p, Encrypted(v))' BY <2>3, <2>5, <2>7, SenderOwn
    <3>2. Formed(q)' /\ Apart(q)' /\ \A u \in session[q] : Own(q, u)'
      BY <2>3, <2>5, <2>7, ReceiverOwn
    <3>3. \A x \in Peer : Formed(x)' /\ Apart(x)' /\ \A u \in session'[x] : Own(x, u)'
      <4> TAKE x \in Peer
      <4>1. CASE x = p BY <2>5, <3>1, <4>1
      <4>2. CASE x = q /\ x # p BY <2>2, <3>2, <4>2
      <4> QED BY <2>4, <4>1, <4>2
    <3> QED BY <3>3 DEF ChainInv
  <2> QED BY <2>3, <2>6, <2>7
<1>4. ASSUME NEW p \in Peer, NEW i \in Index, Reads(p, i) PROVE ChainInv'
  <2>1. i \in Posted(p) /\ posts' = posts /\ read' = [read EXCEPT ![p] = @ \cup {i}]
    BY <1>4 DEF Reads
  <2>2. PICK t \in Result(p, i) : session' = [session EXCEPT ![p] = {t}] BY <1>4 DEF Reads
  <2>3. t \in SessRec /\ Own(p, t)' BY <2>1, ResultOwn
  <2>4. session'[p] = {t} /\ \A x \in Peer \ {p} : session'[x] = session[x] BY <1>1, <2>2
  <2>5. \A x \in Peer \ {p} : Unread(x)' = Unread(x) BY <2>1, StillFacts
  <2>6. \A x \in Peer : Formed(x)' /\ Apart(x)' BY <1>2, <2>1, FormedStill
  <2>7. \A x \in Peer \ {p} : \A u \in session[x] : Own(x, u)' BY <1>2, <2>1, <2>5, OwnStill
  <2>8. \A x \in Peer : \A u \in session'[x] : Own(x, u)' BY <2>3, <2>4, <2>7
  <2> QED BY <2>6, <2>8 DEF ChainInv
<1>5. ASSUME UNCHANGED <<posts, read>>, \A x \in Peer : session'[x] \subseteq session[x]
      PROVE  ChainInv'
  <2>1. \A x \in Peer : Unread(x)' = Unread(x) BY <1>5 DEF Unread, Posted
  <2>2. \A x \in Peer : \A u \in session[x] : Own(x, u)' BY <1>2, <1>5, <2>1, OwnStill
  <2>3. \A x \in Peer : Formed(x)' /\ Apart(x)' BY <1>2, <1>5, FormedStill
  <2> QED BY <1>5, <2>2, <2>3 DEF ChainInv
<1>6. ASSUME NEW p \in Peer, session' = [session EXCEPT ![p] = {}], UNCHANGED <<posts, read>>
      PROVE  ChainInv'
  <2>1. \A x \in Peer : session'[x] \subseteq session[x] BY <1>1, <1>6
  <2> QED BY <1>5, <1>6, <2>1
<1>7. ASSUME NEW p \in Peer, NEW i \in Index, Drops(p, i) PROVE ChainInv'
  BY <1>6, <1>7 DEF Drops
<1>8. ASSUME NEW p \in Peer, Loses(p) PROVE ChainInv' BY <1>6, <1>8 DEF Loses
<1>9. CASE Stays BY <1>5, <1>9 DEF Stays
<1> QED BY <1>3, <1>4, <1>7, <1>8, <1>9, StepKinds

LEMMA ChainInit == ASSUME Init PROVE ChainInv
<1>1. \A p \in Peer : session[p] = {} /\ posts[p] = <<>> BY DEF Init
<1>2. DOMAIN <<>> = {} OBVIOUS
<1>3. \A p \in Peer : Sent(p) = {} BY <1>1, <1>2 DEF Sent
<1>4. \A p \in Peer : Formed(p) BY <1>3 DEF Formed
<1>5. \A p \in Peer : Apart(p) BY <1>1, <1>2 DEF Apart
<1> QED BY <1>1, <1>4, <1>5 DEF ChainInv

LEMMA ChainAlways == Spec => []ChainInv /\ []TypeInv
<1>1. Init => TypeInv /\ ChainInv BY TypeInit, ChainInit
<1>2. TypeInv /\ ChainInv /\ [Next]_vars => TypeInv' /\ ChainInv' BY TypeStep, ChainStep
<1> QED BY <1>1, <1>2, PTL DEF Spec

\* Two results of Diffie-Hellman between the peers are equal only if the keys are.
LEMMA Sides ==
    ASSUME NEW p, NEW q, p # q,
           NEW a \in {p} \X Nat, NEW b \in {q} \X Nat, NEW c \in {p} \X Nat, NEW d \in {q} \X Nat,
           Dh(a, b) = Dh(c, d)
    PROVE  a = c /\ b = d
<1>1. a # d /\ c # b OBVIOUS
<1> HIDE DEF Dh
<1>2. a \in Dh(c, d) /\ c \in Dh(a, b) /\ b \in Dh(c, d) BY DEF Dh
<1> QED BY <1>1, <1>2 DEF Dh

LEMMA Ends ==
    ASSUME NEW p \in Peer, NEW k \in Mine(p), NEW c,
           c = First(p, k) \/ Later(p, k, c)
    PROVE  Len(c) \in Nat /\ \E h \in {Other(p)} \X Nat : c[Len(c)] = Dh(k, h)
<1>1. CASE c = First(p, k)
  <2>1. Len(c) = 2 /\ c[2] = Dh(k, Identity(Other(p))) BY <1>1, FirstFacts
  <2>2. Identity(Other(p)) \in {Other(p)} \X Nat BY DEF Identity
  <2> QED BY <2>1, <2>2
<1>2. CASE Later(p, k, c)
  <2>1. c \in Root BY <1>2 DEF Later
  <2>2. Len(c) \in Nat BY <2>1 DEF Root
  <2>3. PICK h \in Mine(Other(p)) : c[Len(c)] = Dh(k, h) BY <1>2 DEF Later
  <2>4. h \in {Other(p)} \X Nat BY DEF Mine
  <2> QED BY <2>2, <2>3, <2>4
<1> QED BY <1>1, <1>2

\* Chains of different ratchet keys are different.
LEMMA OneKeyOneChain ==
    ASSUME NEW p \in Peer, NEW k \in Mine(p), NEW l \in Mine(p), NEW c,
           c = First(p, k) \/ Later(p, k, c), c = First(p, l) \/ Later(p, l, c)
    PROVE  k = l
<1>1. Other(p) # p BY OtherFacts
<1>2. PICK h \in {Other(p)} \X Nat : c[Len(c)] = Dh(k, h) BY Ends
<1>3. PICK g \in {Other(p)} \X Nat : c[Len(c)] = Dh(l, g) BY Ends
<1>4. k \in {p} \X Nat /\ l \in {p} \X Nat BY DEF Mine
<1>5. Dh(k, h) = Dh(l, g) BY <1>2, <1>3
<1> QED BY <1>1, <1>4, <1>5, Sides

\* No chain is used in both directions.
LEMMA OneWay ==
    ASSUME NEW p \in Peer, NEW q, q = Other(p), NEW k \in Mine(p), NEW l \in Mine(q), NEW c,
           c = First(p, k) \/ Later(p, k, c), c = First(q, l) \/ Later(q, l, c)
    PROVE  FALSE
<1>1. q \in Peer /\ q # p /\ Other(q) = p BY OtherFacts
<1>2. k \in {p} \X Nat /\ k # Identity(p) /\ k # Identity(q)
      /\ l \in {q} \X Nat /\ l # Identity(p) /\ l # Identity(q)
  BY <1>1, MineFacts DEF Mine
<1>3. Identity(p) \in {p} \X Nat /\ Identity(q) \in {q} \X Nat BY DEF Identity
<1>4. CASE c = First(p, k) /\ c = First(q, l)
  <2>1. c[2] = Dh(k, Identity(q)) /\ c[2] = Dh(l, Identity(p)) BY <1>1, <1>4, FirstFacts
  <2>2. Dh(k, Identity(q)) = Dh(Identity(p), l) BY <2>1, DhFlip
  <2> QED BY <1>1, <1>2, <1>3, <2>2, Sides
<1>5. CASE c = First(p, k) /\ Later(q, l, c)
  <2>1. Len(c) = 2 /\ Len(c) >= 3 BY <1>5, FirstFacts DEF Later
  <2> QED BY <2>1
<1>6. CASE Later(p, k, c) /\ c = First(q, l)
  <2>1. Len(c) = 2 /\ Len(c) >= 3 BY <1>1, <1>6, FirstFacts DEF Later
  <2> QED BY <2>1
<1>7. CASE Later(p, k, c) /\ Later(q, l, c)
  <2>1. PICK y \in {p} \X Nat, h \in Mine(q) :
           y # k /\ c[Len(c) - 1] = Dh(y, h) /\ c[Len(c)] = Dh(k, h)
    BY <1>7 DEF Later
  <2>2. PICK z \in {q} \X Nat, g \in Mine(p) :
           z # l /\ c[Len(c) - 1] = Dh(z, g) /\ c[Len(c)] = Dh(l, g)
    BY <1>1, <1>7 DEF Later
  <2>3. h \in {q} \X Nat /\ g \in {p} \X Nat BY DEF Mine
  <2>4. Dh(k, h) = Dh(g, l) /\ Dh(y, h) = Dh(g, z) BY <2>1, <2>2, DhFlip
  <2>5. k = g BY <1>1, <1>2, <2>3, <2>4, Sides
  <2>6. y = g BY <1>1, <2>3, <2>4, Sides
  <2> QED BY <2>1, <2>5, <2>6
<1> QED BY <1>4, <1>5, <1>6, <1>7

\* "message keys are burned as the chain advances" (client/crypto/double_ratchet.py): whatever
\* is lost, repeated, healed or started twice, no two messages, of one peer or of both, are
\* sealed with the same key of the same chain.
THEOREM NoKeyTwice == Spec => []KeysUsedOnce
<1>1. TypeInv /\ ChainInv => KeysUsedOnce
  <2> SUFFICES ASSUME TypeInv, ChainInv, NEW p \in Peer, NEW q \in Peer,
                      NEW i \in DOMAIN posts[p], NEW j \in DOMAIN posts[q], <<p, i>> # <<q, j>>,
                      posts[p][i].chain = posts[q][j].chain, posts[p][i].n = posts[q][j].n
               PROVE  FALSE
    BY DEF KeysUsedOnce
  <2> DEFINE x == posts[p][i]
             y == posts[q][j]
             c == posts[p][i].chain
  <2>1. x \in Sent(p) /\ y \in Sent(q) BY DEF Sent
  <2>2. x.dh \in Mine(p) /\ (c = First(p, x.dh) \/ Later(p, x.dh, c)) BY <2>1, SentFacts
  <2>3. y.dh \in Mine(q) /\ (c = First(q, y.dh) \/ Later(q, y.dh, c)) BY <2>1, SentFacts
  <2>4. CASE p = q
    <3>1. i # j BY <2>4
    <3>2. x.dh = y.dh
      <4> HIDE DEF x, y, c
      <4> QED BY <2>2, <2>3, <2>4, OneKeyOneChain
    <3> QED BY <2>4, <3>1, <3>2 DEF ChainInv, Apart
  <2>5. CASE p # q
    <3>1. q = Other(p) BY <2>5, OtherFacts
    <3> HIDE DEF x, y, c
    <3> QED BY <2>2, <2>3, <3>1, OneWay
  <2> QED BY <2>4, <2>5
<1> QED BY <1>1, ChainAlways, PTL

-----------------------------------------------------------------------------
(* Reading.                                                                 *)

LEMMA Unposted ==
    ASSUME TypeInv, NEW p \in Peer, NEW i \in Unread(p)
    PROVE  i \in Posted(p) /\ i \in Index
BY PostedFacts DEF Unread

\* A key that was kept is the key of the message.
LEMMA KeptRight ==
    ASSUME TypeInv, ChainInv, NEW p \in Peer, NEW i \in Posted(p), NEW s, Own(p, s),
           IsKept(s, Msg(p, i))
    PROVE  s.skipped[Slot(Msg(p, i))] = Msg(p, i).chain
<1> DEFINE m == Msg(p, i)
<1>1. PICK x \in Sent(Other(p)) : x.dh = Slot(m)[1] /\ x.chain = s.skipped[Slot(m)]
  BY DEF Own, Keeping, IsKept
<1>2. PICK j \in Posted(p) : x = Msg(p, j) BY <1>1, PostedFacts
<1>3. Msg(p, j).dh = m.dh BY <1>1, <1>2 DEF Slot
<1>4. Msg(p, j).chain = m.chain BY <1>3, NoTwin
<1> QED BY <1>1, <1>2, <1>4

\* The receiving chain is the chain of the messages that bear its ratchet key.
LEMMA SameRight ==
    ASSUME TypeInv, ChainInv, NEW p \in Peer, NEW i \in Posted(p), NEW s, Own(p, s),
           Msg(p, i).dh = s.remote
    PROVE  s.ckRecv = Msg(p, i).chain /\ s.ckRecv # NoChain
<1> DEFINE m == Msg(p, i)
<1>1. m.dh # Identity(Other(p)) /\ m.chain # NoChain BY ReadHeader
<1>2. Answering(p, s) BY <1>1 DEF Own, Chained, Begun
<1>3. PICK x \in Sent(Other(p)) : x.dh = s.remote /\ x.chain = s.ckRecv BY <1>2 DEF Answering
<1>4. PICK j \in Posted(p) : x = Msg(p, j) BY <1>3, PostedFacts
<1>5. Msg(p, j).chain = m.chain BY <1>3, <1>4, NoTwin
<1> QED BY <1>1, <1>3, <1>4, <1>5

\* An unread message that was kept, or is of the receiving chain and near, is opened.
LEMMA SameOpens ==
    ASSUME TypeInv, ChainInv, NEW p \in Peer, NEW i \in Unread(p), NEW s \in SessRec, Own(p, s),
           NEW k, IsKept(s, Msg(p, i)) \/ (Msg(p, i).dh = s.remote /\ Msg(p, i).n <= MaxSkip)
    PROVE  Opens(s, Msg(p, i), k)
<1> DEFINE m == Msg(p, i)
<1>1. i \in Posted(p) BY Unposted
<1>2. CASE IsKept(s, m)
  <2>1. Derives(s, m, k) BY <1>2 DEF Derives
  <2>2. Derived(s, m, k) = m.chain BY <1>1, <1>2, KeptRight DEF Derived
  <2> QED BY <2>1, <2>2 DEF Opens
<1>3. CASE ~IsKept(s, m) /\ m.dh = s.remote /\ m.n <= MaxSkip
  <2>1. s.ckRecv = m.chain /\ s.ckRecv # NoChain BY <1>1, <1>3, SameRight
  <2>2. ~(m.n < s.nr) BY <1>3 DEF Own, Missing
  <2>3. m.n \in Nat /\ s.nr \in Nat /\ MaxSkip \in Nat
    BY <1>1, ReadHeader, DoubleRatchetAssumption DEF SessRec, DoubleRatchetAssumption
  <2>4. Turned(s, m, k) = s BY <1>3 DEF Turned
  <2> HIDE DEF m
  <2>5. m.n >= s.nr /\ m.n <= s.nr + MaxSkip BY <1>3, <2>2, <2>3
  <2>6. CanSkip(s, m.n) BY <2>1, <2>5 DEF CanSkip
  <2>7. Derives(s, m, k) BY <1>3, <2>1, <2>4, <2>5, <2>6 DEF Derives
  <2>8. Derived(s, m, k) = m.chain BY <1>3, <2>1, <2>4 DEF Derived
  <2>9. Opens(s, m, k) BY <2>7, <2>8 DEF Opens
  <2> QED BY <2>9 DEF m
<1> QED BY <1>2, <1>3

\* A message of a new chain leads to a key when the rest of the old chain can be skipped.
LEMMA TurnDerives ==
    ASSUME NEW s \in SessRec, NEW m \in HeaderRec, NEW k \in Key, ~IsKept(s, m), m.dh # s.remote
    PROVE  /\ Derived(s, m, k) = KdfRk(s.root, s.dh, m.dh)
           /\ CanSkip(s, m.pn) /\ m.n <= MaxSkip => Derives(s, m, k)
<1> DEFINE u == Turn(s, m, k)
           c == KdfRk(s.root, s.dh, m.dh)
<1>1. u.ckRecv = c /\ u.nr = 0 BY TurnFields
<1>2. c # NoChain
  <2>1. s.root \in Root /\ s.dh \in Key /\ m.dh \in Key BY DEF SessRec, HeaderRec
  <2> QED BY <2>1, KdfFacts
<1>3. Turned(s, m, k) = u BY DEF Turned
<1>4. m.n \in Nat /\ MaxSkip \in Nat
  BY DoubleRatchetAssumption DEF HeaderRec, DoubleRatchetAssumption
<1> HIDE DEF u, c
<1>5. Derived(s, m, k) = c BY <1>1, <1>3 DEF Derived
<1>6. ASSUME CanSkip(s, m.pn), m.n <= MaxSkip PROVE Derives(s, m, k)
  <2>1. m.n >= u.nr /\ m.n <= u.nr + MaxSkip BY <1>1, <1>4, <1>6
  <2>2. CanSkip(u, m.n) BY <1>1, <1>2, <2>1 DEF CanSkip
  <2> QED BY <1>1, <1>2, <1>3, <1>6, <2>1, <2>2 DEF Derives
<1> QED BY <1>5, <1>6 DEF c

\* A message that the session opens is read; so is one that leads to no other result.
LEMMA OpensReads ==
    ASSUME TypeInv, NEW p \in Peer, NEW i \in Posted(p), NEW s \in session[p],
           Opens(s, Msg(p, i), Fresh(p))
    PROVE  Readable(p, i)
<1>1. session[p] = {s} BY OutgoingFacts
<1>2. ~Broken(p, i) BY <1>1 DEF Broken, Opens, Diverges
<1>3. Result(p, i) = Continued(p, i) BY <1>1, <1>2 DEF Result
<1>4. Decrypted(s, Msg(p, i), Fresh(p)) \in Continued(p, i) BY DEF Continued
<1> QED BY <1>3, <1>4 DEF Readable

\* A near message of a first chain can be started from.
LEMMA FirstStarts ==
    ASSUME TypeInv, ChainInv, NEW p \in Peer, NEW i \in Posted(p),
           Msg(p, i).chain = First(Other(p), Msg(p, i).dh), Msg(p, i).n <= MaxSkip
    PROVE  Started(p, i) # {}
<1> DEFINE m == Msg(p, i)
           q == Other(p)
           k == Fresh(p)
           b == InitBob(p, q, m.dh, k)
           c == KdfRk(SharedSecret(p, q), Identity(p), m.dh)
<1>1. /\ m \in HeaderRec /\ m.dh \in Mine(q) /\ m.dh \in Key /\ m.n \in Nat /\ m.chain # NoChain
      /\ k \in Key /\ q \in Peer /\ Other(q) = p
  BY ReadHeader
<1>2. m.chain = c
  <2>1. m.chain = First(q, m.dh) OBVIOUS
  <2> HIDE DEF m, q
  <2>2. First(q, m.dh) = KdfRk(SharedSecret(Other(q), q), Identity(Other(q)), m.dh)
    BY <1>1, FirstFacts
  <2> QED BY <1>1, <2>1, <2>2
<1>3. b.remote = m.dh /\ b.ckRecv = c /\ b.nr = 0 /\ DOMAIN b.skipped = {}
  BY <1>1, BobFields
<1>4. m.n <= MaxSkip /\ MaxSkip \in Nat
  BY DoubleRatchetAssumption DEF DoubleRatchetAssumption
<1>5. Opens(b, m, k) => Started(p, i) # {} BY DEF Started
<1> HIDE DEF m, q, k, b, c
<1>6. ~IsKept(b, m) /\ Turned(b, m, k) = b BY <1>3 DEF IsKept, Turned
<1>7. m.n >= b.nr /\ m.n <= b.nr + MaxSkip BY <1>1, <1>3, <1>4
<1>8. CanSkip(b, m.n) BY <1>1, <1>2, <1>3, <1>7 DEF CanSkip
<1>9. Derives(b, m, k) BY <1>1, <1>2, <1>3, <1>6, <1>7, <1>8 DEF Derives
<1>10. Derived(b, m, k) = m.chain BY <1>2, <1>3, <1>6 DEF Derived
<1> QED BY <1>5, <1>9, <1>10 DEF Opens

LEMMA FirstReadable ==
    ASSUME TypeInv, ChainInv, NEW p \in Peer, NEW i \in Unread(p),
           Len(Msg(p, i).chain) = 2, Near(Msg(p, i))
    PROVE  Readable(p, i)
<1> DEFINE m == Msg(p, i)
           q == Other(p)
           k == Fresh(p)
<1>1. i \in Posted(p) BY Unposted
<1>2. /\ m \in HeaderRec /\ m \in Sent(q) /\ m.n \in Nat /\ k \in Key /\ q \in Peer
  BY <1>1, ReadHeader
<1>3. m.n <= MaxSkip BY DEF Near
<1>4. Len(m.chain) = 2 OBVIOUS
<1>5. m.chain = First(q, m.dh) /\ m.pn = 0
  <2> HIDE DEF m, q
  <2>1. (m.chain = First(q, m.dh) /\ m.pn = 0) \/ Later(q, m.dh, m.chain) BY <1>2, SentFacts
  <2>2. ~(2 >= 3) OBVIOUS
  <2>3. ~Later(q, m.dh, m.chain) BY <1>4, <2>2 DEF Later
  <2> QED BY <2>1, <2>3
<1>6. CASE session[p] = {} \/ Broken(p, i)
  <2>1. Started(p, i) # {} BY <1>1, <1>3, <1>5, FirstStarts
  <2> QED BY <1>6, <2>1 DEF Readable, Result
<1>7. ASSUME NEW s \in session[p], ~Broken(p, i) PROVE Readable(p, i)
  <2>1. s \in SessRec /\ Own(p, s) BY OutgoingFacts DEF ChainInv
  <2>2. CASE IsKept(s, m) \/ m.dh = s.remote
    <3>1. Opens(s, m, k) BY <1>3, <2>1, <2>2, SameOpens
    <3> QED BY <1>1, <3>1, OpensReads
  <2>3. CASE ~(IsKept(s, m) \/ m.dh = s.remote)
    <3>1. CanSkip(s, m.pn)
      <4>1. s.nr \in Nat BY <2>1 DEF SessRec
      <4>2. 0 <= s.nr BY <4>1
      <4> QED BY <1>5, <4>2 DEF CanSkip
    <3>2. Derives(s, m, k) BY <1>2, <1>3, <2>1, <2>3, <3>1, TurnDerives
    <3>3. ~Diverges(s, m, k) BY <1>7 DEF Broken
    <3>4. Opens(s, m, k) BY <3>2, <3>3 DEF Opens, Diverges
    <3> QED BY <1>1, <3>4, OpensReads
  <2> QED BY <2>2, <2>3
<1> QED BY <1>6, <1>7

\* The other has read the present sending chain: then the turn it makes is the right one.
LEMMA AnswerRight ==
    ASSUME TypeInv, ChainInv, NEW p \in Peer, NEW q, q = Other(p), NEW s \in session[p],
           NEW t \in session[q], s.dh = t.remote, NEW i \in Posted(p), Msg(p, i).dh = t.dh
    PROVE  /\ Msg(p, i).chain = KdfRk(s.root, s.dh, Msg(p, i).dh) /\ Msg(p, i).pn = t.pn
           /\ Len(s.root) = 2 => t.pn = 0
<1> DEFINE m == Msg(p, i)
<1>1. q \in Peer /\ Other(q) = p BY OtherFacts
<1>2. Own(p, s) /\ Own(q, t) BY <1>1 DEF ChainInv
<1>3. Chained(p, s) /\ Ahead(p, s) /\ Chained(q, t) /\ Ahead(q, t) BY <1>2 DEF Own
<1>4. s.dh \in Mine(p) /\ s.root = s.ckSend BY <1>3 DEF Chained
<1>5. s.dh # Identity(p) BY <1>4, MineFacts
<1>6. Answering(q, t) BY <1>1, <1>3, <1>5 DEF Chained, Begun
<1>7. PICK x \in Sent(p) : x.dh = t.remote /\ x.chain = t.ckRecv BY <1>1, <1>6 DEF Answering
<1>8. t.ckRecv = s.root BY <1>3, <1>4, <1>7 DEF Ahead
<1>9. t.ckSend = KdfRk(s.root, t.dh, s.dh) BY <1>6, <1>8 DEF Answering
<1>10. t.ckSend = KdfRk(s.root, s.dh, t.dh) BY <1>9, DhFlip DEF KdfRk
<1>11. m \in Sent(q) BY ReadHeader
<1> HIDE DEF m
<1>12. m.dh = t.dh BY DEF m
<1>13. m.chain = t.ckSend /\ m.pn = t.pn BY <1>3, <1>11, <1>12 DEF Ahead
<1>14. Len(s.root) = 2 => t.pn = 0 BY <1>6, <1>8 DEF Answering
<1> QED BY <1>10, <1>12, <1>13, <1>14 DEF m

LEMMA AnswerReadable ==
    ASSUME TypeInv, ChainInv, NEW p \in Peer, NEW q, q = Other(p), NEW s \in session[p],
           NEW t \in session[q], s.dh = t.remote, NEW i \in Unread(p), Msg(p, i).dh = t.dh,
           Near(Msg(p, i))
    PROVE  Readable(p, i)
<1> DEFINE m == Msg(p, i)
           k == Fresh(p)
<1>1. i \in Posted(p) BY Unposted
<1>2. m \in HeaderRec /\ m.n \in Nat /\ m.pn \in Nat /\ k \in Key BY <1>1, ReadHeader
<1>3. m.n <= MaxSkip /\ m.pn <= MaxSkip BY DEF Near
<1>4. s \in SessRec /\ Own(p, s) BY OutgoingFacts DEF ChainInv
<1>5. CASE IsKept(s, m) \/ m.dh = s.remote
  <2>1. Opens(s, m, k) BY <1>3, <1>4, <1>5, SameOpens
  <2> QED BY <1>1, <2>1, OpensReads
<1>6. CASE ~(IsKept(s, m) \/ m.dh = s.remote)
  <2>1. m.chain = KdfRk(s.root, s.dh, m.dh) /\ m.pn = t.pn /\ (Len(s.root) = 2 => t.pn = 0)
    BY <1>1, AnswerRight
  <2>2. s.nr \in Nat /\ MaxSkip \in Nat
    BY <1>4, DoubleRatchetAssumption DEF SessRec, DoubleRatchetAssumption
  <2>3. Chained(p, s) BY <1>4 DEF Own
  <2>4. CanSkip(s, m.pn)
    <3>1. CASE Begun(p, s)
      <4>1. Len(s.root) = 2 BY <2>3, <3>1, FirstFacts DEF Begun, Chained
      <4>2. m.pn <= s.nr BY <2>1, <2>2, <4>1
      <4> QED BY <4>2 DEF CanSkip
    <3>2. CASE Answering(p, s)
      <4>1. PICK x \in Sent(Other(p)) : x.chain = s.ckRecv BY <3>2 DEF Answering
      <4>2. s.ckRecv # NoChain BY <4>1, OtherFacts, SentFacts
      <4>3. m.pn <= s.nr + MaxSkip BY <1>2, <1>3, <2>2
      <4> QED BY <4>2, <4>3 DEF CanSkip
    <3> QED BY <2>3, <3>1, <3>2 DEF Chained
  <2>5. Derives(s, m, k) /\ Derived(s, m, k) = KdfRk(s.root, s.dh, m.dh)
    BY <1>2, <1>3, <1>4, <1>6, <2>4, TurnDerives
  <2>6. Opens(s, m, k) BY <2>1, <2>5 DEF Opens
  <2> QED BY <1>1, <2>6, OpensReads
<1> QED BY <1>5, <1>6

\* "recovers from [...] peer state loss" (client/crypto/ratchet_facade.py): in every state the
\* two can get to, the first messages of a new session are readable to the other, and once it
\* has read one of them its answer is readable to the sender.  Storage may have been lost, both
\* may have started, messages may have been repeated.
THEOREM HealsAgain == Spec => []SessionsHeal
<1>1. TypeInv /\ ChainInv => SessionsHeal
  <2> SUFFICES ASSUME TypeInv, ChainInv PROVE SessionsHeal OBVIOUS
  <2>1. FirstMessagesAreReadable BY FirstReadable DEF FirstMessagesAreReadable
  <2>2. AnswerIsReadable BY AnswerReadable DEF AnswerIsReadable
  <2> QED BY <2>1, <2>2 DEF SessionsHeal
<1> QED BY <1>1, ChainAlways, PTL

-----------------------------------------------------------------------------
(* A calm chat.                                                             *)

\* A peer without a session has posted nothing, and the other has read nothing.
Silent(p) ==
    session[p] = {} =>
       /\ posts[p] = <<>>
       /\ \A t \in session[Other(p)] :
             t.ckRecv = NoChain /\ \A x \in Sent(Other(p)) : x.dh = t.dh

\* One of the two has seen the other's present ratchet key, messages of earlier chains are read
\* or kept for, and the chain p is at ended where the other's PN says.
Owed(p, s, t) ==
    \A i \in Unread(p) : Msg(p, i).dh \notin {s.remote, t.dh} => IsKept(s, Msg(p, i))
Ended(p, s, t) ==
    t.remote = s.dh /\ s.remote # t.dh =>
       \A x \in Sent(Other(p)) : x.dh = s.remote => x.n < t.pn
InStep(p, s, t) == (s.remote = t.dh \/ t.remote = s.dh) /\ Owed(p, s, t) /\ Ended(p, s, t)

Settled(p) ==
    Silent(p) /\ \A s \in session[p], t \in session[Other(p)] : InStep(p, s, t)
CalmInv == calm => \A p \in Peer : Settled(p)

\* Whoever has posted has a session.
LEMMA PosterHasSession ==
    ASSUME TypeInv, NEW p \in Peer, NEW i \in Posted(p), Settled(Other(p))
    PROVE  \E t \in session[Other(p)] : session[Other(p)] = {t}
<1>1. Other(p) \in Peer BY OtherFacts
<1>2. Posted(p) = DOMAIN posts[Other(p)] BY PostedFacts
<1>3. DOMAIN <<>> = {} OBVIOUS
<1>4. session[Other(p)] # {} BY <1>2, <1>3 DEF Settled, Silent
<1> QED BY <1>1, <1>4, OutgoingFacts

\* While one has nothing but silence, the other is at its first chain.
LEMMA SilentBegun ==
    ASSUME TypeInv, ChainInv, NEW p \in Peer, Settled(p), session[p] = {},
           NEW t \in session[Other(p)]
    PROVE  /\ Begun(Other(p), t) /\ t.remote = Identity(p) /\ posts[p] = <<>>
           /\ \A x \in Sent(Other(p)) :
                 x.dh = t.dh /\ x.chain = First(Other(p), x.dh) /\ x.pn = 0
<1> DEFINE q == Other(p)
<1>1. q \in Peer /\ Other(q) = p BY OtherFacts
<1>2. t.ckRecv = NoChain /\ posts[p] = <<>> /\ \A x \in Sent(q) : x.dh = t.dh
  BY DEF Settled, Silent
<1>3. Chained(q, t) /\ Ahead(q, t) BY <1>1 DEF ChainInv, Own
<1> HIDE DEF q
<1>4. Begun(q, t)
  <2> SUFFICES ASSUME Answering(q, t) PROVE FALSE BY <1>3 DEF Chained
  <2>1. PICK x \in Sent(p) : x.chain = t.ckRecv BY <1>1 DEF Answering
  <2> QED BY <1>2, <2>1, SentFacts
<1>5. t.remote = Identity(p) /\ t.ckSend = First(q, t.dh) /\ t.pn = 0 BY <1>1, <1>4 DEF Begun
<1>6. \A x \in Sent(q) : x.dh = t.dh /\ x.chain = First(q, x.dh) /\ x.pn = 0
  BY <1>2, <1>3, <1>5 DEF Ahead
<1> QED BY <1>2, <1>4, <1>5, <1>6 DEF q

\* Where a key is derived for an unread message, it is the right one.
LEMMA CalmRight ==
    ASSUME TypeInv, ChainInv, NEW p \in Peer, NEW i \in Unread(p), NEW q, q = Other(p),
           NEW s \in session[p], NEW t \in session[q], InStep(p, s, t), NEW k \in Key
    PROVE  Derived(s, Msg(p, i), k) = Msg(p, i).chain
<1> DEFINE m == Msg(p, i)
<1>1. i \in Posted(p) /\ m \in HeaderRec BY Unposted, ReadHeader
<1>2. s \in SessRec /\ Own(p, s) BY OutgoingFacts DEF ChainInv
<1>3. CASE IsKept(s, m) BY <1>1, <1>2, <1>3, KeptRight DEF Derived
<1>4. CASE ~IsKept(s, m) /\ m.dh = s.remote
  <2>1. s.ckRecv = m.chain BY <1>1, <1>2, <1>4, SameRight
  <2> QED BY <1>4, <2>1 DEF Derived, Turned
<1>5. CASE ~IsKept(s, m) /\ m.dh # s.remote
  <2>1. m.dh = t.dh /\ t.remote = s.dh BY <1>5 DEF InStep, Owed
  <2>2. m.chain = KdfRk(s.root, s.dh, m.dh) BY <1>1, <2>1, AnswerRight
  <2>3. Derived(s, m, k) = KdfRk(s.root, s.dh, m.dh) BY <1>1, <1>2, <1>5, TurnDerives
  <2> QED BY <2>2, <2>3
<1> QED BY <1>3, <1>4, <1>5

LEMMA CalmWhole ==
    ASSUME TypeInv, ChainInv, NEW p \in Peer, NEW i \in Unread(p),
           Settled(p), Settled(Other(p))
    PROVE  ~Broken(p, i)
<1>1. i \in Posted(p) BY Unposted
<1>2. PICK t \in session[Other(p)] : TRUE BY <1>1, PosterHasSession
<1>3. \A s \in session[p] : InStep(p, s, t) BY DEF Settled
<1>4. Fresh(p) \in Key BY FreshFacts
<1>5. \A s \in session[p] : Derived(s, Msg(p, i), Fresh(p)) = Msg(p, i).chain
  BY <1>3, <1>4, CalmRight
<1> QED BY <1>5 DEF Broken, Diverges

LEMMA CalmReadable ==
    ASSUME TypeInv, ChainInv, NEW p \in Peer, NEW i \in Unread(p),
           Settled(p), Settled(Other(p)), Near(Msg(p, i))
    PROVE  Readable(p, i)
<1> DEFINE m == Msg(p, i)
           k == Fresh(p)
<1>1. i \in Posted(p) BY Unposted
<1>2. PICK t \in session[Other(p)] : TRUE BY <1>1, PosterHasSession
<1>3. m \in Sent(Other(p)) /\ m.n <= MaxSkip BY <1>1, ReadHeader DEF Near
<1>4. CASE session[p] = {}
  <2>1. m.chain = First(Other(p), m.dh) BY <1>3, <1>4, SilentBegun
  <2>2. Started(p, i) # {} BY <1>1, <1>3, <2>1, FirstStarts
  <2> QED BY <1>4, <2>2 DEF Readable, Result
<1>5. ASSUME NEW s \in session[p] PROVE Readable(p, i)
  <2>1. InStep(p, s, t) BY DEF Settled
  <2>2. s \in SessRec /\ Own(p, s) BY OutgoingFacts DEF ChainInv
  <2>3. CASE IsKept(s, m) \/ m.dh = s.remote
    <3>1. Opens(s, m, k) BY <1>3, <2>2, <2>3, SameOpens
    <3> QED BY <1>1, <3>1, OpensReads
  <2>4. CASE ~(IsKept(s, m) \/ m.dh = s.remote)
    <3>1. m.dh = t.dh /\ t.remote = s.dh BY <2>1, <2>4 DEF InStep, Owed
    <3> QED BY <3>1, AnswerReadable
  <2> QED BY <2>3, <2>4
<1> QED BY <1>4, <1>5

LEMMA PostOrNot ==
    ASSUME TypeInv, NEW p \in Peer, NEW q, q = Other(p), NEW m \in HeaderRec, read' = read,
           posts' = posts \/ posts' = [posts EXCEPT ![p] = Append(@, m)]
    PROVE  /\ Sent(q)' = Sent(q) /\ posts'[q] = posts[q]
           /\ \A x \in Sent(p)' : x \in Sent(p) \/ x = m
           /\ Unread(p)' = Unread(p) /\ \A i \in Unread(p) : Msg(p, i)' = Msg(p, i)
           /\ \A i \in Unread(q)' : (i \in Unread(q) /\ Msg(q, i)' = Msg(q, i)) \/ Msg(q, i)' = m
<1>1. q \in Peer BY OtherFacts
<1>2. CASE posts' = posts
  <2>1. Sent(q)' = Sent(q) /\ Sent(p)' = Sent(p) BY <1>2 DEF Sent
  <2>2. Unread(p)' = Unread(p) /\ Unread(q)' = Unread(q) BY <1>2 DEF Unread, Posted
  <2>3. \A x \in Peer : \A i : Msg(x, i)' = Msg(x, i) BY <1>2 DEF Msg
  <2> QED BY <1>1, <1>2, <2>1, <2>2, <2>3
<1>3. CASE posts' = [posts EXCEPT ![p] = Append(@, m)]
  <2>1. Sent(q)' = Sent(q) /\ posts'[q] = posts[q] /\ Sent(p)' = Sent(p) \cup {m}
    BY <1>3, PostFacts
  <2>2. Unread(p)' = Unread(p) /\ \A i \in Unread(p) : Msg(p, i)' = Msg(p, i) BY <1>3, PostFacts
  <2>3. \A i \in Unread(q)' : (i \in Unread(q) /\ Msg(q, i)' = Msg(q, i)) \/ Msg(q, i)' = m
    BY <1>3, PostFacts
  <2> QED BY <2>1, <2>2, <2>3
<1> QED BY <1>2, <1>3

LEMMA SendCalm ==
    ASSUME TypeInv, ChainInv, NEW p \in Peer, Sends(p), calm', \A x \in Peer : Settled(x)
    PROVE  \A x \in Peer : Settled(x)'
<1> PICK q : q = Other(p) OBVIOUS
<1> PICK s : s = Outgoing(p) OBVIOUS
<1> PICK r : r = Encrypted(s) OBVIOUS
<1> PICK m : m = Header(s) OBVIOUS
<1>1. q \in Peer /\ q # p /\ Other(q) = p /\ \A x \in Peer : x = p \/ x = q BY OtherFacts
<1>2. s \in SessRec BY OutgoingFacts
<1>3. /\ m \in HeaderRec /\ m.dh = s.dh
      /\ r.dh = s.dh /\ r.remote = s.remote /\ r.ckRecv = s.ckRecv /\ r.pn = s.pn
      /\ r.skipped = s.skipped
  BY <1>2, EncryptedFacts
<1>4. session'[p] = {r} /\ session'[q] = session[q]
  <2>1. session \in [Peer -> SUBSET SessRec] BY DEF TypeInv, Typed
  <2>2. session' = [session EXCEPT ![p] = {r}] BY DEF Sends
  <2> QED BY <1>1, <2>1, <2>2
<1>5. /\ Sent(q)' = Sent(q) /\ posts'[q] = posts[q]
      /\ \A x \in Sent(p)' : x \in Sent(p) \/ x = m
      /\ Unread(p)' = Unread(p) /\ \A i \in Unread(p) : Msg(p, i)' = Msg(p, i)
      /\ \A i \in Unread(q)' : (i \in Unread(q) /\ Msg(q, i)' = Msg(q, i)) \/ Msg(q, i)' = m
  <2>1. read' = read /\ (posts' = posts \/ posts' = [posts EXCEPT ![p] = Append(@, m)])
    BY DEF Sends
  <2> QED BY <1>3, <2>1, PostOrNot
<1>6. session[p] = {} => session[q] = {} BY DEF Sends
<1>7. Settled(p) /\ Settled(q) BY <1>1
<1>8. Silent(p)' BY <1>4 DEF Silent
<1>9. Silent(q)'
  <2> SUFFICES ASSUME session[q] = {}
               PROVE  /\ posts[q] = <<>> /\ r.ckRecv = NoChain
                      /\ \A x \in Sent(p)' : x.dh = r.dh
    BY <1>1, <1>4, <1>5 DEF Silent
  <2>1. posts[q] = <<>> BY <1>7 DEF Settled, Silent
  <2>2. CASE session[p] = {}
    <3>1. s = InitAlice(p, q, Fresh(p)) BY <2>2, OutgoingFacts
    <3>2. s.ckRecv = NoChain BY <1>1, <3>1, FreshFacts, AliceFields
    <3>3. posts[p] = <<>> BY <1>7, <2>2 DEF Settled, Silent
    <3>4. DOMAIN <<>> = {} OBVIOUS
    <3>5. Sent(p) = {} BY <3>3, <3>4 DEF Sent
    <3> QED BY <1>3, <1>5, <2>1, <3>2, <3>5
  <2>3. CASE session[p] # {}
    <3>1. s \in session[p] BY <2>3, OutgoingFacts
    <3>2. s.ckRecv = NoChain /\ \A x \in Sent(p) : x.dh = s.dh
      BY <1>1, <1>7, <3>1 DEF Settled, Silent
    <3> QED BY <1>3, <1>5, <2>1, <3>2
  <2> QED BY <2>2, <2>3
<1>10. ASSUME NEW t \in session[q] PROVE InStep(p, r, t)' /\ InStep(q, t, r)'
  <2>1. s \in session[p] BY <1>6, OutgoingFacts
  <2>2. InStep(p, s, t) /\ InStep(q, t, s) BY <1>1, <1>7, <2>1 DEF Settled
  <2>3. \A h : IsKept(r, h) = IsKept(s, h) BY <1>3 DEF IsKept
  <2>4. Owed(p, r, t)' BY <1>3, <1>5, <2>2, <2>3 DEF InStep, Owed
  <2>5. Ended(p, r, t)' BY <1>3, <1>5, <2>2 DEF InStep, Ended
  <2>6. InStep(p, r, t)' BY <1>3, <2>2, <2>4, <2>5 DEF InStep
  <2>7. Owed(q, t, r)' BY <1>3, <1>5, <2>2 DEF InStep, Owed
  <2>8. Ended(q, t, r)' BY <1>1, <1>3, <1>5, <2>2 DEF InStep, Ended
  <2>9. InStep(q, t, r)' BY <1>3, <2>2, <2>7, <2>8 DEF InStep
  <2> QED BY <2>6, <2>9
<1>11. Settled(p)' BY <1>4, <1>8, <1>10 DEF Settled
<1>12. Settled(q)' BY <1>1, <1>4, <1>9, <1>10 DEF Settled
<1> QED BY <1>1, <1>11, <1>12

\* What reading leaves of the two conditions on the sessions; the reader is p, its session was
\* s and is r.
LEMMA KeptCalm ==
    ASSUME TypeInv, ChainInv, NEW p \in Peer, NEW q, q = Other(p), NEW i \in Posted(p),
           NEW s, NEW r, NEW t, InStep(p, s, t), InStep(q, t, s),
           r.dh = s.dh, r.remote = s.remote, r.pn = s.pn,
           DOMAIN s.skipped \ {Slot(Msg(p, i))} \subseteq DOMAIN r.skipped,
           posts' = posts, read' = [read EXCEPT ![p] = @ \cup {i}]
    PROVE  InStep(p, r, t)' /\ InStep(q, t, r)'
<1>1. q \in Peer /\ q # p /\ Other(q) = p BY OtherFacts
<1>2. /\ Unread(p)' = Unread(p) \ {i} /\ Unread(q)' = Unread(q)
      /\ \A x \in Peer, j \in Index : Msg(x, j)' = Msg(x, j)
      /\ Sent(p)' = Sent(p) /\ Sent(q)' = Sent(q)
  BY <1>1, PostedFacts, StillFacts
<1>3. Owed(p, r, t)'
  <2>1. ASSUME NEW j \in Unread(p) \ {i}, Msg(p, j).dh \notin {r.remote, t.dh}
        PROVE  IsKept(r, Msg(p, j))
    <3>1. IsKept(s, Msg(p, j)) BY <2>1 DEF InStep, Owed
    <3>2. j \in Posted(p) /\ j # i BY DEF Unread
    <3>3. Slot(Msg(p, j)) # Slot(Msg(p, i)) BY <3>2, NoTwin DEF Slot
    <3> QED BY <3>1, <3>3 DEF IsKept
  <2>2. \A j \in Unread(p) \ {i} : j \in Index BY Unposted
  <2> QED BY <1>2, <2>1, <2>2 DEF Owed
<1>4. Ended(p, r, t)' BY <1>2 DEF InStep, Ended
<1>5. Owed(q, t, r)'
  <2>1. \A j \in Unread(q) : j \in Index BY <1>1, Unposted
  <2> QED BY <1>1, <1>2, <2>1 DEF InStep, Owed
<1>6. Ended(q, t, r)' BY <1>1, <1>2 DEF InStep, Ended
<1> QED BY <1>3, <1>4, <1>5, <1>6 DEF InStep

LEMMA StartedCalm ==
    ASSUME TypeInv, ChainInv, NEW p \in Peer, NEW q, q = Other(p), NEW i \in Posted(p),
           session[p] = {}, Settled(p), NEW t \in session[q], NEW r,
           StartedAt(p, Msg(p, i), Fresh(p), r),
           posts' = posts, read' = [read EXCEPT ![p] = @ \cup {i}]
    PROVE  InStep(p, r, t)' /\ InStep(q, t, r)'
<1>1. q \in Peer /\ q # p /\ Other(q) = p BY OtherFacts
<1>2. /\ Unread(p)' = Unread(p) \ {i} /\ Unread(q)' = Unread(q)
      /\ \A x \in Peer, j \in Index : Msg(x, j)' = Msg(x, j)
      /\ Sent(p)' = Sent(p) /\ Sent(q)' = Sent(q)
  BY <1>1, PostedFacts, StillFacts
<1>3. t.remote = Identity(p) /\ posts[p] = <<>> /\ \A x \in Sent(q) : x.dh = t.dh
  BY SilentBegun
<1>4. r.dh = Fresh(p) /\ r.remote = Msg(p, i).dh BY DEF StartedAt
<1>5. \A j \in Posted(p) : Msg(p, j).dh = t.dh BY <1>3, PostedFacts
<1>6. r.remote = t.dh /\ t.remote # r.dh BY <1>3, <1>4, <1>5, FreshFacts, MineFacts
<1>7. Sent(p) = {} /\ Unread(q) = {}
  <2>1. DOMAIN <<>> = {} OBVIOUS
  <2>2. Posted(q) = DOMAIN posts[p] BY <1>1, PostedFacts
  <2> QED BY <1>3, <2>1, <2>2 DEF Sent, Unread
<1>8. Owed(p, r, t)'
  <2>1. \A j \in Unread(p) : j \in Index /\ Msg(p, j).dh = t.dh BY <1>5, Unposted
  <2> QED BY <1>2, <2>1 DEF Owed
<1>9. Ended(p, r, t)' BY <1>6 DEF Ended
<1>10. Owed(q, t, r)' BY <1>2, <1>7 DEF Owed
<1>11. Ended(q, t, r)' BY <1>1, <1>2, <1>7 DEF Ended
<1> QED BY <1>6, <1>8, <1>9, <1>10, <1>11 DEF InStep

LEMMA TurnedCalm ==
    ASSUME TypeInv, ChainInv, NEW p \in Peer, NEW q, q = Other(p), NEW i \in Unread(p),
           NEW s \in session[p], NEW t \in session[q], InStep(p, s, t), InStep(q, t, s),
           NEW r, ~IsKept(s, Msg(p, i)), Msg(p, i).dh # s.remote,
           TurnedTo(s, Msg(p, i), Fresh(p), r),
           posts' = posts, read' = [read EXCEPT ![p] = @ \cup {i}]
    PROVE  InStep(p, r, t)' /\ InStep(q, t, r)'
<1> PICK m : m = Msg(p, i) OBVIOUS
<1>1. q \in Peer /\ q # p /\ Other(q) = p BY OtherFacts
<1>2. i \in Posted(p) /\ m \in Sent(q) /\ m.pn \in Nat BY Unposted, ReadHeader
<1>3. /\ Unread(p)' = Unread(p) \ {i} /\ Unread(q)' = Unread(q)
      /\ \A x \in Peer, j \in Index : Msg(x, j)' = Msg(x, j)
      /\ Sent(p)' = Sent(p) /\ Sent(q)' = Sent(q)
  BY <1>1, <1>2, PostedFacts, StillFacts
<1>4. s \in SessRec /\ Own(p, s) /\ Own(q, t) BY <1>1, OutgoingFacts DEF ChainInv
<1>5. m.dh = t.dh /\ t.remote = s.dh BY DEF InStep, Owed
<1>6. m.pn = t.pn BY <1>2, <1>4, <1>5 DEF Own, Ahead
<1>7. /\ r.dh = Fresh(p) /\ r.remote = m.dh /\ r.pn = s.ns
      /\ DOMAIN s.skipped \subseteq DOMAIN r.skipped
      /\ New(s.remote, s.nr, m.pn) \subseteq DOMAIN r.skipped
  BY DEF TurnedTo
<1>8. r.remote = t.dh /\ t.remote # r.dh BY <1>5, <1>7, FreshFacts
<1>9. Owed(p, r, t)'
  <2>1. ASSUME NEW j \in Unread(p), Msg(p, j).dh # t.dh PROVE IsKept(r, Msg(p, j))
    <3> PICK h : h = Msg(p, j) OBVIOUS
    <3>1. j \in Posted(p) /\ h \in Sent(q) /\ h.n \in Nat BY Unposted, ReadHeader
    <3>2. CASE h.dh # s.remote
      <4>1. IsKept(s, h) BY <2>1, <3>2 DEF InStep, Owed
      <4> QED BY <1>7, <4>1 DEF IsKept
    <3>3. CASE h.dh = s.remote
      <4>1. s.remote # t.dh BY <2>1, <3>3
      <4>2. h.n < m.pn BY <1>5, <1>6, <3>1, <3>3, <4>1 DEF InStep, Ended
      <4>3. s.nr \in Nat BY <1>4 DEF SessRec
      <4>4. CASE h.n < s.nr
        <5>1. IsKept(s, h) BY <1>4, <3>3, <4>4 DEF Own, Missing
        <5> QED BY <1>7, <5>1 DEF IsKept
      <4>5. CASE s.nr <= h.n
        <5>1. <<s.remote, h.n>> \in New(s.remote, s.nr, m.pn)
          BY <1>2, <3>1, <4>2, <4>3, <4>5, NewHas
        <5> QED BY <1>7, <3>3, <5>1 DEF IsKept, Slot
      <4> QED BY <3>1, <4>3, <4>4, <4>5
    <3> QED BY <3>2, <3>3
  <2>2. \A j \in Unread(p) : j \in Index BY Unposted
  <2> QED BY <1>3, <2>1, <2>2 DEF Owed
<1>10. Ended(p, r, t)' BY <1>8 DEF Ended
<1>11. Owed(q, t, r)'
  <2>1. \A j \in Unread(q) : j \in Index BY <1>1, Unposted
  <2> QED BY <1>1, <1>3, <1>5, <2>1 DEF InStep, Owed
<1>12. Ended(q, t, r)'
  <2>1. \A x \in Sent(p) : x.dh = s.dh => x.n < s.ns BY <1>4 DEF Own, Ahead
  <2> QED BY <1>1, <1>3, <1>5, <1>7, <2>1 DEF Ended
<1> QED BY <1>8, <1>9, <1>10, <1>11, <1>12 DEF InStep

LEMMA ReadCalm ==
    ASSUME TypeInv, ChainInv, NEW p \in Peer, NEW i \in Index, Reads(p, i), calm',
           \A x \in Peer : Settled(x)
    PROVE  \A x \in Peer : Settled(x)'
<1> PICK q : q = Other(p) OBVIOUS
<1>1. q \in Peer /\ q # p /\ Other(q) = p /\ \A x \in Peer : x = p \/ x = q BY OtherFacts
<1>2. /\ i \in Posted(p) /\ i \in Unread(p)
      /\ posts' = posts /\ read' = [read EXCEPT ![p] = @ \cup {i}]
  BY DEF Reads, Unread
<1> PICK r \in Result(p, i) : session' = [session EXCEPT ![p] = {r}] BY DEF Reads
<1>3. session'[p] = {r} /\ session'[q] = session[q]
  <2>1. session \in [Peer -> SUBSET SessRec] BY DEF TypeInv, Typed
  <2> QED BY <1>1, <2>1
<1>4. Settled(p) /\ Settled(q) BY <1>1
<1>5. PICK t \in session[q] : session[q] = {t} BY <1>1, <1>2, PosterHasSession
<1>6. ~Broken(p, i) BY <1>1, <1>2, <1>4, CalmWhole
<1>7. \/ session[p] = {} /\ StartedAt(p, Msg(p, i), Fresh(p), r)
      \/ \E s \in session[p] : ReadOn(s, Msg(p, i), Fresh(p), r)
  BY <1>2, <1>6, ResultFacts
<1>8. InStep(p, r, t)' /\ InStep(q, t, r)'
  <2>1. CASE session[p] = {} /\ StartedAt(p, Msg(p, i), Fresh(p), r)
    BY <1>2, <1>4, <2>1, StartedCalm
  <2>2. ASSUME NEW s \in session[p], ReadOn(s, Msg(p, i), Fresh(p), r)
        PROVE  InStep(p, r, t)' /\ InStep(q, t, r)'
    <3>1. InStep(p, s, t) /\ InStep(q, t, s) BY <1>1, <1>4 DEF Settled
    <3>2. CASE TookKept(s, Msg(p, i), r)
      <4>1. /\ r.dh = s.dh /\ r.remote = s.remote /\ r.pn = s.pn
            /\ DOMAIN s.skipped \ {Slot(Msg(p, i))} \subseteq DOMAIN r.skipped
        BY <3>2 DEF TookKept
      <4> QED BY <1>2, <3>1, <4>1, KeptCalm
    <3>3. CASE Advanced(s, Msg(p, i), r)
      <4>1. /\ r.dh = s.dh /\ r.remote = s.remote /\ r.pn = s.pn
            /\ DOMAIN s.skipped \ {Slot(Msg(p, i))} \subseteq DOMAIN r.skipped
        BY <3>3 DEF Advanced
      <4> QED BY <1>2, <3>1, <4>1, KeptCalm
    <3>4. CASE ~IsKept(s, Msg(p, i)) /\ Msg(p, i).dh # s.remote
               /\ TurnedTo(s, Msg(p, i), Fresh(p), r)
      BY <1>2, <3>1, <3>4, TurnedCalm
    <3> QED BY <2>2, <3>2, <3>3, <3>4 DEF ReadOn
  <2> QED BY <1>7, <2>1, <2>2
<1>9. Silent(p)' /\ Silent(q)' BY <1>3, <1>5 DEF Silent
<1>10. Settled(p)' BY <1>3, <1>5, <1>8, <1>9 DEF Settled
<1>11. Settled(q)' BY <1>1, <1>3, <1>5, <1>8, <1>9 DEF Settled
<1> QED BY <1>1, <1>10, <1>11

LEMMA CalmStep ==
    ASSUME TypeInv, ChainInv, CalmInv, [Next]_vars
    PROVE  CalmInv'
<1> SUFFICES ASSUME calm' PROVE \A x \in Peer : Settled(x)' BY DEF CalmInv
<1>1. calm => \A x \in Peer : Settled(x) BY DEF CalmInv
<1>2. ASSUME NEW p \in Peer, Sends(p) PROVE \A x \in Peer : Settled(x)'
  <2>1. calm BY <1>2 DEF Sends
  <2> QED BY <1>1, <1>2, <2>1, SendCalm
<1>3. ASSUME NEW p \in Peer, NEW i \in Index, Reads(p, i) PROVE \A x \in Peer : Settled(x)'
  <2>1. calm BY <1>3 DEF Reads
  <2> QED BY <1>1, <1>3, <2>1, ReadCalm
<1>4. ASSUME NEW p \in Peer, NEW i \in Index, Drops(p, i) PROVE FALSE
  <2>1. calm /\ i \in Unread(p) BY <1>4 DEF Drops, Unread
  <2>2. ~Broken(p, i) BY <1>1, <2>1, OtherFacts, CalmWhole
  <2> QED BY <1>4, <2>2 DEF Drops
<1>5. ASSUME NEW p \in Peer, Loses(p) PROVE FALSE BY <1>5 DEF Loses
<1>6. CASE Stays
  <2>1. UNCHANGED <<session, posts, read>> /\ calm BY <1>6 DEF Stays
  <2>2. \A x \in Peer : Unread(x)' = Unread(x) /\ Sent(x)' = Sent(x) /\ \A i : Msg(x, i)' = Msg(x, i)
    BY <2>1 DEF Unread, Posted, Sent, Msg
  <2>3. ASSUME NEW x \in Peer PROVE Settled(x)'
    <3>1. Settled(x) BY <1>1, <2>1
    <3>2. Other(x) \in Peer BY OtherFacts
    <3>3. Silent(x)' BY <2>1, <2>2, <3>1, <3>2 DEF Settled, Silent
    <3>4. \A s, t : InStep(x, s, t) => InStep(x, s, t)'
      BY <2>2, <3>2 DEF InStep, Owed, Ended
    <3> QED BY <2>1, <3>1, <3>3, <3>4 DEF Settled
  <2> QED BY <2>3
<1> QED BY <1>2, <1>3, <1>4, <1>5, <1>6, StepKinds

LEMMA CalmInit == ASSUME Init PROVE CalmInv
<1>1. \A p \in Peer : session[p] = {} /\ posts[p] = <<>> BY DEF Init
<1>2. \A p \in Peer : Other(p) \in Peer BY OtherFacts
<1> QED BY <1>1, <1>2 DEF CalmInv, Settled, Silent

\* Skipped keys and PN (client/crypto/double_ratchet.py): as long as one peer started the
\* session, no storage was lost and no session changed by a message decrypted before, every
\* message is readable when it, or the first of its two copies, is first opened, in whatever
\* order messages come and however many are missing.
THEOREM AnyOrderReadable == Spec => []AnyOrderIsReadable
<1>1. TypeInv /\ ChainInv /\ CalmInv => AnyOrderIsReadable
  <2> SUFFICES ASSUME TypeInv, ChainInv, CalmInv, calm, NEW p \in Peer, NEW i \in Unread(p),
                      Near(Msg(p, i))
               PROVE  Readable(p, i)
    BY DEF AnyOrderIsReadable
  <2>1. Settled(p) /\ Settled(Other(p)) BY OtherFacts DEF CalmInv
  <2> QED BY <2>1, CalmReadable
<1>2. Init => CalmInv BY CalmInit
<1>3. TypeInv /\ ChainInv /\ CalmInv /\ [Next]_vars => CalmInv' BY CalmStep
<1> QED BY <1>1, <1>2, <1>3, ChainAlways, PTL DEF Spec
=============================================================================
