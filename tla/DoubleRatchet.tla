--------------------------- MODULE DoubleRatchet ---------------------------
(***************************************************************************)
(* The double ratchet as a pure algorithm (client/crypto/double_ratchet.py *)
(* and its translation flutter_client/lib/crypto/double_ratchet.dart).     *)
(*                                                                         *)
(* Keys are names: a key pair is <<p, i>>, the i-th of peer p, where the   *)
(* pair 0 is the published identity key.  The result of Diffie-Hellman is  *)
(* the set of the two pairs, and a root key is the sequence of the results *)
(* that were mixed into it, so two roots are equal exactly if the peers    *)
(* took the same steps.  A chain key is named by the root it came out      *)
(* with, and the key of its n-th message by chain and n: the AEAD tag      *)
(* fits exactly if both agree.                                             *)
(*                                                                         *)
(* A definition named "Bad..." is a deliberately wrong variant of the one  *)
(* below it; the properties are tested against these variants.             *)
(***************************************************************************)
EXTENDS Naturals, Sequences

CONSTANTS
  Peer,     \* the two users of a direct chat
  MaxSkip   \* MAX_SKIP

ASSUME DoubleRatchetAssumption == MaxSkip \in Nat

Key == Peer \X Nat
Identity(p) == <<p, 0>>

Dh(a, b) == {a, b}
Root == Seq(SUBSET Key)
NoChain == <<>>

\* kdf_rk: the next root, which also names the chain key that comes with it.
KdfRk(root, a, b) == Append(root, Dh(a, b))

\* derive_initial_shared_secret
SharedSecret(p, q) == KdfRk(<<>>, Identity(p), Identity(q))

\* RatchetState.  skipped maps a ratchet key and an index to the chain of the
\* message key kept for it.
Session(s) ==
  /\ DOMAIN s = {"root", "dh", "remote", "ckSend", "ckRecv", "ns", "nr", "pn", "skipped"}
  /\ {s.root, s.ckSend, s.ckRecv} \subseteq Root
  /\ {s.dh, s.remote} \subseteq Key
  /\ {s.ns, s.nr, s.pn} \subseteq Nat
  /\ DOMAIN s.skipped \subseteq Key \X Nat
  /\ \A e \in DOMAIN s.skipped : s.skipped[e] \in Root

\* init_alice: p starts, with the fresh key k and q's identity key as q's
\* ratchet key.
InitAlice(p, q, k) ==
  LET root == KdfRk(SharedSecret(p, q), k, Identity(q))
  IN  [root |-> root, dh |-> k, remote |-> Identity(q), ckSend |-> root,
       ckRecv |-> NoChain, ns |-> 0, nr |-> 0, pn |-> 0, skipped |-> <<>>]

BadInitBob(p, q, dh, k) ==
  LET root == KdfRk(SharedSecret(p, q), Identity(p), dh)
  IN  [root |-> root, dh |-> k, remote |-> dh, ckSend |-> root,
       ckRecv |-> root, ns |-> 0, nr |-> 0, pn |-> 0, skipped |-> <<>>]

\* init_bob: p answers q's header key dh, first with the identity key, then
\* with the fresh key k for its own chain.
InitBob(p, q, dh, k) ==
  LET recv == KdfRk(SharedSecret(p, q), Identity(p), dh)
      root == KdfRk(recv, k, dh)
  IN  [root |-> root, dh |-> k, remote |-> dh, ckSend |-> root,
       ckRecv |-> recv, ns |-> 0, nr |-> 0, pn |-> 0, skipped |-> <<>>]

\* ratchet_encrypt: the header, with the chain whose n-th key seals the message,
\* and the session after it.
Header(s) == [dh |-> s.dh, pn |-> s.pn, n |-> s.ns, chain |-> s.ckSend]
Encrypted(s) == [s EXCEPT !.ns = @ + 1]
-----------------------------------------------------------------------------
\* _skip_message_keys raises TooFarAheadError or MissingChainError otherwise.
CanSkip(s, until) == until <= s.nr \/ (until <= s.nr + MaxSkip /\ s.ckRecv # NoChain)

\* _skip_message_keys: the keys of the receiving chain before until are kept.
SkipTo(s, until) ==
  IF until <= s.nr THEN s
  ELSE LET new == {<<s.remote, i>> : i \in s.nr..(until - 1)}
       IN  [s EXCEPT !.skipped = [e \in new \cup DOMAIN s.skipped |->
                                    IF e \in new THEN s.ckRecv ELSE s.skipped[e]],
                     !.nr = until]

BadTurn(s, m, k) ==
  LET recv == KdfRk(s.root, s.dh, m.dh)
      root == KdfRk(recv, k, m.dh)
  IN  [s EXCEPT !.pn = s.ns, !.ns = 0, !.nr = 0, !.remote = m.dh,
                !.ckRecv = recv, !.dh = k, !.root = root, !.ckSend = root]

\* The steps for a new ratchet key in the header: what is left of the old
\* receiving chain is kept, both chains are renewed.
Turn(s, m, k) ==
  LET old == SkipTo(s, m.pn)
      recv == KdfRk(old.root, old.dh, m.dh)
      root == KdfRk(recv, k, m.dh)
  IN  [old EXCEPT !.pn = old.ns, !.ns = 0, !.nr = 0, !.remote = m.dh,
                  !.ckRecv = recv, !.dh = k, !.root = root, !.ckSend = root]

Slot(m) == <<m.dh, m.n>>
IsKept(s, m) == Slot(m) \in DOMAIN s.skipped
Turned(s, m, k) == IF m.dh = s.remote THEN s ELSE Turn(s, m, k)

\* ratchet_decrypt comes to a message key: it raises no KeyConsumedError,
\* TooFarAheadError or MissingChainError.
Derives(s, m, k) ==
  \/ IsKept(s, m)
  \/ /\ m.dh # s.remote => CanSkip(s, m.pn)
     /\ LET t == Turned(s, m, k)
        IN  m.n >= t.nr /\ CanSkip(t, m.n) /\ t.ckRecv # NoChain

\* The chain of that key, and the session after it.
Derived(s, m, k) == IF IsKept(s, m) THEN s.skipped[Slot(m)] ELSE Turned(s, m, k).ckRecv

Decrypted(s, m, k) ==
  IF IsKept(s, m)
  THEN [s EXCEPT !.skipped = [e \in DOMAIN s.skipped \ {Slot(m)} |-> s.skipped[e]]]
  ELSE [SkipTo(Turned(s, m, k), m.n) EXCEPT !.nr = m.n + 1]

\* _try: the key derived is the one the message was sealed with.
Opens(s, m, k) == Derives(s, m, k) /\ Derived(s, m, k) = m.chain
Diverges(s, m, k) == Derives(s, m, k) /\ Derived(s, m, k) # m.chain
=============================================================================
