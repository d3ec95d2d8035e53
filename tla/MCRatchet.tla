----------------------------- MODULE MCRatchet -----------------------------
(***************************************************************************)
(* Instances of Ratchet for TLC: two users, and a page of history and      *)
(* the WebSocket, each interchangeable.                                    *)
(***************************************************************************)
EXTENDS Ratchet, TLC

CONSTANTS alice, bob, page, socket

Symmetry == Permutations(Peer) \cup Permutations(Course)
=============================================================================
