------------------------------ MODULE RoomLog ------------------------------
(***************************************************************************)
(* What the federation promises about a room, without its protocol: each   *)
(* server keeps a copy of the room's messages.  A message enters the copy  *)
(* of its author's server first, a server takes it over at most once and   *)
(* only along an edge of the star around the host, and the clients         *)
(* connected to a server see nothing that server has not stored.           *)
(***************************************************************************)
CONSTANTS Server, Host, Event, Origin

VARIABLES
  copy,      \* copy[s]: the messages stored on s
  announced  \* announced[s]: those the sockets of s were told about

vars == <<copy, announced>>

Init ==
  /\ copy = [s \in Server |-> {}]
  /\ announced = [s \in Server |-> {}]

Grow(f, s, e) == [f EXCEPT ![s] = @ \cup {e}]

Post(e) ==
  /\ e \notin copy[Origin[e]]
  /\ copy' = Grow(copy, Origin[e], e)
  /\ UNCHANGED announced

\* The author's server hands e to s; one of the two is the host.
TakeOver(s, e) ==
  /\ s # Origin[e] /\ Host \in {s, Origin[e]}
  /\ e \in copy[Origin[e]] /\ e \notin copy[s]
  /\ copy' = Grow(copy, s, e)
  /\ UNCHANGED announced

Announce(s, e) ==
  /\ e \in copy[s]
  /\ announced' = Grow(announced, s, e)
  /\ UNCHANGED copy

Next ==
  \E e \in Event : Post(e) \/ \E s \in Server : TakeOver(s, e) \/ Announce(s, e)

Spec == Init /\ [][Next]_vars
=============================================================================
