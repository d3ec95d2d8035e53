----------------------------- MODULE MCSockets -----------------------------
(***************************************************************************)
(* Instances of Sockets for TLC: the room's owner o and a member u.        *)
(***************************************************************************)
EXTENDS Sockets, TLC

CONSTANTS o, u, r1, r2, s1, s2, s3

OwnedByO == [r \in Room |-> o]
\* Two connections of the member, one of the owner.
UserOf == [s \in Socket |-> IF s = s3 THEN o ELSE u]
=============================================================================
