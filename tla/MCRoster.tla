------------------------------ MODULE MCRoster ------------------------------
(***************************************************************************)
(* Instances of Roster for TLC: a host h with two mirrors a, b.            *)
(***************************************************************************)
EXTENDS Roster, TLC

CONSTANTS h, a, b, o, v, x, z

\* The owner o and v live on h, x on a, z on b.
HomeOf == (o :> h) @@ (v :> h) @@ (x :> a) @@ (z :> b)
=============================================================================
