------------------------------ MODULE MCRelay ------------------------------
(***************************************************************************)
(* Instances of Relay for TLC: a host h with two mirrors a, b.             *)
(***************************************************************************)
EXTENDS Relay, TLC

CONSTANTS h, a, b, e1, e2

\* e1 is written on the mirror a, e2 on the host.
OriginOf == (e1 :> a) @@ (e2 :> h)
OneFromMirror == [e \in {e1} |-> a]
=============================================================================
