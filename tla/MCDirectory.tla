---------------------------- MODULE MCDirectory -----------------------------
(***************************************************************************)
(* An instance of Directory for TLC: servers A, B, also called b, and C.   *)
(***************************************************************************)
EXTENDS Directory, TLC

CONSTANTS A, B, C, b, u, v

ReachesAll == (A :> A) @@ (B :> B) @@ (C :> C) @@ (b :> B)
\* u is registered at A, v at B, and another u at C.
ThreeBefore ==
    (<<u, A>> :> 1) @@ (<<v, B>> :> 2) @@ (<<u, C>> :> 3) @@ [a \in Account |-> 0]
OneOfThem == <<u, A>>
\* A and C have met, and A has looked up the u of C; nobody has heard of B.
TwoOwn == (A :> 4) @@ (B :> 0) @@ (C :> 5)
TwoMet == {<<A, C>>, <<C, A>>}
OneCached == {<<A, <<u, C>>>>}
=============================================================================
