----------------------------- MODULE MCSession -----------------------------
(***************************************************************************)
(* An instance of Session for TLC: the name u on the servers s1, s2 and s3.*)
(***************************************************************************)
EXTENDS Session, TLC

CONSTANTS us, ut, uo, u, s1, s2, s3

NameOfAll == [a \in {us, ut, uo} |-> u]
\* us was registered on another device, uo before there were keys.
TwoBefore == (us :> RowOf(1, 1)) @@ (ut :> NoAccount) @@ (uo :> OldRow(1))
HomeOfAll == (us :> s1) @@ (ut :> s2) @@ (uo :> s3)
=============================================================================
