---------------------------- MODULE MCGroupKeys ----------------------------
(***************************************************************************)
(* An instance of GroupKeys for TLC: another user x, and z, who has the    *)
(* author's name on another server.                                        *)
(***************************************************************************)
EXTENDS GroupKeys

CONSTANTS x, z
=============================================================================
