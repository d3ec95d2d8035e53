----------------------------- MODULE MCRoomView -----------------------------
(* The instances of RoomView that TLC checks: numbers only, given in the cfgs. *)
EXTENDS RoomView
=============================================================================
