---------------------------- MODULE MCRoomAdmission ----------------------------
(* Two connections at a time, two rooms on two ports; the first failed join blocks. *)
EXTENDS RoomAdmission

CONSTANTS c1, c2
MCConn == {c1, c2}
MCPorts == {7777, 7778}
=============================================================================
