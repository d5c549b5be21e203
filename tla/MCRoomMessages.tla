--------------------------- MODULE MCRoomMessages ---------------------------
(* RoomMessages for TLC; the configurations give the instances.  No symmetry: *)
(* a run with a liveness property may not use it.                             *)
EXTENDS RoomMessages

=============================================================================
