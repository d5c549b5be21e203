---------------------------- MODULE MCRoomSockets ----------------------------
(* RoomSockets for TLC. *)
EXTENDS RoomSockets, TLC

CONSTANTS s1, s2, u1, u2

OneUser == s1 :> u1
TwoUsers == s1 :> u1 @@ s2 :> u2

Symmetry == Permutations(Callers)

=============================================================================
