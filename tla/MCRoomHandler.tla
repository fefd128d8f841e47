--------------------------- MODULE MCRoomHandler ---------------------------
(* Small instances of RoomHandler for TLC. *)
EXTENDS RoomHandler, TLC

CONSTANTS a, b

\* a has blocked b, or not.
OneBlock == {<<a, b>>}

ConnSymmetry == Permutations(Conn)
=============================================================================
