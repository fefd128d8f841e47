------------------------------- MODULE MCChat -------------------------------
(* Small instances of Chat for TLC. *)
EXTENDS Chat, TLC

CONSTANTS ann, bob, p1

NoBlocks == {}
BothIn == [x \in Account |-> p1]
MCParties0 == {BothIn}
MCRooms0 == {[BothIn EXCEPT ![ann] = 1, ![bob] = x] : x \in {2, None}}
OneBlock == {<<ann, bob>>}

Symmetries == Permutations(Conn) \cup Permutations(Req)
=============================================================================
