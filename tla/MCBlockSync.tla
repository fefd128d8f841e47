---------------------------- MODULE MCBlockSync ----------------------------
(* Small instances of BlockSync for TLC. *)
EXTENDS BlockSync, TLC

CONSTANTS a, b

\* a has blocked b, or not; each has blocked the other, or not.
OneBlock == {<<a, b>>}
BothBlocks == {<<a, b>>, <<b, a>>}

Symmetries == Permutations(Conn) \cup Permutations(Req)
=============================================================================
