----------------------------- MODULE MCParties -----------------------------
(* Small instances of Parties for TLC. *)
EXTENDS Parties, TLC

Symmetries == Permutations(Req) \cup Permutations(Account)
=============================================================================
