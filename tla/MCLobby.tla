------------------------------ MODULE MCLobby ------------------------------
(* The lobby under TLC. *)
EXTENDS Lobby, TLC

\* People are alike, and so are connections.
AlikeLobby == Permutations(Users) \cup Permutations(Sessions)

\* Bound: one person at most goes to a second table, or two share a connection, not both.
OneAstray == Cardinality(moved) <= 1 /\ (shared = {} \/ moved = {})
=============================================================================
