----------------------------- MODULE MCLobbyServer -----------------------------
EXTENDS LobbyServerProperties, TLC

(* The session cookie of c1 and c2 is the same: two windows of one browser. *)
CONSTANTS s1, s2, c1, c2, c3
TwoWindows == [c \in {c1, c2, c3} |-> IF c = c3 THEN s2 ELSE s1]

Symmetry == Permutations(Lobbies) \cup Permutations({c1, c2})
=============================================================================
