----------------------------- MODULE MCEnferLobby -----------------------------
(* An instance of EnferLobby for TLC; the constants are in the cfg file.         *)
EXTENDS EnferLobbyProperties, TLC

(* The windows of alice and bob: bob has two of them. *)
CONSTANTS alice, bob, a1, b1, b2
Owners == [w \in Windows |-> IF w = a1 THEN alice ELSE bob]

(* Two tricks in the second round. *)
TrickCount(r) == r

Symmetry == Permutations({b1, b2})
=============================================================================
