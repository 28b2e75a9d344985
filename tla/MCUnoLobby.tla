------------------------------ MODULE MCUnoLobby ------------------------------
(* An instance of UnoLobby for TLC; the constants are in the cfg file.         *)
EXTENDS UnoLobbyProperties

(* Two players, with a window each. *)
CONSTANTS alice, bob, a1, b1
Owners == [w \in Windows |-> IF w = a1 THEN alice ELSE bob]
=============================================================================
