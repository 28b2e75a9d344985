------------------------------- MODULE MCEnfer -------------------------------
(* Instances of EnferGame for TLC; the constants are in the cfg files.        *)
EXTENDS EnferProperties, TLC

(* NumberOfRounds, the number of rounds the lobby always asks for. *)
MCMaxRound == NumberOfRounds(N)

(* The kinds are only compared for equality. *)
KindSymmetry == Permutations(Kinds)
=============================================================================
