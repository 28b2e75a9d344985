----------------------------- MODULE MCServerLocks -----------------------------
EXTENDS ServerLocksProperties, TLC

Symmetry == Permutations(Threads) \cup Permutations(Lobbies) \cup Permutations(Clients)
=============================================================================
