-------------------------------- MODULE Queues --------------------------------
(***************************************************************************)
(* What the invariants of the two lobbies say of a queue of messages.      *)
(***************************************************************************)
EXTENDS Integers, Sequences

(* The queue ends in a message of T and some of S. *)
EndsIn(queue, T, S) ==
    \E k \in DOMAIN queue :
        queue[k] \in T /\ \A j \in DOMAIN queue : j > k => queue[j] \in S
=============================================================================
