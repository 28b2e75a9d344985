------------------------ MODULE SessionQueueProperties ------------------------
(***************************************************************************)
(* What makes the sending of a session right, over the state of            *)
(* SessionQueue.                                                           *)
(***************************************************************************)
EXTENDS SessionQueue

(* Every field has the shape of its C++ declaration.                         *)
TypeOK ==
    /\ queue \in Seq(Messages)
    /\ pc \in [Senders -> {"idle", "push", "spawn", "release", "stuck"}]
    /\ sends \in [Senders -> 0 .. MaxSends]
    /\ runner \in {"open", "returned"}
    /\ writer \in [Messages -> {"none", "front", "writing", "pop", "ended", "gone"}]
    /\ wire \in Seq(Messages)
    /\ destroyedBy \in Senders \cup Messages \cup {None}

(* The stream takes one async_write at a time, whoever sends: no second       *)
(* coroutine writes before the first one has emptied the queue.              *)
OneWriteAtATime == \A m, n \in Writing : m = n

(* The object goes away only when there is nothing left to send and nobody   *)
(* is sending: what send() accepted is never lost with it.                   *)
NothingLostAtDestruction ==
    destroyedBy # None =>
        /\ queue = <<>>
        /\ Writing = {}
        /\ \A s \in Senders : pc[s] \in {"idle", "stuck"}

(* main.cpp:59-61 on the shared_ptr: a thread that is broadcasting has to     *)
(* finish before the session can be destroyed.                               *)
DestroyedAfterBroadcast ==
    destroyedBy # None => \A b \in Broadcasters : pc[b] = "idle"
-----------------------------------------------------------------------------
(* The parts of the inductive invariant.                                     *)

Active   == {m \in Messages : writer[m] \in {"front", "writing", "pop"}}
Spawning == {s \in Senders : pc[s] = "spawn"}

(* Exactly one coroutine serves a queue that is not empty, counting the one  *)
(* a sender is about to spawn; none serves an empty queue.                   *)
OneServer ==
    /\ \A m, n \in Active : m = n
    /\ \A s, t \in Spawning : s = t
    /\ Active = {} \/ Spawning = {}
    /\ queue = <<>> <=> (Active = {} /\ Spawning = {})

(* A message that is yet to come has no coroutine.                           *)
SpawnedOnce ==
    \A s \in Senders, i \in 1 .. MaxSends :
        (i > sends[s] \/ (i = sends[s] /\ pc[s] = "spawn")) => writer[<<s, i>>] = "none"

(* Senders leave room for the message they are about to push; the session's  *)
(* own coroutine sends only while it runs.                                   *)
SendersKeepBounds ==
    /\ \A s \in Senders : pc[s] = "push" => sends[s] < MaxSends
    /\ \A s \in Senders : pc[s] = "spawn" => sends[s] > 0
    /\ pc[Runner] # "stuck"
    /\ pc[Runner] # "idle" => runner = "open"

(* The object is destroyed when it has no owner left, and only then.         *)
DestroyedWhenUnowned == destroyedBy # None <=> Owners = {}

(* The invariant the proofs carry from step to step.                         *)
IInv ==
    /\ TypeOK
    /\ OneServer
    /\ SpawnedOnce
    /\ SendersKeepBounds
    /\ DestroyedWhenUnowned
-----------------------------------------------------------------------------
(* The queue without the message whose write has begun.                      *)
Pending ==
    IF \E m \in Messages : writer[m] \in {"writing", "pop"} THEN Tail(queue) ELSE queue

Channel == INSTANCE FifoChannel WITH
    Message <- Messages, pending <- Pending, delivered <- wire

(* Many senders, a shared queue and a coroutine that comes and goes make a    *)
(* FIFO channel: the messages reach the stream in the order of the sends.    *)
ImplementsChannel == Channel!Spec

(* Everything sent is written at last, though the coroutine that has to do it *)
(* may be on its way out when the message comes.                             *)
EverythingIsWritten ==
    \A s \in Senders, i \in 1 .. MaxSends :
        sends[s] >= i ~> \E k \in 1 .. Len(wire) : wire[k] = <<s, i>>
=============================================================================
