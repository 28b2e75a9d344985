----------------------------- MODULE SessionQueue -----------------------------
(***************************************************************************)
(* The sending half of a WebsocketSession (src/src/server/                 *)
(* WebsocketSession.cpp) and the shared ownership that keeps the object    *)
(* alive (boost::shared_ptr; do_session in main.cpp, Lobby::utilsSendToAll *)
(* and the coroutine of send()).                                           *)
(*                                                                         *)
(* One session is modelled.  A broadcaster is an io thread that sends to   *)
(* everybody in the lobby while it holds the lobby's mutex; the Runner is  *)
(* the session's own coroutine, which can answer the message it just read. *)
(* Each section between two statements on shared state is a step.          *)
(***************************************************************************)
EXTENDS Integers, Sequences, FiniteSets

CONSTANTS
    Broadcasters,   \* threads that broadcast in the session's lobby
    Runner,         \* the coroutine of do_session and run()
    MaxSends,       \* bound on the messages of each sender
    None            \* nobody

VARIABLES
    queue,          \* queue_
    pc,             \* where each sender is in send()
    sends,          \* how many messages each sender has sent
    runner,         \* "open" until run() returns and do_session drops its ws
    writer,         \* the coroutine spawned for a message
    wire,           \* what async_write was given, in order
    destroyedBy     \* whose shared_ptr was the last one

vars == <<queue, pc, sends, runner, writer, wire, destroyedBy>>

Senders  == Broadcasters \cup {Runner}
Messages == Senders \X (1 .. MaxSends)

ASSUME SendersAssumption == Runner \notin Broadcasters
ASSUME SendsAssumption   == MaxSends \in Nat
ASSUME OwnersAssumption  ==
    None \notin Senders \cup Messages /\ Senders \cap Messages = {}

(* The message a sender is sending. *)
Current(s) == <<s, sends[s]>>

Writing == {m \in Messages : writer[m] = "writing"}

(* Who owns the session: do_session, the conn of a broadcast's loop, the    *)
(* self of a coroutine that is not over.                                    *)
(* Mutant of Owners: the coroutine keeps no self.                           *)
Owners_NoSelf ==
    {s \in Broadcasters : pc[s] \in {"push", "spawn", "release"}}
        \cup {s \in {Runner} : runner = "open"}

Owners ==
    {s \in Broadcasters : pc[s] \in {"push", "spawn", "release"}}
        \cup {s \in {Runner} : runner = "open"}
        \cup {m \in Messages : writer[m] \in {"front", "writing", "pop", "ended"}}

(* The owner who drops the last shared_ptr runs the destructor. *)
Drop(owner) == destroyedBy' = IF Owners = {owner} THEN owner ELSE destroyedBy

Init ==
    /\ queue = <<>>
    /\ pc = [s \in Senders |-> "idle"]
    /\ sends = [s \in Senders |-> 0]
    /\ runner = "open"
    /\ writer = [m \in Messages |-> "none"]
    /\ wire = <<>>
    /\ destroyedBy = None
-----------------------------------------------------------------------------
(* Lobby::utilsSendToAll, under the lobby's mutex: weak_ptr::lock. *)
Lock(b) ==
    /\ \A o \in Broadcasters : pc[o] = "idle"
    /\ Owners # {}
    /\ sends[b] < MaxSends
    /\ pc' = [pc EXCEPT ![b] = "push"]
    /\ UNCHANGED <<queue, sends, runner, writer, wire, destroyedBy>>

(* A handler answers the message run() has read. *)
Reply ==
    /\ runner = "open"
    /\ pc[Runner] = "idle"
    /\ sends[Runner] < MaxSends
    /\ pc' = [pc EXCEPT ![Runner] = "push"]
    /\ UNCHANGED <<queue, sends, runner, writer, wire, destroyedBy>>

(* Mutant of MustSpawn: a coroutine for every message. *)
MustSpawn_Always(q) == q # <<>>

(* The answer of addToQueue. *)
MustSpawn(q) == Len(q) = 1

(* addToQueue: a coroutine has to be spawned for the first message only. *)
Push(s) ==
    /\ pc[s] = "push"
    /\ sends' = [sends EXCEPT ![s] = @ + 1]
    /\ queue' = Append(queue, <<s, sends[s] + 1>>)
    /\ pc' = [pc EXCEPT ![s] = IF MustSpawn(queue') THEN "spawn" ELSE "release"]
    /\ UNCHANGED <<runner, writer, wire, destroyedBy>>

Spawn(s) ==
    /\ pc[s] = "spawn"
    /\ writer' = [writer EXCEPT ![Current(s)] = "front"]
    /\ pc' = [pc EXCEPT ![s] = "release"]
    /\ UNCHANGED <<queue, sends, runner, wire, destroyedBy>>

(* The end of the loop's body: conn goes out of scope.  If it was the last   *)
(* owner, ~WebsocketSession calls Server::removeConnection, which needs the  *)
(* lobby's mutex the broadcast holds: the thread is stuck.                   *)
Release(b) ==
    /\ pc[b] = "release"
    /\ IF b = Runner
       THEN pc' = [pc EXCEPT ![b] = "idle"] /\ UNCHANGED destroyedBy
       ELSE /\ pc' = [pc EXCEPT ![b] = IF Owners = {b} THEN "stuck" ELSE "idle"]
            /\ Drop(b)
    /\ UNCHANGED <<queue, sends, runner, writer, wire>>

(* run() returns on a close, a timeout or an error of the stream. *)
Return ==
    /\ runner = "open"
    /\ pc[Runner] = "idle"
    /\ runner' = "returned"
    /\ Drop(Runner)
    /\ UNCHANGED <<queue, pc, sends, writer, wire>>
-----------------------------------------------------------------------------
(* The coroutine spawned for message m. *)

(* Mutant of NextToWrite: the newest message first. *)
NextToWrite_Newest == queue[Len(queue)]

NextToWrite == Head(queue)

StartWrite(m) ==
    /\ writer[m] = "front"
    /\ wire' = Append(wire, NextToWrite)
    /\ writer' = [writer EXCEPT ![m] = "writing"]
    /\ UNCHANGED <<queue, pc, sends, runner, destroyedBy>>

(* async_write completes, with an error or without. *)
Written(m) ==
    /\ writer[m] = "writing"
    /\ writer' = [writer EXCEPT ![m] = "pop"]
    /\ UNCHANGED <<queue, pc, sends, runner, wire, destroyedBy>>

(* Mutant of MustContinue: one message left is taken for none. *)
MustContinue_OffByOne(q) == Len(q) > 1

(* The answer of popQueue. *)
MustContinue(q) == q # <<>>

Pop(m) ==
    /\ writer[m] = "pop"
    /\ queue' = Tail(queue)
    /\ writer' = [writer EXCEPT ![m] = IF MustContinue(queue') THEN "front" ELSE "ended"]
    /\ UNCHANGED <<pc, sends, runner, wire, destroyedBy>>

End(m) ==
    /\ writer[m] = "ended"
    /\ writer' = [writer EXCEPT ![m] = "gone"]
    /\ Drop(m)
    /\ UNCHANGED <<queue, pc, sends, runner, wire>>

Next ==
    \/ \E b \in Broadcasters : Lock(b)
    \/ Reply
    \/ \E s \in Senders : Push(s)
    \/ \E s \in Senders : Spawn(s)
    \/ \E s \in Senders : Release(s)
    \/ Return
    \/ \E m \in Messages : StartWrite(m)
    \/ \E m \in Messages : Written(m)
    \/ \E m \in Messages : Pop(m)
    \/ \E m \in Messages : End(m)

Spec == Init /\ [][Next]_vars

(* A thread in the middle of send() goes on, and so does a coroutine; an     *)
(* async_write completes, by an error when the stream's timeout expires.     *)
(* Nothing forces anybody to broadcast, to answer or to leave.               *)
FairSpec ==
    /\ Spec
    /\ \A s \in Senders : WF_vars(Push(s) \/ Spawn(s) \/ Release(s))
    /\ \A m \in Messages : WF_vars(StartWrite(m) \/ Written(m) \/ Pop(m) \/ End(m))
=============================================================================
