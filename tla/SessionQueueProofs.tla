-------------------------- MODULE SessionQueueProofs --------------------------
(***************************************************************************)
(* For any number of broadcasters and of messages: one write at a time, no *)
(* message lost with the session, and the FIFO order of FifoChannel.       *)
(***************************************************************************)
EXTENDS SessionQueueProperties, TLAPS

(* The initial state of a session satisfies the invariant.                   *)
LEMMA InitIInv == Init => IInv
<1> SUFFICES ASSUME Init PROVE IInv
  OBVIOUS
<1>1. TypeOK
  BY SendsAssumption DEF Init, TypeOK
<1>2. OneServer /\ SpawnedOnce /\ SendersKeepBounds
  BY SendersAssumption DEF Init, OneServer, SpawnedOnce, SendersKeepBounds,
                           Active, Spawning, Senders, Messages
<1>3. Runner \in Owners
  BY DEF Init, Owners
<1>4. DestroyedWhenUnowned
  BY <1>3 DEF Init, DestroyedWhenUnowned
<1> QED
  BY <1>1, <1>2, <1>4 DEF IInv

(* The object is destroyed by whoever leaves it without an owner: what the   *)
(* steps do to the set of owners keeps DestroyedWhenUnowned.                 *)
LEMMA DropOwner ==
    ASSUME DestroyedWhenUnowned, NEW owner \in Owners, owner # None,
           Owners' = Owners \ {owner}, Drop(owner)
    PROVE  DestroyedWhenUnowned'
BY DEF DestroyedWhenUnowned, Drop

(* A sender that puts a message in the queue keeps the invariant: it is       *)
(* charged with the coroutine only if nobody serves the queue.               *)
LEMMA PushIInv ==
    ASSUME IInv, NEW s \in Senders, Push(s)
    PROVE  IInv'
<1> DEFINE m == <<s, sends[s] + 1>>
<1>1. /\ TypeOK /\ pc[s] = "push" /\ sends[s] < MaxSends /\ sends[s] \in 0 .. MaxSends
  BY DEF IInv, SendersKeepBounds, TypeOK, Push
<1>2. m \in Messages /\ sends[s] + 1 \in 1 .. MaxSends
  BY <1>1, SendsAssumption DEF Messages
<1>3. /\ queue' = Append(queue, m) /\ queue' # <<>> /\ queue' \in Seq(Messages)
      /\ Len(queue') = 1 <=> queue = <<>>
  <2>1. queue \in Seq(Messages) /\ queue' = Append(queue, m)
    BY <1>1 DEF Push, TypeOK
  <2> HIDE DEF m
  <2>2. queue' \in Seq(Messages) /\ Len(queue') = Len(queue) + 1
    BY <1>2, <2>1
  <2>3. Len(queue) = 0 <=> queue = <<>>
    BY <2>1
  <2> QED
    BY <2>1, <2>2, <2>3
<1>4. /\ sends' = [sends EXCEPT ![s] = @ + 1]
      /\ pc' = [pc EXCEPT ![s] = IF queue = <<>> THEN "spawn" ELSE "release"]
      /\ UNCHANGED <<runner, writer, wire, destroyedBy>>
  BY <1>3 DEF Push, MustSpawn
<1>5. TypeOK'
  BY <1>1, <1>2, <1>3, <1>4, SendsAssumption DEF TypeOK
<1>6. OneServer'
  <2>1. Active' = Active
    BY <1>4 DEF Active
  <2>2. Spawning' = IF queue = <<>> THEN Spawning \cup {s} ELSE Spawning
    BY <1>1, <1>4 DEF Spawning, TypeOK
  <2> QED
    BY <1>3, <2>1, <2>2 DEF IInv, OneServer
<1>7. SpawnedOnce'
  BY <1>1, <1>4, SendsAssumption DEF IInv, SpawnedOnce, TypeOK
<1>8. SendersKeepBounds'
  BY <1>1, <1>2, <1>4, SendersAssumption DEF IInv, SendersKeepBounds, TypeOK, Senders
<1>9. DestroyedWhenUnowned'
  <2>1. Owners' = Owners
    BY <1>1, <1>4 DEF Owners, TypeOK, Senders
  <2> QED
    BY <1>4, <2>1 DEF IInv, DestroyedWhenUnowned
<1> QED
  BY <1>5, <1>6, <1>7, <1>8, <1>9 DEF IInv

(* The coroutine takes over from the sender that spawns it.                  *)
LEMMA SpawnIInv ==
    ASSUME IInv, NEW s \in Senders, Spawn(s)
    PROVE  IInv'
<1> DEFINE m == Current(s)
<1>1. /\ TypeOK /\ pc[s] = "spawn" /\ sends[s] \in 1 .. MaxSends /\ m \in Messages
      /\ writer[m] = "none"
  BY SendsAssumption DEF IInv, SendersKeepBounds, SpawnedOnce, TypeOK, Spawn, Current, Messages
<1>2. /\ writer' = [writer EXCEPT ![m] = "front"]
      /\ pc' = [pc EXCEPT ![s] = "release"]
      /\ UNCHANGED <<queue, sends, runner, wire, destroyedBy>>
  BY DEF Spawn
<1>3. TypeOK'
  BY <1>1, <1>2 DEF TypeOK
<1>4. OneServer'
  <2>1. Active' = Active \cup {m}
    BY <1>1, <1>2 DEF Active, TypeOK
  <2>2. Spawning' = Spawning \ {s} /\ s \in Spawning
    BY <1>1, <1>2 DEF Spawning, TypeOK
  <2> QED
    BY <1>2, <2>1, <2>2 DEF IInv, OneServer
<1>5. SpawnedOnce'
  <2> SUFFICES ASSUME NEW t \in Senders, NEW i \in 1 .. MaxSends,
                      i > sends'[t] \/ (i = sends'[t] /\ pc'[t] = "spawn")
               PROVE  writer'[<<t, i>>] = "none"
    BY DEF SpawnedOnce
  <2>1. <<t, i>> \in Messages
    BY DEF Messages
  <2>2. <<t, i>> # m
    BY <1>1, <1>2 DEF Current, TypeOK
  <2>3. writer[<<t, i>>] = "none"
    BY <1>1, <1>2 DEF IInv, SpawnedOnce, TypeOK
  <2> QED
    BY <1>1, <1>2, <2>1, <2>2, <2>3 DEF TypeOK
<1>6. SendersKeepBounds'
  BY <1>1, <1>2 DEF IInv, SendersKeepBounds, TypeOK
<1>7. DestroyedWhenUnowned'
  <2>1. Owners # {}
    BY <1>1, <1>2 DEF Owners, IInv, SendersKeepBounds, Senders
  <2>2. m \in Owners'
    BY <1>1, <1>2 DEF Owners, TypeOK
  <2> QED
    BY <1>2, <2>1, <2>2 DEF IInv, DestroyedWhenUnowned
<1> QED
  BY <1>3, <1>4, <1>5, <1>6, <1>7 DEF IInv

(* Locking the session, or answering it, only adds an owner.                 *)
LEMMA BeginIInv ==
    ASSUME IInv, NEW s \in Senders, s = Runner => runner = "open", Owners # {},
           pc[s] = "idle", sends[s] < MaxSends,
           pc' = [pc EXCEPT ![s] = "push"],
           UNCHANGED <<queue, sends, runner, writer, wire, destroyedBy>>
    PROVE  IInv'
<1>1. TypeOK /\ TypeOK'
  BY DEF IInv, TypeOK
<1>2. Spawning' = Spawning /\ Active' = Active
  BY <1>1 DEF Spawning, Active, TypeOK
<1>3. OneServer'
  BY <1>2 DEF IInv, OneServer
<1>4. SpawnedOnce'
  BY <1>1 DEF IInv, SpawnedOnce, TypeOK
<1>5. SendersKeepBounds'
  BY <1>1, SendersAssumption DEF IInv, SendersKeepBounds, TypeOK, Senders
<1>6. Owners \subseteq Owners'
  BY <1>1 DEF Owners, TypeOK, Senders
<1>7. DestroyedWhenUnowned'
  BY <1>6 DEF IInv, DestroyedWhenUnowned
<1> QED
  BY <1>1, <1>3, <1>4, <1>5, <1>7 DEF IInv

(* The end of a broadcast for this session, or of an answer.                 *)
LEMMA ReleaseIInv ==
    ASSUME IInv, NEW s \in Senders, Release(s)
    PROVE  IInv'
<1>1. TypeOK /\ pc[s] = "release" /\ UNCHANGED <<queue, sends, runner, writer, wire>>
  BY DEF IInv, Release
<1>2. PICK next \in {"idle", "stuck"} :
        /\ pc' = [pc EXCEPT ![s] = next]
        /\ s = Runner => next = "idle"
  BY DEF Release
<1>3. TypeOK'
  BY <1>1, <1>2 DEF Release, Drop, TypeOK
<1>4. Spawning' = Spawning /\ Active' = Active
  BY <1>1, <1>2 DEF Spawning, Active, TypeOK
<1>5. OneServer' /\ SpawnedOnce' /\ SendersKeepBounds'
  BY <1>1, <1>2, <1>4 DEF IInv, OneServer, SpawnedOnce, SendersKeepBounds, TypeOK
<1>6. DestroyedWhenUnowned'
  <2>1. CASE s = Runner
    <3>1. Owners' = Owners /\ UNCHANGED destroyedBy
      BY <1>1, <1>2, <2>1, SendersAssumption DEF Owners, Release, TypeOK
    <3> QED
      BY <3>1 DEF IInv, DestroyedWhenUnowned
  <2>2. CASE s # Runner
    <3>1. s \in Owners /\ s # None
      BY <1>1, <2>2, OwnersAssumption DEF Owners, Senders
    <3>2. Owners' = Owners \ {s}
      BY <1>1, <1>2, <2>2, SendersAssumption, OwnersAssumption DEF Owners, Senders, Messages, TypeOK
    <3> QED
      BY <2>2, <3>1, <3>2, DropOwner DEF IInv, Release
  <2> QED
    BY <2>1, <2>2
<1> QED
  BY <1>3, <1>5, <1>6 DEF IInv

(* The session's own coroutine ends.                                         *)
LEMMA ReturnIInv ==
    ASSUME IInv, Return
    PROVE  IInv'
<1>1. /\ TypeOK /\ runner = "open" /\ pc[Runner] = "idle" /\ runner' = "returned"
      /\ UNCHANGED <<queue, pc, sends, writer, wire>>
  BY DEF IInv, Return
<1>2. TypeOK'
  BY <1>1 DEF Return, Drop, TypeOK, Senders
<1>3. OneServer' /\ SpawnedOnce' /\ SendersKeepBounds'
  BY <1>1 DEF IInv, OneServer, Spawning, Active, SpawnedOnce, SendersKeepBounds
<1>4. DestroyedWhenUnowned'
  <2>1. Runner \in Owners /\ Runner # None
    BY <1>1, OwnersAssumption DEF Owners, Senders
  <2>2. Owners' = Owners \ {Runner}
    BY <1>1, SendersAssumption, OwnersAssumption DEF Owners, Senders
  <2> QED
    BY <2>1, <2>2, DropOwner DEF IInv, Return
<1> QED
  BY <1>2, <1>3, <1>4 DEF IInv

(* The steps of a coroutine up to the end of its loop: it serves the queue   *)
(* until it finds it empty.                                                  *)
LEMMA WriterIInv ==
    ASSUME IInv, NEW m \in Messages, StartWrite(m) \/ Written(m) \/ Pop(m)
    PROVE  IInv'
<1>1. /\ TypeOK /\ m \in Active /\ queue # <<>>
      /\ UNCHANGED <<pc, sends, runner, destroyedBy>>
  BY DEF IInv, OneServer, Active, StartWrite, Written, Pop
<1>2. PICK step \in {"front", "writing", "pop", "ended"} :
        /\ writer' = [writer EXCEPT ![m] = step]
        /\ step = "ended" <=> queue' = <<>>
        /\ queue' \in Seq(Messages) /\ wire' \in Seq(Messages)
  <2>1. Head(queue) \in Messages /\ Tail(queue) \in Seq(Messages)
    BY <1>1 DEF TypeOK
  <2>2. CASE StartWrite(m)
    <3>1. wire' \in Seq(Messages)
      BY <1>1, <2>1, <2>2 DEF TypeOK, StartWrite, NextToWrite
    <3> QED
      BY <1>1, <2>2, <3>1 DEF TypeOK, StartWrite
  <2>3. CASE Written(m)
    BY <1>1, <2>3 DEF TypeOK, Written
  <2>4. CASE Pop(m)
    BY <1>1, <2>1, <2>4 DEF TypeOK, Pop, MustContinue
  <2> QED
    BY <2>2, <2>3, <2>4
<1>3. TypeOK'
  BY <1>1, <1>2 DEF TypeOK
<1>4. OneServer'
  <2>1. Spawning' = Spawning
    BY <1>1 DEF Spawning
  <2>2. Active' = IF step = "ended" THEN Active \ {m} ELSE Active
    BY <1>1, <1>2 DEF Active, TypeOK
  <2> QED
    BY <1>1, <1>2, <2>1, <2>2 DEF IInv, OneServer
<1>5. SpawnedOnce'
  <2>1. writer[m] # "none"
    BY <1>1 DEF Active
  <2> QED
    BY <1>1, <1>2, <2>1 DEF IInv, SpawnedOnce, TypeOK
<1>6. SendersKeepBounds'
  BY <1>1 DEF IInv, SendersKeepBounds
<1>7. DestroyedWhenUnowned'
  <2>1. Owners' = Owners
    BY <1>1, <1>2 DEF Owners, Active, TypeOK
  <2> QED
    BY <1>1, <2>1 DEF IInv, DestroyedWhenUnowned
<1> QED
  BY <1>3, <1>4, <1>5, <1>6, <1>7 DEF IInv

(* The coroutine lets go of the session.                                     *)
LEMMA EndIInv ==
    ASSUME IInv, NEW m \in Messages, End(m)
    PROVE  IInv'
<1>1. /\ TypeOK /\ writer[m] = "ended" /\ writer' = [writer EXCEPT ![m] = "gone"]
      /\ UNCHANGED <<queue, pc, sends, runner, wire>>
  BY DEF IInv, End
<1>2. TypeOK'
  BY <1>1 DEF End, Drop, TypeOK
<1>3. Active' = Active /\ Spawning' = Spawning
  BY <1>1 DEF Active, Spawning, TypeOK
<1>4. OneServer' /\ SpawnedOnce' /\ SendersKeepBounds'
  BY <1>1, <1>3 DEF IInv, OneServer, SpawnedOnce, SendersKeepBounds, TypeOK
<1>5. DestroyedWhenUnowned'
  <2>1. m \in Owners /\ m # None
    BY <1>1, OwnersAssumption DEF Owners
  <2>2. Owners' = Owners \ {m}
    BY <1>1, OwnersAssumption DEF Owners, Senders, TypeOK
  <2> QED
    BY <2>1, <2>2, DropOwner DEF IInv, End
<1> QED
  BY <1>2, <1>4, <1>5 DEF IInv

(* Every step of the session keeps the invariant.                            *)
LEMMA NextIInv == IInv /\ [Next]_vars => IInv'
<1> SUFFICES ASSUME IInv, [Next]_vars PROVE IInv'
  OBVIOUS
<1>1. CASE UNCHANGED vars
  BY <1>1 DEF vars, IInv, TypeOK, OneServer, Active, Spawning, SpawnedOnce,
              SendersKeepBounds, DestroyedWhenUnowned, Owners
<1>2. ASSUME NEW b \in Broadcasters, Lock(b) PROVE IInv'
  <2>1. b \in Senders /\ b # Runner
    BY SendersAssumption DEF Senders
  <2> QED
    BY <1>2, <2>1, BeginIInv DEF Lock
<1>3. CASE Reply
  <2>1. Runner \in Senders /\ Runner \in Owners
    BY <1>3 DEF Senders, Reply, Owners
  <2> QED
    BY <1>3, <2>1, BeginIInv DEF Reply
<1> QED
  BY <1>1, <1>2, <1>3, PushIInv, SpawnIInv, ReleaseIInv, ReturnIInv, WriterIInv, EndIInv
     DEF Next

(* The queue always has exactly one coroutine while it holds messages, and    *)
(* the session always has an owner until it is destroyed (addToQueue,         *)
(* popQueue and the shared_ptr self of WebsocketSession::send).              *)
THEOREM Invariance == Spec => []IInv
<1> QED
  BY InitIInv, NextIInv, PTL DEF Spec

(* However many threads broadcast, the stream is given one async_write at a   *)
(* time.                                                                     *)
THEOREM WritesExcludeEachOther == Spec => []OneWriteAtATime
<1>1. IInv => OneWriteAtATime
  BY DEF IInv, OneServer, OneWriteAtATime, Writing, Active
<1> QED
  BY <1>1, Invariance, PTL

(* Whoever destroys the session, no message waits in it and no thread is in   *)
(* send().                                                                   *)
THEOREM DestructionLosesNothing == Spec => []NothingLostAtDestruction
<1>1. IInv => NothingLostAtDestruction
  <2> SUFFICES ASSUME IInv, destroyedBy # None PROVE NothingLostAtDestruction
    BY DEF NothingLostAtDestruction
  <2>1. Owners = {}
    BY DEF IInv, DestroyedWhenUnowned
  <2>2. Active = {} /\ Writing = {}
    BY <2>1 DEF Active, Writing, Owners
  <2>3. \A s \in Senders : pc[s] \in {"idle", "stuck"}
    BY <2>1 DEF Owners, IInv, TypeOK, SendersKeepBounds, Senders
  <2>4. queue = <<>>
    BY <2>2, <2>3 DEF IInv, OneServer, Spawning
  <2> QED
    BY <2>2, <2>3, <2>4 DEF NothingLostAtDestruction
<1> QED
  BY <1>1, Invariance, PTL

(* What the invariant says of the message being written: it is the first of  *)
(* the queue, and nobody else writes.                                        *)
LEMMA PendingFacts ==
    ASSUME IInv, NEW m \in Messages, m \in Active
    PROVE  /\ queue # <<>> /\ queue \in Seq(Messages)
           /\ writer[m] = "front" => Pending = queue
           /\ writer[m] \in {"writing", "pop"} => Pending = Tail(queue)
           /\ \A n \in Messages : n # m => writer[n] \notin {"front", "writing", "pop"}
BY DEF IInv, OneServer, Active, Pending, TypeOK

(* Every step of the session is a step of the channel or leaves it alone.    *)
LEMMA StepSimulation == IInv /\ [Next]_vars => [Channel!Next]_<<Pending, wire>>
<1> SUFFICES ASSUME IInv, [Next]_vars PROVE [Channel!Next]_<<Pending, wire>>
  OBVIOUS
<1>1. ASSUME UNCHANGED <<queue, writer, wire>> PROVE UNCHANGED <<Pending, wire>>
  BY <1>1 DEF Pending
<1>2. CASE UNCHANGED vars \/ Reply \/ Return \/ \E b \in Broadcasters : Lock(b)
  BY <1>1, <1>2 DEF vars, Reply, Return, Lock
<1>3. CASE \E s \in Senders : Release(s)
  BY <1>1, <1>3 DEF Release
<1>4. ASSUME NEW s \in Senders, Push(s) PROVE Channel!Next
  <2> DEFINE m == <<s, sends[s] + 1>>
  <2>1. m \in Messages /\ queue \in Seq(Messages) /\ queue' = Append(queue, m)
        /\ UNCHANGED <<writer, wire>>
    <3>1. sends[s] + 1 \in 1 .. MaxSends
      BY <1>4, SendsAssumption DEF Push, IInv, TypeOK, SendersKeepBounds
    <3>2. m \in Messages
      BY <3>1 DEF Messages
    <3> QED
      BY <1>4, <3>2 DEF Push, IInv, TypeOK
  <2> HIDE DEF m
  <2>2. Pending' = Append(Pending, m)
    <3>1. CASE \E n \in Messages : writer[n] \in {"writing", "pop"}
      <4>1. queue # <<>>
        BY <3>1, PendingFacts DEF Active
      <4>2. Tail(Append(queue, m)) = Append(Tail(queue), m)
        BY <2>1, <4>1
      <4> QED
        BY <2>1, <3>1, <4>2 DEF Pending
    <3>2. CASE ~\E n \in Messages : writer[n] \in {"writing", "pop"}
      BY <2>1, <3>2 DEF Pending
    <3> QED
      BY <3>1, <3>2
  <2> QED
    BY <2>1, <2>2 DEF Channel!Next, Channel!Send
<1>5. ASSUME NEW s \in Senders, Spawn(s) PROVE UNCHANGED <<Pending, wire>>
  <2>1. Current(s) \in Messages /\ writer[Current(s)] = "none"
    BY <1>5, SendsAssumption DEF Spawn, Current, Messages, IInv, TypeOK, SendersKeepBounds,
                                 SpawnedOnce
  <2>2. writer' = [writer EXCEPT ![Current(s)] = "front"] /\ UNCHANGED <<queue, wire>>
    BY <1>5 DEF Spawn
  <2>3. \A n \in Messages : writer'[n] \in {"writing", "pop"} <=> writer[n] \in {"writing", "pop"}
    BY <2>1, <2>2 DEF IInv, TypeOK
  <2> QED
    BY <2>2, <2>3 DEF Pending
<1>6. ASSUME NEW m \in Messages, StartWrite(m) PROVE Channel!Next
  <2>1. m \in Active /\ writer[m] = "front"
    BY <1>6 DEF StartWrite, Active
  <2>2. Pending = queue /\ queue # <<>>
    BY <2>1, PendingFacts
  <2>3. writer'[m] = "writing"
    BY <1>6 DEF StartWrite, IInv, TypeOK
  <2>4. Pending' = Tail(queue)
    BY <1>6, <2>3 DEF Pending, StartWrite
  <2> QED
    BY <1>6, <2>2, <2>4 DEF StartWrite, NextToWrite, Channel!Next, Channel!Deliver
<1>7. ASSUME NEW m \in Messages, Written(m) PROVE UNCHANGED <<Pending, wire>>
  <2>1. writer[m] = "writing" /\ writer'[m] = "pop" /\ UNCHANGED <<queue, wire>>
    BY <1>7 DEF Written, IInv, TypeOK
  <2> QED
    BY <2>1 DEF Pending
<1>8. ASSUME NEW m \in Messages, Pop(m) PROVE UNCHANGED <<Pending, wire>>
  <2>1. m \in Active /\ writer[m] = "pop" /\ queue' = Tail(queue) /\ UNCHANGED wire
    BY <1>8 DEF Pop, Active
  <2>2. \A n \in Messages : writer'[n] \notin {"writing", "pop"}
    BY <1>8, <2>1, PendingFacts DEF Pop, IInv, TypeOK
  <2> QED
    BY <2>1, <2>2, PendingFacts DEF Pending
<1>9. ASSUME NEW m \in Messages, End(m) PROVE UNCHANGED <<Pending, wire>>
  <2>1. \A n \in Messages : writer'[n] \in {"writing", "pop"} <=> writer[n] \in {"writing", "pop"}
    BY <1>9 DEF End, IInv, TypeOK
  <2> QED
    BY <1>9, <2>1 DEF Pending, End
<1> QED
  BY <1>2, <1>3, <1>4, <1>5, <1>6, <1>7, <1>8, <1>9 DEF Next

(* The session implements the channel: nothing is lost, repeated or overtaken *)
(* between send() and the stream.                                            *)
THEOREM ChannelRefinement == Spec => ImplementsChannel
<1>1. Init => Channel!Init
  BY DEF Init, Channel!Init, Pending
<1>2. IInv /\ [Next]_vars => [Channel!Next]_Channel!channelVars
  BY StepSimulation DEF Channel!channelVars
<1> QED
  BY <1>1, <1>2, Invariance, PTL DEF Spec, ImplementsChannel, Channel!Spec
=============================================================================
