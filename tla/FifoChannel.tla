------------------------------ MODULE FifoChannel ------------------------------
(***************************************************************************)
(* What WebsocketSession::send promises its callers: the messages reach    *)
(* the stream one at a time, each once, in the order they were sent.       *)
(***************************************************************************)
EXTENDS Sequences

CONSTANT Message

VARIABLES pending, delivered

channelVars == <<pending, delivered>>

Init == pending = <<>> /\ delivered = <<>>

Send(m) ==
    /\ pending' = Append(pending, m)
    /\ UNCHANGED delivered

Deliver ==
    /\ pending # <<>>
    /\ pending' = Tail(pending)
    /\ delivered' = Append(delivered, Head(pending))

Next == (\E m \in Message : Send(m)) \/ Deliver

Spec == Init /\ [][Next]_channelVars
=============================================================================
