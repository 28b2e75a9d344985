-------------------------- MODULE LobbyServerProofs --------------------------
(***************************************************************************)
(* Proofs about LobbyServer for any number of sessions, connections,       *)
(* lobbies, names and threads: see README.md for the argument.             *)
(***************************************************************************)
EXTENDS LobbyServerProperties, TLAPS, FiniteSetTheorems, SequenceTheorems

(* A set that shrinks stays as small as one that grows.                      *)
LEMMA StillFewer ==
    ASSUME NEW A, NEW A1, NEW B, NEW B1, IsFiniteSet(A), IsFiniteSet(B1),
           A1 \subseteq A, B \subseteq B1, Cardinality(A) <= Cardinality(B)
    PROVE  Cardinality(A1) <= Cardinality(B1)
<1>1. IsFiniteSet(B) /\ Cardinality(B) <= Cardinality(B1)
  BY FS_Subset
<1>2. IsFiniteSet(A1) /\ Cardinality(A1) <= Cardinality(A)
  BY FS_Subset
<1> QED
  BY <1>1, <1>2, FS_CardinalityType

(* It does when both get one element, new for the second.                    *)
LEMMA StillFewerWithOneMore ==
    ASSUME NEW A, NEW A1, NEW B, NEW B1, NEW x, IsFiniteSet(A), IsFiniteSet(B1),
           A1 \subseteq A \cup {x}, B \cup {x} \subseteq B1, x \notin B,
           Cardinality(A) <= Cardinality(B)
    PROVE  Cardinality(A1) <= Cardinality(B1)
<1>1. IsFiniteSet(B)
  BY FS_Subset
<1>2. Cardinality(B \cup {x}) = Cardinality(B) + 1
  BY <1>1, FS_AddElement
<1>3. IsFiniteSet(A \cup {x}) /\ Cardinality(A \cup {x}) <= Cardinality(A) + 1
  <2>1. /\ IsFiniteSet(A \cup {x})
        /\ Cardinality(A \cup {x}) = IF x \in A THEN Cardinality(A) ELSE Cardinality(A) + 1
    BY FS_AddElement
  <2>2. Cardinality(A) \in Nat
    BY FS_CardinalityType
  <2> QED
    BY <2>1, <2>2
<1>4. Cardinality(A \cup {x}) <= Cardinality(B \cup {x})
  BY <1>1, <1>2, <1>3, FS_CardinalityType
<1> QED
  BY <1>3, <1>4, StillFewer

(* And when the second loses one element at most, and the first one at least. *)
LEMMA StillFewerWithOneLess ==
    ASSUME NEW A, NEW A1, NEW B, NEW B1, NEW x, NEW y, IsFiniteSet(A), IsFiniteSet(B),
           IsFiniteSet(B1), x \in A, A1 \subseteq A \ {x}, B \ {y} \subseteq B1,
           Cardinality(A) <= Cardinality(B)
    PROVE  Cardinality(A1) <= Cardinality(B1)
<1>1. IsFiniteSet(A \ {x}) /\ Cardinality(A \ {x}) = Cardinality(A) - 1
  BY FS_RemoveElement
<1>2. Cardinality(B \ {y}) >= Cardinality(B) - 1
  <2>1. Cardinality(B \ {y}) = IF y \in B THEN Cardinality(B) - 1 ELSE Cardinality(B)
    BY FS_RemoveElement
  <2>2. Cardinality(B) \in Nat
    BY FS_CardinalityType
  <2> QED
    BY <2>1, <2>2
<1>3. IsFiniteSet(B \ {y})
  BY FS_RemoveElement
<1>4. Cardinality(A \ {x}) <= Cardinality(B \ {y})
  BY <1>1, <1>2, <1>3, FS_CardinalityType
<1> QED
  BY <1>1, <1>4, StillFewer

(* What a new seat adds.                                                     *)
LEMMA SeatAdded ==
    ASSUME NEW S, NEW seats \in Seq(S), NEW x \in S
    PROVE  /\ Append(seats, x) \in Seq(S)
           /\ DOMAIN Append(seats, x) = DOMAIN seats \cup {Len(seats) + 1}
           /\ Append(seats, x)[Len(seats) + 1] = x
           /\ \A i \in DOMAIN seats : Append(seats, x)[i] = seats[i]
  OBVIOUS

(* What is left of the seats when one is given up.                           *)
LEMMA SeatsLeft ==
    ASSUME NEW S, NEW seats \in Seq(S), NEW k \in DOMAIN seats
    PROVE  /\ RemoveAt(seats, k) \in Seq(S)
           /\ Len(RemoveAt(seats, k)) = Len(seats) - 1
           /\ \A i \in DOMAIN RemoveAt(seats, k) :
                 RemoveAt(seats, k)[i] = IF i < k THEN seats[i] ELSE seats[i + 1]
<1> DEFINE before == SubSeq(seats, 1, k - 1)
           after  == SubSeq(seats, k + 1, Len(seats))
<1>1. Len(seats) \in Nat /\ k \in 1 .. Len(seats)
  OBVIOUS
<1>2. /\ before \in Seq(S) /\ Len(before) = k - 1
      /\ \A i \in 1 .. k - 1 : before[i] = seats[i]
  BY <1>1
<1>3. /\ after \in Seq(S) /\ Len(after) = Len(seats) - k
      /\ \A i \in 1 .. Len(seats) - k : after[i] = seats[i + k]
  BY <1>1
<1>4. RemoveAt(seats, k) = before \o after
  BY DEF RemoveAt
<1> HIDE DEF before, after
<1>5. /\ before \o after \in Seq(S) /\ Len(before \o after) = Len(seats) - 1
      /\ DOMAIN (before \o after) = 1 .. Len(seats) - 1
  BY <1>1, <1>2, <1>3
<1>6. \A i \in 1 .. Len(before) + Len(after) :
         (before \o after)[i] = IF i <= Len(before) THEN before[i] ELSE after[i - Len(before)]
  BY <1>2, <1>3, ConcatProperties
<1>7. ASSUME NEW i \in 1 .. Len(seats) - 1
      PROVE  (before \o after)[i] = IF i < k THEN seats[i] ELSE seats[i + 1]
  <2>1. (before \o after)[i] = IF i < k THEN before[i] ELSE after[i - (k - 1)]
    <3>1. i \in 1 .. Len(before) + Len(after)
      BY <1>1, <1>2, <1>3
    <3>2. (before \o after)[i] = IF i <= Len(before) THEN before[i] ELSE after[i - Len(before)]
      BY <1>6, <3>1
    <3>3. Len(before) = k - 1 /\ (i <= k - 1 <=> i < k)
      BY <1>1, <1>2
    <3> QED
      BY <3>2, <3>3
  <2>2. i < k => before[i] = seats[i]
    BY <1>1, <1>2
  <2>3. ~(i < k) => after[i - (k - 1)] = seats[i + 1]
    <3>1. ~(i < k) => i - (k - 1) \in 1 .. Len(seats) - k /\ i - (k - 1) + k = i + 1
      BY <1>1
    <3> QED
      BY <1>3, <3>1
  <2> QED
    BY <2>1, <2>2, <2>3
<1> QED
  BY <1>4, <1>5, <1>7
-----------------------------------------------------------------------------
LEMMA InitIInv == Init => IInv
<1> SUFFICES ASSUME Init PROVE IInv
  OBVIOUS
<1>1. TypeOK
  BY DEF Init, TypeOK, Busy
<1>2. UnbornIsUnknown
  BY NoneAssumption DEF Init, UnbornIsUnknown, Listed
<1>3. ListedOnce
  BY DEF Init, ListedOnce
<1>4. NameIsKept
  BY NoneAssumption DEF Init, NameIsKept, Listed
<1>5. SeatedOnce
  BY DEF Init, SeatedOnce
<1>6. SeatsFollowConnections /\ CreatorPlays
  BY DEF Init, SeatsFollowConnections, CreatorPlays
<1>7. EveryDeadEntryIsLeaving /\ FinishedLobbyIsErased
  BY DEF Init, EveryDeadEntryIsLeaving, FinishedLobbyIsErased
<1> QED
  BY <1>1, <1>2, <1>3, <1>4, <1>5, <1>6, <1>7 DEF IInv

(* The two sets that EveryDeadEntryIsLeaving counts are finite.              *)
LEMMA CountedSetsAreFinite ==
    ASSUME TypeOK, NEW l \in Lobbies, NEW s
    PROVE  IsFiniteSet(DeadEntries(l, s)) /\ IsFiniteSet(Leaving(l, s))
<1>1. DeadEntries(l, s) \in SUBSET Connections
  BY DEF TypeOK, DeadEntries, EntriesOf
<1>2. Leaving(l, s) \in SUBSET Connections
  BY DEF Leaving
<1> QED
  BY <1>1, <1>2, ConnectionsAssumption, FS_Subset

(* Seats that are all different are as many as their sessions.               *)
LEMMA DifferentSeatsAreCounted ==
    ASSUME NEW S, NEW seats \in Seq(S),
           \A i, j \in DOMAIN seats : seats[i] = seats[j] => i = j
    PROVE  Cardinality({seats[i] : i \in DOMAIN seats}) = Len(seats)
<1> DEFINE f == [i \in 1 .. Len(seats) |-> seats[i]]
           T == {seats[i] : i \in DOMAIN seats}
<1>1. Len(seats) \in Nat /\ DOMAIN seats = 1 .. Len(seats)
  OBVIOUS
<1>2. f \in Bijection(1 .. Len(seats), T)
  <2>1. f \in [1 .. Len(seats) -> T]
    BY <1>1
  <2>2. \A i, j \in 1 .. Len(seats) : f[i] = f[j] => i = j
    BY <1>1
  <2>3. \A s \in T : \E i \in 1 .. Len(seats) : f[i] = s
    BY <1>1
  <2> HIDE DEF f, T
  <2> QED
    BY <2>1, <2>2, <2>3 DEF Bijection, Injection, IsInjective, Surjection
<1>3. IsFiniteSet(1 .. Len(seats)) /\ Cardinality(1 .. Len(seats)) = Len(seats)
  BY <1>1, FS_Interval
<1> HIDE DEF f, T
<1>4. Cardinality(T) = Len(seats)
  BY <1>2, <1>3, FS_Bijection DEF ExistsBijection
<1> QED
  BY <1>4 DEF T
-----------------------------------------------------------------------------
(* The steps that leave the lobbies alone and change one connection c, whose *)
(* destructor does not end: it forgets its lobby or finds that of its name,  *)
(* and if it expires or leaves, leave() is still to come.                    *)
LEMMA MoveIInv ==
    ASSUME IInv, TypeOK', NEW c \in Connections,
           UNCHANGED <<lobbies, lobbyVars, fault>>,
           \A d \in Connections \ {c} :
              at'[d] = at[d] /\ pc'[d] = pc[d] /\ target'[d] = target[d],
           pc[c] \notin {"ending", "erasing", "leaving"},
           \/ target'[c] = None
           \/ target'[c] = lobbies[at[c]] /\ at'[c] = at[c],
           \/ Expired(c)'
           \/ ~Expired(c) /\ at'[c] = at[c]
           \/ \A l \in Lobbies : c \notin entries[l],
           Expired(c) \/ (Expired(c)' => pc'[c] = "expired" /\ at'[c] = at[c]),
           pc[c] = "expired" =>
              \/ pc'[c] = "leaving" /\ target'[c] = lobbies[at[c]]
              \/ lobbies[at[c]] = None
    PROVE  IInv'
<1>1. /\ TypeOK /\ UnbornIsUnknown /\ ListedOnce /\ NameIsKept /\ SeatedOnce
      /\ SeatsFollowConnections /\ CreatorPlays
      /\ EveryDeadEntryIsLeaving /\ FinishedLobbyIsErased
  BY DEF IInv
<1>2. /\ lobbies' = lobbies /\ game' = game /\ kind' = kind /\ creator' = creator
      /\ players' = players /\ entries' = entries /\ fault' = fault
  BY DEF lobbyVars
<1>3. \A l \in Lobbies : target'[c] = l => Listed(l) /\ lobbies[at[c]] = l /\ at'[c] = at[c]
  <2> SUFFICES ASSUME NEW l \in Lobbies, target'[c] = l
               PROVE  Listed(l) /\ lobbies[at[c]] = l /\ at'[c] = at[c]
    OBVIOUS
  <2>1. lobbies[at[c]] = l /\ at'[c] = at[c]
    BY NoneAssumption
  <2>2. target'[c] # None
    BY NoneAssumption
  <2>3. pc'[c] # "none"
    BY <2>2 DEF TypeOK
  <2>4. at'[c] \in Endpoints
    BY <2>3 DEF TypeOK
  <2> QED
    BY <2>1, <2>4 DEF Listed
<1>4. UnbornIsUnknown'
  <2> SUFFICES ASSUME NEW l \in Lobbies, game[l] = "Unborn"
               PROVE  /\ players[l] = <<>> /\ entries[l] = {}
                      /\ ~Listed(l)
                      /\ \A d \in Connections : target'[d] # l
    BY <1>2 DEF UnbornIsUnknown, Listed
  <2> QED
    BY <1>1, <1>3 DEF UnbornIsUnknown
<1>5. ListedOnce'
  BY <1>1, <1>2 DEF ListedOnce
<1>6. NameIsKept'
  <2> SUFFICES ASSUME NEW d \in Connections, NEW l \in Lobbies, Listed(l),
                      target'[d] = l \/ (d \in entries[l] /\ ~Expired(d)')
               PROVE  lobbies[at'[d]] = l
    BY <1>2 DEF NameIsKept, Listed
  <2>1. CASE d # c
    BY <1>1, <2>1 DEF NameIsKept, Expired
  <2>2. CASE d = c
    BY <1>1, <1>3, <2>2 DEF NameIsKept
  <2> QED
    BY <2>1, <2>2
<1>7. SeatedOnce' /\ SeatsFollowConnections' /\ CreatorPlays'
  <2>1. SeatedOnce'
    BY <1>1, <1>2 DEF SeatedOnce
  <2>2. \A l \in Lobbies : SessionsIn(l)' = SessionsIn(l)
    BY <1>2 DEF SessionsIn
  <2>3. SeatsFollowConnections'
    BY <1>1, <1>2, <2>2 DEF SeatsFollowConnections
  <2>4. CreatorPlays'
    BY <1>1, <1>2, <2>2 DEF CreatorPlays
  <2> QED
    BY <2>1, <2>3, <2>4
<1>8. EveryDeadEntryIsLeaving'
  <2> SUFFICES ASSUME NEW e \in Endpoints, NEW s \in Sessions, NEW l \in Lobbies,
                      lobbies[e] = l
               PROVE  Cardinality(DeadEntries(l, s)') <= Cardinality(Leaving(l, s)')
    <3>1. lobbies \in [Endpoints -> Lobbies \cup {None}]
      BY <1>1 DEF TypeOK
    <3>2. \A e \in Endpoints : lobbies[e] # None => lobbies[e] \in Lobbies
      BY <3>1
    <3> QED
      BY <1>2, <3>2 DEF EveryDeadEntryIsLeaving
  <2>1. Cardinality(DeadEntries(l, s)) <= Cardinality(Leaving(l, s))
    BY <1>1, NoneAssumption DEF EveryDeadEntryIsLeaving
  <2>2. IsFiniteSet(DeadEntries(l, s)) /\ IsFiniteSet(Leaving(l, s)')
    <3>1. IsFiniteSet(DeadEntries(l, s))
      BY <1>1, CountedSetsAreFinite
    <3>2. Leaving(l, s)' \in SUBSET Connections
      BY DEF Leaving
    <3> QED
      BY <3>1, <3>2, ConnectionsAssumption, FS_Subset
  <2>3. DeadEntries(l, s)' \subseteq DeadEntries(l, s) \cup {c}
    BY <1>1, <1>2 DEF DeadEntries, EntriesOf, Expired, TypeOK
  <2>4. Leaving(l, s) \subseteq Leaving(l, s)'
    BY <1>2, NoneAssumption DEF Leaving
  <2>5. CASE c \notin DeadEntries(l, s)' \/ c \in DeadEntries(l, s)
    <3>1. DeadEntries(l, s)' \subseteq DeadEntries(l, s)
      BY <2>3, <2>5
    <3> QED
      BY <2>1, <2>2, <2>4, <3>1, StillFewer
  <2>6. CASE c \in DeadEntries(l, s)' /\ c \notin DeadEntries(l, s)
    <3>1. c \in entries[l] /\ SessionOf[c] = s /\ Expired(c)' /\ ~Expired(c)
      BY <1>2, <2>6 DEF DeadEntries, EntriesOf
    <3>2. lobbies[at[c]] = l
      BY <1>1, <3>1 DEF NameIsKept, Listed
    <3>3. c \in Leaving(l, s)' /\ c \notin Leaving(l, s)
      BY <1>2, <3>1, <3>2 DEF Leaving, Expired
    <3>4. Leaving(l, s) \cup {c} \subseteq Leaving(l, s)'
      BY <2>4, <3>3
    <3> QED
      BY <2>1, <2>2, <2>3, <3>3, <3>4, StillFewerWithOneMore
  <2> QED
    BY <2>5, <2>6
<1>9. FinishedLobbyIsErased'
  <2> SUFFICES ASSUME NEW e \in Endpoints, lobbies[e] # None, game[lobbies[e]] = "Finished"
               PROVE  \E d \in Connections : pc'[d] \in {"ending", "erasing"} /\ at'[d] = e
    BY <1>2 DEF FinishedLobbyIsErased
  <2>1. PICK d \in Connections : pc[d] \in {"ending", "erasing"} /\ at[d] = e
    BY <1>1 DEF FinishedLobbyIsErased
  <2>2. d # c
    BY <2>1
  <2> QED
    BY <2>1, <2>2
<1> QED
  BY <1>4, <1>5, <1>6, <1>7, <1>8, <1>9 DEF IInv
-----------------------------------------------------------------------------
(* A connection at work is in the middle of one thing.                       *)
LEMMA LobbyInUse ==
    ASSUME TypeOK, NEW c \in Connections, pc[c] \in {"joining", "handling", "leaving"}
    PROVE  target[c] \in Lobbies /\ at[c] \in Endpoints
  BY DEF TypeOK

LEMMA CanAcceptConnectionIInv ==
    ASSUME IInv, NEW c \in Connections, NEW e \in Endpoints, CanAcceptConnection(c, e)
    PROVE  IInv'
<1>1. TypeOK /\ pc[c] = "none" /\ target[c] = None
  BY DEF IInv, TypeOK, CanAcceptConnection
<1>2. /\ at' = [at EXCEPT ![c] = e] /\ pc' = [pc EXCEPT ![c] = "accepting"] /\ target' = target
      /\ UNCHANGED <<lobbies, lobbyVars, fault>> /\ \A l \in Lobbies : c \notin entries[l]
  BY DEF CanAcceptConnection, Goto
<1>3. TypeOK'
  BY <1>1, <1>2 DEF TypeOK, lobbyVars
<1>4. \A d \in Connections \ {c} : at'[d] = at[d] /\ pc'[d] = pc[d] /\ target'[d] = target[d]
  BY <1>1, <1>2 DEF TypeOK
<1> QED
  BY <1>1, <1>2, <1>3, <1>4, MoveIInv DEF Expired

(* What Return and GetLobby do to the connection, and to it alone.           *)
LEMMA ReturnMoves ==
    ASSUME TypeOK, NEW c \in Connections, NEW label, Return(c, label)
    PROVE  /\ pc' = [pc EXCEPT ![c] = label] /\ pc'[c] = label
           /\ target' = [target EXCEPT ![c] = None] /\ target'[c] = None
           /\ at' = IF label = "none" THEN [at EXCEPT ![c] = None] ELSE at
           /\ label # "none" => at'[c] = at[c]
           /\ \A d \in Connections \ {c} :
                 at'[d] = at[d] /\ pc'[d] = pc[d] /\ target'[d] = target[d]
  BY DEF Return, Goto, TypeOK

LEMMA GetLobbyMoves ==
    ASSUME TypeOK, NEW c \in Connections, NEW next, NEW otherwise,
           GetLobby(c, next, otherwise), pc[c] # "none"
    PROVE  \/ /\ lobbies[at[c]] = None
              /\ Return(c, otherwise)
           \/ /\ lobbies[at[c]] \in Lobbies
              /\ pc' = [pc EXCEPT ![c] = next] /\ pc'[c] = next
              /\ target' = [target EXCEPT ![c] = lobbies[at[c]]]
              /\ target'[c] = lobbies[at[c]] /\ at' = at
              /\ \A d \in Connections \ {c} :
                    at'[d] = at[d] /\ pc'[d] = pc[d] /\ target'[d] = target[d]
  BY DEF GetLobby, Goto, TypeOK

(* Types after the steps that leave the lobbies alone.                       *)
LEMMA MoveTypes ==
    ASSUME TypeOK, NEW c \in Connections, UNCHANGED <<lobbies, lobbyVars, fault>>,
           NEW label \in {"none", "accepting", "open", "closed"} \cup Busy,
           pc[c] # "none",
           \/ Return(c, label) /\ label \notin {"joining", "handling", "leaving"}
           \/ /\ label \in {"joining", "handling", "leaving"}
              /\ lobbies[at[c]] \in Lobbies
              /\ pc' = [pc EXCEPT ![c] = label]
              /\ target' = [target EXCEPT ![c] = lobbies[at[c]]] /\ at' = at
    PROVE  TypeOK'
<1>1. /\ lobbies' = lobbies /\ game' = game /\ kind' = kind /\ creator' = creator
      /\ players' = players /\ entries' = entries /\ fault' = fault
  BY DEF lobbyVars
<1>2. /\ pc' \in [Connections -> {"none", "accepting", "open", "closed"} \cup Busy]
      /\ at' \in [Connections -> Endpoints \cup {None}]
      /\ target' \in [Connections -> Lobbies \cup {None}]
  <2>1. /\ pc \in [Connections -> {"none", "accepting", "open", "closed"} \cup Busy]
        /\ at \in [Connections -> Endpoints \cup {None}]
        /\ target \in [Connections -> Lobbies \cup {None}]
    BY DEF TypeOK
  <2>2. pc' = [pc EXCEPT ![c] = label]
    BY DEF Return, Goto
  <2>3. at' = at \/ at' = [at EXCEPT ![c] = None]
    BY DEF Return
  <2>4. target' = [target EXCEPT ![c] = None] \/ target' = [target EXCEPT ![c] = lobbies[at[c]]]
    BY DEF Return
  <2>5. target' = [target EXCEPT ![c] = None] \/ lobbies[at[c]] \in Lobbies
    BY DEF Return
  <2> QED
    BY <2>1, <2>2, <2>3, <2>4, <2>5
<1>3. \A d \in Connections : /\ pc'[d] \in {"joining", "handling", "leaving"} <=> target'[d] # None
                             /\ pc'[d] # "none" => at'[d] \in Endpoints
  <2> SUFFICES ASSUME NEW d \in Connections
               PROVE  /\ pc'[d] \in {"joining", "handling", "leaving"} <=> target'[d] # None
                      /\ pc'[d] # "none" => at'[d] \in Endpoints
    OBVIOUS
  <2>1. CASE d # c
    BY <2>1 DEF TypeOK, Return, Goto
  <2>2. CASE d = c
    <3>1. at[c] \in Endpoints
      BY DEF TypeOK
    <3>2. pc'[c] = label /\ (label # "none" => at'[c] = at[c])
      BY DEF TypeOK, Return, Goto
    <3>3. target'[c] # None <=> label \in {"joining", "handling", "leaving"}
      <4>1. CASE Return(c, label) /\ label \notin {"joining", "handling", "leaving"}
        BY <4>1 DEF TypeOK, Return
      <4>2. CASE /\ label \in {"joining", "handling", "leaving"} /\ lobbies[at[c]] \in Lobbies
                 /\ target' = [target EXCEPT ![c] = lobbies[at[c]]]
        BY <4>2, NoneAssumption DEF TypeOK
      <4> QED
        BY <4>1, <4>2
    <3> QED
      BY <2>2, <3>1, <3>2, <3>3
  <2> QED
    BY <2>1, <2>2
<1> QED
  BY <1>1, <1>2, <1>3 DEF TypeOK

LEMMA AcceptConnectionIInv ==
    ASSUME IInv, NEW c \in Connections, AcceptConnection(c)
    PROVE  IInv'
<1>1. TypeOK /\ pc[c] = "accepting" /\ UNCHANGED <<lobbies, lobbyVars, fault>>
  BY DEF IInv, AcceptConnection
<1>2. CASE Return(c, "expired") \/ Return(c, "open")
  <2>1. TypeOK'
    BY <1>1, <1>2, MoveTypes DEF Busy
  <2> QED
    BY <1>1, <1>2, <2>1, ReturnMoves, MoveIInv DEF Expired
<1>3. CASE GetLobby(c, "joining", "open") /\ ~Return(c, "open")
  <2>1. /\ lobbies[at[c]] \in Lobbies /\ pc' = [pc EXCEPT ![c] = "joining"] /\ pc'[c] = "joining"
        /\ target' = [target EXCEPT ![c] = lobbies[at[c]]]
        /\ target'[c] = lobbies[at[c]] /\ at' = at
        /\ \A d \in Connections \ {c} :
              at'[d] = at[d] /\ pc'[d] = pc[d] /\ target'[d] = target[d]
    BY <1>1, <1>3, GetLobbyMoves
  <2>2. TypeOK'
    BY <1>1, <2>1, MoveTypes DEF Busy
  <2> QED
    BY <1>1, <2>1, <2>2, MoveIInv DEF Expired
<1> QED
  BY <1>2, <1>3 DEF AcceptConnection

LEMMA OnMessageIInv ==
    ASSUME IInv, NEW c \in Connections, OnMessage(c)
    PROVE  IInv'
<1>1. /\ TypeOK /\ pc[c] = "open" /\ UNCHANGED <<lobbies, lobbyVars, fault>>
      /\ GetLobby(c, "handling", "closed")
  BY DEF IInv, OnMessage
<1>2. CASE Return(c, "closed")
  <2>1. TypeOK'
    BY <1>1, <1>2, MoveTypes DEF Busy
  <2> QED
    BY <1>1, <1>2, <2>1, ReturnMoves, MoveIInv DEF Expired
<1>3. CASE ~Return(c, "closed")
  <2>1. /\ lobbies[at[c]] \in Lobbies /\ pc' = [pc EXCEPT ![c] = "handling"] /\ pc'[c] = "handling"
        /\ target' = [target EXCEPT ![c] = lobbies[at[c]]]
        /\ target'[c] = lobbies[at[c]] /\ at' = at
        /\ \A d \in Connections \ {c} :
              at'[d] = at[d] /\ pc'[d] = pc[d] /\ target'[d] = target[d]
    BY <1>1, <1>3, GetLobbyMoves
  <2>2. TypeOK'
    BY <1>1, <2>1, MoveTypes DEF Busy
  <2> QED
    BY <1>1, <2>1, <2>2, MoveIInv DEF Expired
<1> QED
  BY <1>2, <1>3

LEMMA HandleOtherIInv ==
    ASSUME IInv, NEW c \in Connections, HandleOther(c)
    PROVE  IInv'
<1>1. /\ TypeOK /\ pc[c] = "handling" /\ UNCHANGED <<lobbies, lobbyVars, fault>>
      /\ Return(c, "expired") \/ Return(c, "open")
  BY DEF IInv, HandleOther, In
<1>2. TypeOK'
  BY <1>1, MoveTypes DEF Busy
<1> QED
  BY <1>1, <1>2, ReturnMoves, MoveIInv DEF Expired

LEMMA ReadFailsIInv ==
    ASSUME IInv, NEW c \in Connections, ReadFails(c)
    PROVE  IInv'
<1>1. TypeOK /\ pc[c] \in {"open", "closed"} /\ target[c] = None /\ at[c] \in Endpoints
  BY DEF IInv, TypeOK, ReadFails
<1>2. /\ at' = at /\ pc' = [pc EXCEPT ![c] = "expired"] /\ target' = target
      /\ UNCHANGED <<lobbies, lobbyVars, fault>>
  BY DEF ReadFails, Goto
<1>3. TypeOK'
  BY <1>1, <1>2 DEF TypeOK, lobbyVars, Busy
<1>4. \A d \in Connections \ {c} : at'[d] = at[d] /\ pc'[d] = pc[d] /\ target'[d] = target[d]
  BY <1>1, <1>2 DEF TypeOK
<1>5. pc'[c] = "expired" /\ target'[c] = None /\ at'[c] = at[c] /\ Expired(c)'
  BY <1>1, <1>2 DEF TypeOK, Expired
<1> QED
  BY <1>1, <1>2, <1>3, <1>4, <1>5, MoveIInv

LEMMA RemoveConnectionIInv ==
    ASSUME IInv, NEW c \in Connections, RemoveConnection(c)
    PROVE  IInv'
<1>1. /\ TypeOK /\ pc[c] = "expired" /\ UNCHANGED <<lobbies, lobbyVars, fault>>
      /\ GetLobby(c, "leaving", "none")
  BY DEF IInv, RemoveConnection, In
<1>2. CASE Return(c, "none") /\ lobbies[at[c]] = None
  <2>1. TypeOK'
    BY <1>1, <1>2, MoveTypes DEF Busy
  <2> QED
    BY <1>1, <1>2, <2>1, ReturnMoves, MoveIInv DEF Expired
<1>3. CASE lobbies[at[c]] \in Lobbies
  <2>1. /\ pc' = [pc EXCEPT ![c] = "leaving"] /\ pc'[c] = "leaving"
        /\ target' = [target EXCEPT ![c] = lobbies[at[c]]]
        /\ target'[c] = lobbies[at[c]] /\ at' = at
        /\ \A d \in Connections \ {c} :
              at'[d] = at[d] /\ pc'[d] = pc[d] /\ target'[d] = target[d]
    BY <1>1, <1>3, GetLobbyMoves, NoneAssumption
  <2>2. TypeOK'
    BY <1>1, <1>3, <2>1, MoveTypes DEF Busy
  <2> QED
    BY <1>1, <2>1, <2>2, MoveIInv DEF Expired
<1> QED
  BY <1>1, <1>2, <1>3, GetLobbyMoves
-----------------------------------------------------------------------------
(* AddLobby: the lobby is new, and so is all that is said of it.             *)
LEMMA AddLobbyIInv ==
    ASSUME IInv, NEW s \in Sessions, NEW l \in Lobbies, NEW e \in Endpoints, NEW k \in Kinds,
           AddLobby(s, l, e, k)
    PROVE  IInv'
<1>1. /\ TypeOK /\ UnbornIsUnknown /\ ListedOnce /\ NameIsKept /\ SeatedOnce
      /\ SeatsFollowConnections /\ CreatorPlays
      /\ EveryDeadEntryIsLeaving /\ FinishedLobbyIsErased
  BY DEF IInv
<1>2. /\ game[l] = "Unborn" /\ lobbies[e] = None
      /\ lobbies' = [lobbies EXCEPT ![e] = l]
      /\ game' = [game EXCEPT ![l] = "Created"]
      /\ kind' = [kind EXCEPT ![l] = k]
      /\ creator' = [creator EXCEPT ![l] = s]
      /\ players' = players /\ entries' = entries /\ pc' = pc /\ at' = at
      /\ target' = target /\ fault' = fault
  BY DEF AddLobby
<1>3. /\ \A f \in Endpoints : lobbies'[f] = IF f = e THEN l ELSE lobbies[f]
      /\ \A m \in Lobbies : game'[m] = IF m = l THEN "Created" ELSE game[m]
      /\ \A m \in Lobbies : m # l => creator'[m] = creator[m]
  BY <1>1, <1>2 DEF TypeOK
<1>4. /\ players[l] = <<>> /\ entries[l] = {} /\ \A c \in Connections : target[c] # l
      /\ \A f \in Endpoints : lobbies[f] # l
  BY <1>1, <1>2 DEF UnbornIsUnknown, Listed
<1>5. TypeOK'
  BY <1>1, <1>2 DEF TypeOK
<1>6. \A m \in Lobbies : m # l => (Listed(m)' <=> Listed(m))
  BY <1>2, <1>3, NoneAssumption DEF Listed
<1>7. UnbornIsUnknown'
  BY <1>1, <1>2, <1>3, <1>6 DEF UnbornIsUnknown
<1>8. ListedOnce'
  BY <1>1, <1>3, <1>4 DEF ListedOnce
<1>9. NameIsKept'
  <2> SUFFICES ASSUME NEW c \in Connections, NEW m \in Lobbies, Listed(m)',
                      target[c] = m \/ (c \in entries[m] /\ ~Expired(c)')
               PROVE  lobbies'[at[c]] = m
    BY <1>2 DEF NameIsKept
  <2>1. m # l
    BY <1>4
  <2>2. lobbies[at[c]] = m
    BY <1>1, <1>2, <1>6, <2>1 DEF NameIsKept, Expired
  <2>3. at[c] \in Endpoints
    <3>1. target[c] # None \/ ~Expired(c)
      BY <1>2, NoneAssumption DEF Expired
    <3>2. pc[c] # "none"
      BY <1>1, <3>1 DEF TypeOK, Expired
    <3> QED
      BY <1>1, <3>2 DEF TypeOK
  <2> QED
    BY <1>2, <1>3, <2>2, <2>3, NoneAssumption
<1>10. SeatedOnce'
  BY <1>1, <1>2 DEF SeatedOnce
<1>11. \A m \in Lobbies : SessionsIn(m)' = SessionsIn(m)
  BY <1>2 DEF SessionsIn
<1>12. SessionsIn(l) = {} /\ Len(players[l]) = 0
  BY <1>4 DEF SessionsIn
<1>13. SeatsFollowConnections'
  <2>1. SessionsIn(l) = {SessionOf[c] : c \in entries[l]} /\ Cardinality(SessionsIn(l)) = Len(players[l])
    BY <1>4, <1>12, FS_EmptySet
  <2> QED
    BY <1>1, <1>2, <1>3, <1>11, <2>1 DEF SeatsFollowConnections
<1>14. CreatorPlays'
  BY <1>1, <1>2, <1>3, <1>11 DEF CreatorPlays
<1>15. EveryDeadEntryIsLeaving'
  <2> SUFFICES ASSUME NEW f \in Endpoints, NEW t \in Sessions, NEW m \in Lobbies,
                      lobbies'[f] = m
               PROVE  Cardinality(DeadEntries(m, t)') <= Cardinality(Leaving(m, t)')
    BY <1>5 DEF EveryDeadEntryIsLeaving, TypeOK
  <2>1. IsFiniteSet(Leaving(m, t)')
    <3>1. Leaving(m, t)' \in SUBSET Connections
      BY DEF Leaving
    <3> QED
      BY <3>1, ConnectionsAssumption, FS_Subset
  <2>2. DeadEntries(m, t)' = DeadEntries(m, t)
    BY <1>2 DEF DeadEntries, EntriesOf, Expired
  <2>3. CASE f = e
    <3>1. DeadEntries(m, t) = {}
      BY <1>3, <1>4, <2>3 DEF DeadEntries, EntriesOf
    <3> QED
      BY <2>1, <2>2, <3>1, FS_EmptySet, FS_CardinalityType
  <2>4. CASE f # e
    <3>1. lobbies[f] = m
      BY <1>3, <2>4
    <3>2. Cardinality(DeadEntries(m, t)) <= Cardinality(Leaving(m, t))
      BY <1>1, <3>1, NoneAssumption DEF EveryDeadEntryIsLeaving
    <3>3. Leaving(m, t) \subseteq Leaving(m, t)'
      <4> SUFFICES ASSUME NEW c \in Connections, pc[c] = "expired", lobbies[at[c]] = m
                   PROVE  lobbies'[at[c]] = m
        BY <1>2 DEF Leaving
      <4>1. at[c] \in Endpoints
        BY <1>1 DEF TypeOK
      <4> QED
        BY <1>2, <1>3, <4>1, NoneAssumption
    <3> QED
      BY <1>1, <2>1, <2>2, <3>2, <3>3, CountedSetsAreFinite, StillFewer
  <2> QED
    BY <2>3, <2>4
<1>16. FinishedLobbyIsErased'
  <2> SUFFICES ASSUME NEW f \in Endpoints, lobbies'[f] # None, game'[lobbies'[f]] = "Finished"
               PROVE  \E c \in Connections : pc[c] \in {"ending", "erasing"} /\ at[c] = f
    BY <1>2 DEF FinishedLobbyIsErased
  <2>1. lobbies'[f] \in Lobbies
    BY <1>5 DEF TypeOK
  <2>2. lobbies'[f] = lobbies[f] /\ game[lobbies[f]] = "Finished"
    BY <1>3, <2>1
  <2> QED
    BY <1>1, <2>2 DEF FinishedLobbyIsErased
<1> QED
  BY <1>5, <1>7, <1>8, <1>9, <1>10, <1>13, <1>14, <1>15, <1>16 DEF IInv

(* Handling a message: the connection stays alive, the lobbies keep their    *)
(* names and the same people.                                                *)
LEMMA HandleIInv ==
    ASSUME IInv, NEW c \in Connections, NEW label \in {"open", "ending"},
           pc[c] = "handling", Return(c, label), Seated(target[c], SessionOf[c]),
           game' \in [Lobbies -> {"Unborn", "Created", "Started", "Finished"}],
           UNCHANGED <<lobbies, kind, creator, players, entries, fault>>,
           \A l \in Lobbies \ {target[c]} : game'[l] = game[l],
           game'[target[c]] \in {"Started", "Finished"},
           game'[target[c]] = "Finished" => label = "ending",
           \/ game[target[c]] \in {"Started", "Finished"}
           \/ MayStart(c, target[c])
    PROVE  IInv'
<1> DEFINE m == target[c]
<1>1. /\ TypeOK /\ UnbornIsUnknown /\ ListedOnce /\ NameIsKept /\ SeatedOnce
      /\ SeatsFollowConnections /\ CreatorPlays
      /\ EveryDeadEntryIsLeaving /\ FinishedLobbyIsErased
  BY DEF IInv
<1>2. m \in Lobbies /\ at[c] \in Endpoints
  BY <1>1, LobbyInUse
<1>3. /\ pc' = [pc EXCEPT ![c] = label] /\ pc'[c] = label
      /\ target' = [target EXCEPT ![c] = None] /\ target'[c] = None
      /\ at' = at
      /\ \A d \in Connections \ {c} : pc'[d] = pc[d] /\ target'[d] = target[d]
  BY <1>1, ReturnMoves
<1>4. \A e \in Endpoints : lobbies[e] = None \/ lobbies[e] \in Lobbies
  <2>1. lobbies \in [Endpoints -> Lobbies \cup {None}]
    BY <1>1 DEF TypeOK
  <2> QED
    BY <2>1
<1>5. TypeOK'
  <2>1. /\ pc' \in [Connections -> {"none", "accepting", "open", "closed"} \cup Busy]
        /\ target' \in [Connections -> Lobbies \cup {None}]
    BY <1>1, <1>3 DEF TypeOK, Busy
  <2>2. \A d \in Connections : /\ pc'[d] \in {"joining", "handling", "leaving"} <=> target'[d] # None
                               /\ pc'[d] # "none" => at'[d] \in Endpoints
    BY <1>1, <1>3 DEF TypeOK
  <2> QED
    BY <1>1, <1>3, <2>1, <2>2 DEF TypeOK
<1>6. \A d \in Connections : Expired(d)' <=> Expired(d)
  BY <1>3 DEF Expired
<1>7. UnbornIsUnknown'
  BY <1>1, <1>2, <1>3, NoneAssumption DEF UnbornIsUnknown, Listed
<1>8. ListedOnce' /\ SeatedOnce'
  BY <1>1 DEF ListedOnce, SeatedOnce
<1>9. NameIsKept'
  <2> SUFFICES ASSUME NEW d \in Connections, NEW l \in Lobbies, Listed(l),
                      target'[d] = l \/ (d \in entries[l] /\ ~Expired(d)')
               PROVE  lobbies[at[d]] = l
    BY <1>3 DEF NameIsKept, Listed
  <2>1. target'[d] = l => target[d] = l
    BY <1>3, NoneAssumption
  <2> QED
    BY <1>1, <1>6, <2>1 DEF NameIsKept
<1>10. \A l \in Lobbies : SessionsIn(l)' = SessionsIn(l)
  BY DEF SessionsIn
<1>11. SeatsFollowConnections'
  BY <1>1, <1>2, <1>10 DEF SeatsFollowConnections
<1>12. CreatorPlays'
  <2>1. SessionOf[c] \in SessionsIn(m)
    BY DEF Seated, SessionsIn
  <2>2. ASSUME NEW l \in Lobbies, game'[l] \in {"Started", "Finished"}, fault = "none"
        PROVE  creator[l] \in SessionsIn(l) /\ Len(players[l]) >= MinPlayers
    <3>1. CASE l # m
      BY <1>1, <2>2, <3>1 DEF CreatorPlays
    <3>2. CASE l = m
      BY <1>1, <1>2, <2>1, <2>2, <3>2 DEF CreatorPlays, MayStart
    <3> QED
      BY <3>1, <3>2
  <2> QED
    BY <1>10, <2>2 DEF CreatorPlays
<1>13. EveryDeadEntryIsLeaving'
  <2> SUFFICES ASSUME NEW e \in Endpoints, NEW s \in Sessions, lobbies[e] # None
               PROVE  Cardinality(DeadEntries(lobbies[e], s)') <= Cardinality(Leaving(lobbies[e], s)')
    BY DEF EveryDeadEntryIsLeaving
  <2>1. \A l \in Lobbies : DeadEntries(l, s)' = DeadEntries(l, s)
    BY <1>1, <1>6 DEF DeadEntries, EntriesOf, TypeOK
  <2>2. \A l \in Lobbies : Leaving(l, s)' = Leaving(l, s)
    BY <1>3, NoneAssumption DEF Leaving
  <2>3. lobbies[e] \in Lobbies
    BY <1>4
  <2> QED
    BY <1>1, <2>1, <2>2, <2>3 DEF EveryDeadEntryIsLeaving
<1>14. FinishedLobbyIsErased'
  <2> SUFFICES ASSUME NEW e \in Endpoints, lobbies[e] # None, game'[lobbies[e]] = "Finished"
               PROVE  \E d \in Connections : pc'[d] \in {"ending", "erasing"} /\ at[d] = e
    BY <1>3 DEF FinishedLobbyIsErased
  <2>1. lobbies[e] \in Lobbies
    BY <1>4
  <2>2. CASE lobbies[e] = m
    <3>1. lobbies[at[c]] = m
      BY <1>1, <1>2, <2>2 DEF NameIsKept, Listed
    <3>2. at[c] = e
      BY <1>1, <1>2, <2>2, <3>1 DEF ListedOnce
    <3> QED
      BY <1>3, <2>2, <3>2
  <2>3. CASE lobbies[e] # m
    <3>1. game[lobbies[e]] = "Finished"
      BY <2>1, <2>3
    <3>2. PICK d \in Connections : pc[d] \in {"ending", "erasing"} /\ at[d] = e
      BY <1>1, <3>1 DEF FinishedLobbyIsErased
    <3> QED
      BY <1>3, <3>2
  <2> QED
    BY <2>2, <2>3
<1> QED
  BY <1>5, <1>7, <1>8, <1>9, <1>11, <1>12, <1>13, <1>14 DEF IInv

LEMMA HandleStartIInv ==
    ASSUME IInv, NEW c \in Connections, HandleStart(c)
    PROVE  IInv'
<1>1. /\ pc[c] = "handling" /\ Return(c, "open") /\ Seated(target[c], SessionOf[c])
      /\ MayStart(c, target[c]) /\ game' = [game EXCEPT ![target[c]] = "Started"]
      /\ UNCHANGED <<lobbies, kind, creator, players, entries, fault>>
  BY DEF HandleStart, In
<1>2. target[c] \in Lobbies /\ game \in [Lobbies -> {"Unborn", "Created", "Started", "Finished"}]
  BY <1>1, LobbyInUse DEF IInv, TypeOK
<1> QED
  BY <1>1, <1>2, HandleIInv

LEMMA HandleEndIInv ==
    ASSUME IInv, NEW c \in Connections, HandleEnd(c)
    PROVE  IInv'
<1>1. /\ pc[c] = "handling" /\ Return(c, "ending") /\ Seated(target[c], SessionOf[c])
      /\ game[target[c]] \in {"Started", "Finished"}
      /\ game' = [game EXCEPT ![target[c]] = "Finished"] \/ game' = game
      /\ UNCHANGED <<lobbies, kind, creator, players, entries, fault>>
  BY DEF HandleEnd, In
<1>2. target[c] \in Lobbies /\ game \in [Lobbies -> {"Unborn", "Created", "Started", "Finished"}]
  BY <1>1, LobbyInUse DEF IInv, TypeOK
<1> QED
  BY <1>1, <1>2, HandleIInv

(* A connection that joins is alive, and came by the name of the lobby; its  *)
(* session gets the seat it has not.                                         *)
LEMMA JoinIInv ==
    ASSUME IInv, NEW c \in Connections, Join(c)
    PROVE  IInv'
<1> DEFINE m == target[c]
           s == SessionOf[c]
<1>1. /\ TypeOK /\ UnbornIsUnknown /\ ListedOnce /\ NameIsKept /\ SeatedOnce
      /\ SeatsFollowConnections /\ CreatorPlays
      /\ EveryDeadEntryIsLeaving /\ FinishedLobbyIsErased
  BY DEF IInv
<1>2. /\ pc[c] = "joining" /\ UNCHANGED <<lobbies, game, kind, creator, fault>>
  BY DEF Join, In
<1>3. /\ m \in Lobbies /\ at[c] \in Endpoints /\ s \in Sessions
      /\ \A e \in Endpoints : lobbies[e] = None \/ lobbies[e] \in Lobbies
  <2>1. lobbies \in [Endpoints -> Lobbies \cup {None}]
    BY <1>1 DEF TypeOK
  <2> QED
    BY <1>1, <1>2, <2>1, LobbyInUse, ConnectionsAssumption
<1>4. PICK label \in {"open", "closed"} :
      /\ Return(c, label)
      /\ \/ UNCHANGED <<entries, players>>
         \/ /\ Joins(c, m)
            /\ entries' = [entries EXCEPT ![m] = @ \cup {c}]
            /\ players' = IF Seated(m, s) THEN players
                          ELSE [players EXCEPT ![m] = Append(@, s)]
  BY DEF Join
<1>5. /\ pc' = [pc EXCEPT ![c] = label] /\ pc'[c] = label
      /\ target' = [target EXCEPT ![c] = None] /\ target'[c] = None
      /\ at' = at
      /\ \A d \in Connections \ {c} : pc'[d] = pc[d] /\ target'[d] = target[d]
  BY <1>1, <1>4, ReturnMoves
<1>6. /\ entries' \in [Lobbies -> SUBSET Connections]
      /\ \A l \in Lobbies : entries'[l] \in {entries[l], IF l = m THEN entries[l] \cup {c} ELSE entries[l]}
      /\ \A l \in Lobbies : l # m => players'[l] = players[l]
  <2>1. entries \in [Lobbies -> SUBSET Connections] /\ players \in [Lobbies -> Seq(Sessions)]
    BY <1>1 DEF TypeOK
  <2>2. entries' = entries \/ entries' = [entries EXCEPT ![m] = @ \cup {c}]
    BY <1>4
  <2>3. entries' \in [Lobbies -> SUBSET Connections]
    <3>1. entries[m] \cup {c} \in SUBSET Connections
      BY <1>3, <2>1
    <3> QED
      BY <2>1, <2>2, <3>1
  <2>4. \A l \in Lobbies : entries'[l] \in {entries[l], IF l = m THEN entries[l] \cup {c} ELSE entries[l]}
    BY <1>3, <2>1, <2>2
  <2>5. players' = players \/ players' = [players EXCEPT ![m] = Append(@, s)]
    BY <1>4
  <2>6. \A l \in Lobbies : l # m => players'[l] = players[l]
    BY <2>1, <2>5
  <2> QED
    BY <2>3, <2>4, <2>6
<1>7. \/ players' = players
      \/ /\ players'[m] = Append(players[m], s) /\ ~Seated(m, s) /\ game[m] = "Created"
         /\ players' = [players EXCEPT ![m] = Append(players[m], s)]
         /\ entries'[m] = entries[m] \cup {c}
  BY <1>1, <1>3, <1>4 DEF TypeOK, Joins
<1>8. players[m] \in Seq(Sessions) /\ players' \in [Lobbies -> Seq(Sessions)]
  <2>1. players \in [Lobbies -> Seq(Sessions)]
    BY <1>1 DEF TypeOK
  <2>2. players[m] \in Seq(Sessions)
    BY <1>3, <2>1
  <2>3. Append(players[m], s) \in Seq(Sessions)
    BY <1>3, <2>2
  <2> QED
    BY <1>7, <2>1, <2>2, <2>3
<1>9. TypeOK'
  <2>1. /\ pc' \in [Connections -> {"none", "accepting", "open", "closed"} \cup Busy]
        /\ target' \in [Connections -> Lobbies \cup {None}]
    BY <1>1, <1>5 DEF TypeOK, Busy
  <2>2. \A d \in Connections : /\ pc'[d] \in {"joining", "handling", "leaving"} <=> target'[d] # None
                               /\ pc'[d] # "none" => at'[d] \in Endpoints
    BY <1>1, <1>3, <1>5 DEF TypeOK
  <2> QED
    BY <1>1, <1>2, <1>5, <1>6, <1>8, <2>1, <2>2 DEF TypeOK
<1>10. \A d \in Connections : Expired(d)' <=> Expired(d)
  BY <1>2, <1>5 DEF Expired
<1>11. \A l \in Lobbies : Listed(l)' <=> Listed(l)
  BY <1>2 DEF Listed
<1>12. UnbornIsUnknown'
  <2> SUFFICES ASSUME NEW l \in Lobbies, game[l] = "Unborn"
               PROVE  /\ players'[l] = <<>> /\ entries'[l] = {} /\ ~Listed(l)
                      /\ \A d \in Connections : target'[d] # l
    BY <1>2, <1>11 DEF UnbornIsUnknown
  <2>1. l # m /\ players[l] = <<>> /\ entries[l] = {} /\ ~Listed(l)
    BY <1>1 DEF UnbornIsUnknown
  <2>2. \A d \in Connections : target'[d] # l
    BY <1>1, <1>5, NoneAssumption DEF UnbornIsUnknown
  <2> QED
    BY <1>6, <2>1, <2>2
<1>13. ListedOnce'
  BY <1>1, <1>2 DEF ListedOnce
<1>14. NameIsKept'
  <2> SUFFICES ASSUME NEW d \in Connections, NEW l \in Lobbies, Listed(l),
                      target'[d] = l \/ (d \in entries'[l] /\ ~Expired(d))
               PROVE  lobbies[at[d]] = l
    BY <1>2, <1>5, <1>10, <1>11 DEF NameIsKept
  <2>1. CASE d = c /\ l = m
    BY <1>1, <2>1 DEF NameIsKept
  <2>2. CASE d # c \/ l # m
    <3>1. target'[d] = l => target[d] = l
      BY <1>5, NoneAssumption
    <3>2. d \in entries'[l] => d \in entries[l]
      BY <1>6, <2>2
    <3> QED
      BY <1>1, <3>1, <3>2 DEF NameIsKept
  <2> QED
    BY <2>1, <2>2
<1>15. SeatedOnce'
  <2> SUFFICES ASSUME NEW l \in Lobbies, NEW i \in DOMAIN players'[l], NEW j \in DOMAIN players'[l],
                      players'[l][i] = players'[l][j]
               PROVE  i = j
    BY DEF SeatedOnce
  <2>1. CASE players'[l] = players[l]
    BY <1>1, <2>1 DEF SeatedOnce
  <2>2. CASE players'[l] # players[l]
    <3>1. /\ l = m /\ players'[m] = Append(players[m], s) /\ ~Seated(m, s)
      BY <1>6, <1>7, <2>2
    <3>2. \A k \in DOMAIN players[m] : players[m][k] # s
      BY <3>1 DEF Seated
    <3>3. \A k, n \in DOMAIN players[m] : players[m][k] = players[m][n] => k = n
      BY <1>1, <1>3 DEF SeatedOnce
    <3> QED
      BY <1>8, <3>1, <3>2, <3>3
  <2> QED
    BY <2>1, <2>2
<1>16. SeatsFollowConnections'
  <2> SUFFICES ASSUME fault = "none", NEW l \in Lobbies, game[l] = "Created"
               PROVE  /\ {players'[l][i] : i \in DOMAIN players'[l]} = {SessionOf[d] : d \in entries'[l]}
                      /\ Cardinality({players'[l][i] : i \in DOMAIN players'[l]}) = Len(players'[l])
    BY <1>2 DEF SeatsFollowConnections, SessionsIn
  <2> DEFINE old == {players[l][i] : i \in DOMAIN players[l]}
             new == {players'[l][i] : i \in DOMAIN players'[l]}
  <2>1. old = {SessionOf[d] : d \in entries[l]}
    BY <1>1 DEF SeatsFollowConnections, SessionsIn
  <2>2. Cardinality(new) = Len(players'[l])
    <3>1. players'[l] \in Seq(Sessions)
      BY <1>8
    <3>2. \A i, j \in DOMAIN players'[l] : players'[l][i] = players'[l][j] => i = j
      BY <1>15 DEF SeatedOnce
    <3> QED
      BY <3>1, <3>2, DifferentSeatsAreCounted
  <2>3. CASE entries'[l] = entries[l] /\ players'[l] = players[l]
    BY <2>1, <2>2, <2>3
  <2>4. CASE l = m /\ entries'[m] = entries[m] \cup {c} /\ Seated(m, s) /\ players' = players
    <3>1. s \in old /\ new = old
      BY <2>4 DEF Seated
    <3>2. {SessionOf[d] : d \in entries'[l]} = {SessionOf[d] : d \in entries[l]} \cup {s}
      BY <2>4
    <3> QED
      BY <2>1, <2>2, <3>1, <3>2
  <2>5. CASE l = m /\ entries'[m] = entries[m] \cup {c} /\ players'[m] = Append(players[m], s)
    <3>1. /\ DOMAIN players'[m] = DOMAIN players[m] \cup {Len(players[m]) + 1}
          /\ players'[m][Len(players[m]) + 1] = s
          /\ \A i \in DOMAIN players[m] : players'[m][i] = players[m][i]
      BY <1>3, <1>8, <2>5, SeatAdded
    <3>2. new \subseteq old \cup {s}
      BY <2>5, <3>1
    <3>3. old \cup {s} \subseteq new
      BY <2>5, <3>1
    <3>4. {SessionOf[d] : d \in entries'[l]} = {SessionOf[d] : d \in entries[l]} \cup {s}
      BY <2>5
    <3> HIDE DEF old, new
    <3>5. new = {SessionOf[d] : d \in entries'[l]}
      BY <2>1, <3>2, <3>3, <3>4
    <3> QED
      BY <2>2, <3>5 DEF new
  <2>6. \/ entries'[l] = entries[l] /\ players'[l] = players[l]
        \/ l = m /\ entries'[m] = entries[m] \cup {c} /\ Seated(m, s) /\ players' = players
        \/ l = m /\ entries'[m] = entries[m] \cup {c} /\ players'[m] = Append(players[m], s)
    <3>1. CASE l # m
      <4>1. players'[l] = players[l]
        BY <1>6, <3>1
      <4>2. entries'[l] = entries[l]
        BY <1>6, <3>1
      <4> QED
        BY <4>1, <4>2
    <3>2. CASE l = m
      BY <1>1, <1>3, <1>4, <3>2 DEF TypeOK
    <3> QED
      BY <3>1, <3>2
  <2> HIDE DEF old, new
  <2> QED
    BY <2>3, <2>4, <2>5, <2>6
<1>17. CreatorPlays'
  <2> SUFFICES ASSUME fault = "none", NEW l \in Lobbies, game[l] \in {"Started", "Finished"}
               PROVE  creator[l] \in SessionsIn(l)' /\ Len(players'[l]) >= MinPlayers
    BY <1>2 DEF CreatorPlays
  <2>1. players'[l] = players[l]
    BY <1>6, <1>7
  <2> QED
    BY <1>1, <2>1 DEF CreatorPlays, SessionsIn
<1>18. EveryDeadEntryIsLeaving'
  <2> SUFFICES ASSUME NEW e \in Endpoints, NEW t \in Sessions, NEW l \in Lobbies, lobbies[e] = l
               PROVE  Cardinality(DeadEntries(l, t)') <= Cardinality(Leaving(l, t)')
    BY <1>2, <1>3 DEF EveryDeadEntryIsLeaving
  <2>1. DeadEntries(l, t)' = DeadEntries(l, t)
    <3>1. entries[l] \subseteq Connections
      BY <1>1 DEF TypeOK
    <3>2. ~Expired(c)
      BY <1>2 DEF Expired
    <3> QED
      BY <1>6, <1>10, <3>1, <3>2 DEF DeadEntries, EntriesOf
  <2>2. Leaving(l, t)' = Leaving(l, t)
    BY <1>2, <1>5, NoneAssumption DEF Leaving
  <2>3. Cardinality(DeadEntries(l, t)) <= Cardinality(Leaving(l, t))
    BY <1>1, NoneAssumption DEF EveryDeadEntryIsLeaving
  <2> QED
    BY <2>1, <2>2, <2>3
<1>19. FinishedLobbyIsErased'
  <2> SUFFICES ASSUME NEW e \in Endpoints, lobbies[e] # None, game[lobbies[e]] = "Finished"
               PROVE  \E d \in Connections : pc'[d] \in {"ending", "erasing"} /\ at[d] = e
    BY <1>2, <1>5 DEF FinishedLobbyIsErased
  <2>1. PICK d \in Connections : pc[d] \in {"ending", "erasing"} /\ at[d] = e
    BY <1>1 DEF FinishedLobbyIsErased
  <2> QED
    BY <1>2, <1>5, <2>1
<1> QED
  BY <1>9, <1>12, <1>13, <1>14, <1>15, <1>16, <1>17, <1>18, <1>19 DEF IInv

(* Erasing a name takes its lobby from whoever was on the way to it, and     *)
(* from nobody else, since a lobby has one name.                             *)
LEMMA EraseIInv ==
    ASSUME IInv, NEW c \in Connections, Erase(c)
    PROVE  IInv'
<1>1. /\ TypeOK /\ UnbornIsUnknown /\ ListedOnce /\ NameIsKept /\ SeatedOnce
      /\ SeatsFollowConnections /\ CreatorPlays
      /\ EveryDeadEntryIsLeaving /\ FinishedLobbyIsErased
  BY DEF IInv
<1>2. /\ game' = game /\ kind' = kind /\ creator' = creator
      /\ players' = players /\ entries' = entries /\ fault' = fault
  BY DEF Erase, lobbyVars
<1>3. /\ pc[c] \in {"ending", "erasing"} /\ lobbies' = [lobbies EXCEPT ![at[c]] = None]
      /\ Return(c, IF pc[c] = "ending" THEN "open" ELSE "none")
  BY DEF Erase, Erased, In
<1>4. at[c] \in Endpoints /\ target[c] = None /\ lobbies \in [Endpoints -> Lobbies \cup {None}]
  BY <1>1, <1>3 DEF TypeOK
<1>5. \A e \in Endpoints : lobbies'[e] = IF e = at[c] THEN None ELSE lobbies[e]
  BY <1>3, <1>4
<1>6. /\ \/ pc[c] = "ending" /\ pc' = [pc EXCEPT ![c] = "open"] /\ at' = at
         \/ /\ pc[c] = "erasing" /\ pc' = [pc EXCEPT ![c] = "none"]
            /\ at' = [at EXCEPT ![c] = None]
      /\ target' = [target EXCEPT ![c] = None]
      /\ \A d \in Connections \ {c} : at'[d] = at[d] /\ pc'[d] = pc[d] /\ target'[d] = target[d]
  BY <1>1, <1>3, ReturnMoves
<1>7. /\ pc \in [Connections -> {"none", "accepting", "open", "closed"} \cup Busy]
      /\ at \in [Connections -> Endpoints \cup {None}]
      /\ target \in [Connections -> Lobbies \cup {None}]
  BY <1>1 DEF TypeOK
<1>8. /\ pc[c] = "ending" => pc'[c] = "open" /\ at'[c] = at[c]
      /\ pc[c] = "erasing" => pc'[c] = "none"
      /\ target' = target
  BY <1>4, <1>6, <1>7
<1>9. TypeOK'
  <2>1. lobbies' \in [Endpoints -> Lobbies \cup {None}]
    BY <1>3, <1>4
  <2>2. pc' \in [Connections -> {"none", "accepting", "open", "closed"} \cup Busy]
    BY <1>6, <1>7
  <2>3. at' \in [Connections -> Endpoints \cup {None}]
    BY <1>6, <1>7
  <2>4. ASSUME NEW d \in Connections
        PROVE  /\ pc'[d] \in {"joining", "handling", "leaving"} <=> target'[d] # None
               /\ pc'[d] # "none" => at'[d] \in Endpoints
    <3>1. CASE d = c
      BY <1>3, <1>4, <1>8, <3>1
    <3>2. CASE d # c
      BY <1>1, <1>6, <3>2 DEF TypeOK
    <3> QED
      BY <3>1, <3>2
  <2> QED
    BY <1>1, <1>2, <1>7, <1>8, <2>1, <2>2, <2>3, <2>4 DEF TypeOK
<1>10. \A d \in Connections : Expired(d)' <=> Expired(d)
  <2> SUFFICES ASSUME NEW d \in Connections PROVE Expired(d)' <=> Expired(d)
    OBVIOUS
  <2>1. CASE d = c
    BY <1>3, <1>8, <2>1 DEF Expired
  <2>2. CASE d # c
    BY <1>6, <2>2 DEF Expired
  <2> QED
    BY <2>1, <2>2
<1>11. \A l \in Lobbies : Listed(l)' => \E e \in Endpoints : e # at[c] /\ lobbies[e] = l
  BY <1>5, NoneAssumption DEF Listed
<1>12. UnbornIsUnknown'
  <2>1. \A l \in Lobbies : Listed(l)' => Listed(l)
    BY <1>11 DEF Listed
  <2> QED
    BY <1>1, <1>2, <1>8, <2>1 DEF UnbornIsUnknown
<1>13. ListedOnce'
  BY <1>1, <1>5 DEF ListedOnce
<1>14. NameIsKept'
  <2> SUFFICES ASSUME NEW d \in Connections, NEW l \in Lobbies, Listed(l)',
                      target[d] = l \/ (d \in entries[l] /\ ~Expired(d))
               PROVE  lobbies'[at'[d]] = l
    BY <1>2, <1>8, <1>10 DEF NameIsKept
  <2>1. PICK e \in Endpoints : e # at[c] /\ lobbies[e] = l
    BY <1>11
  <2>2. lobbies[at[d]] = l
    BY <1>1, <2>1 DEF NameIsKept, Listed
  <2>3. ~(d = c /\ pc[c] = "erasing")
    BY <1>4, NoneAssumption DEF Expired
  <2>4. at'[d] = at[d]
    BY <1>3, <1>6, <1>8, <2>3
  <2>5. at[d] \in Endpoints
    <3>1. pc[d] # "none"
      BY <1>1, NoneAssumption DEF TypeOK, Expired
    <3> QED
      BY <1>1, <3>1 DEF TypeOK
  <2>6. at[d] = e
    BY <1>1, <2>1, <2>2, <2>5, NoneAssumption DEF ListedOnce
  <2> QED
    BY <1>5, <2>1, <2>4, <2>6
<1>15. SeatedOnce'
  BY <1>1, <1>2 DEF SeatedOnce
<1>16. \A l \in Lobbies : SessionsIn(l)' = SessionsIn(l)
  BY <1>2 DEF SessionsIn
<1>17. SeatsFollowConnections'
  BY <1>1, <1>2, <1>16 DEF SeatsFollowConnections
<1>18. CreatorPlays'
  BY <1>1, <1>2, <1>16 DEF CreatorPlays
<1>19. EveryDeadEntryIsLeaving'
  <2> SUFFICES ASSUME NEW e \in Endpoints, NEW t \in Sessions, NEW l \in Lobbies, lobbies'[e] = l
               PROVE  Cardinality(DeadEntries(l, t)') <= Cardinality(Leaving(l, t)')
    BY <1>4, <1>5 DEF EveryDeadEntryIsLeaving
  <2>1. e # at[c] /\ lobbies[e] = l
    BY <1>5, NoneAssumption
  <2>2. DeadEntries(l, t)' = DeadEntries(l, t)
    <3>1. entries[l] \subseteq Connections
      BY <1>1 DEF TypeOK
    <3> QED
      BY <1>2, <1>10, <3>1 DEF DeadEntries, EntriesOf
  <2>3. Leaving(l, t) \subseteq Leaving(l, t)'
    <3> SUFFICES ASSUME NEW d \in Connections, d \in Leaving(l, t)
                 PROVE  d \in Leaving(l, t)'
      BY DEF Leaving
    <3>1. /\ SessionOf[d] = t
          /\ \/ pc[d] = "expired" /\ lobbies[at[d]] = l
             \/ pc[d] = "leaving" /\ target[d] = l
      BY DEF Leaving
    <3>2. d # c
      BY <1>3, <3>1
    <3>3. pc[d] = "expired" => lobbies'[at'[d]] = l
      <4> SUFFICES ASSUME pc[d] = "expired" PROVE lobbies'[at'[d]] = l
        OBVIOUS
      <4>1. lobbies[at[d]] = l /\ at[d] \in Endpoints
        BY <1>1, <3>1 DEF TypeOK
      <4>2. at[d] = e
        BY <1>1, <2>1, <4>1, NoneAssumption DEF ListedOnce
      <4> QED
        BY <1>5, <1>6, <2>1, <3>2, <4>2
    <3> QED
      BY <1>6, <3>1, <3>2, <3>3 DEF Leaving
  <2>4. Cardinality(DeadEntries(l, t)) <= Cardinality(Leaving(l, t))
    BY <1>1, <2>1, NoneAssumption DEF EveryDeadEntryIsLeaving
  <2>5. IsFiniteSet(DeadEntries(l, t))
    BY <1>1, CountedSetsAreFinite
  <2>6. IsFiniteSet(Leaving(l, t)')
    <3>1. Leaving(l, t)' \in SUBSET Connections
      BY DEF Leaving
    <3> QED
      BY <3>1, ConnectionsAssumption, FS_Subset
  <2> QED
    BY <2>2, <2>3, <2>4, <2>5, <2>6, StillFewer
<1>20. FinishedLobbyIsErased'
  <2> SUFFICES ASSUME NEW e \in Endpoints, lobbies'[e] # None, game[lobbies'[e]] = "Finished"
               PROVE  \E d \in Connections : pc'[d] \in {"ending", "erasing"} /\ at'[d] = e
    BY <1>2 DEF FinishedLobbyIsErased
  <2>1. e # at[c] /\ lobbies'[e] = lobbies[e]
    BY <1>5
  <2>2. PICK d \in Connections : pc[d] \in {"ending", "erasing"} /\ at[d] = e
    BY <1>1, <2>1 DEF FinishedLobbyIsErased
  <2> QED
    BY <1>6, <2>1, <2>2
<1> QED
  BY <1>9, <1>12, <1>13, <1>14, <1>15, <1>17, <1>18, <1>19, <1>20 DEF IInv
-----------------------------------------------------------------------------
(* What leave() does to the players of its lobby: nothing, or it gives up the *)
(* seat of the session, or it drops the last player.                          *)
LEMMA LeaveSeats ==
    ASSUME TypeOK, SeatedOnce, NEW c \in Connections, Leave(c)
    PROVE  /\ players' \in [Lobbies -> Seq(Sessions)]
           /\ \A l \in Lobbies : l # target[c] \/ game[l] # "Created" => players'[l] = players[l]
           /\ SeatedOnce'
           /\ \/ /\ players' = players /\ fault' = fault
                 /\ game[target[c]] = "Created" =>
                       \E x \in entries'[target[c]] : SessionOf[x] = SessionOf[c]
              \/ /\ fault' = fault
                 /\ {players'[target[c]][i] : i \in DOMAIN players'[target[c]]}
                       = SessionsIn(target[c]) \ {SessionOf[c]}
              \/ fault' \in {"wrong player", "crashed"}
<1> DEFINE m == target[c]
           s == SessionOf[c]
<1>1. m \in Lobbies /\ players \in [Lobbies -> Seq(Sessions)]
  BY LobbyInUse DEF TypeOK, Leave, In
<1>2. players[m] \in Seq(Sessions)
  BY <1>1
<1>3. \A i, j \in DOMAIN players[m] : players[m][i] = players[m][j] => i = j
  BY <1>1 DEF SeatedOnce
<1>4. \/ /\ players' = players /\ fault' = fault
         /\ game[m] = "Created" => \E x \in entries'[m] : SessionOf[x] = s
      \/ /\ fault' = fault /\ game[m] = "Created"
         /\ \E i \in DOMAIN players[m] :
               players[m][i] = s /\ players' = [players EXCEPT ![m] = RemoveAt(players[m], i)]
      \/ /\ fault' \in {"wrong player", "crashed"} /\ game[m] = "Created"
         /\ players' = [players EXCEPT ![m] = SubSeq(players[m], 1, Len(players[m]) - 1)]
  <2>1. PICK gone \in Removed(m, s) :
           /\ entries' = [entries EXCEPT ![m] = @ \ gone]
           /\ \/ /\ ~GivesUpSeat(m, EntriesOf(m, s) \ gone)
                 /\ UNCHANGED <<players, fault>>
              \/ /\ GivesUpSeat(m, EntriesOf(m, s) \ gone)
                 /\ \E i \in DOMAIN players[m] :
                       players[m][i] = s /\ players' = [players EXCEPT ![m] = RemoveAt(@, i)]
                 /\ UNCHANGED fault
              \/ /\ GivesUpSeat(m, EntriesOf(m, s) \ gone)
                 /\ players' = [players EXCEPT ![m] = SubSeq(@, 1, Len(@) - 1)]
                 /\ fault' \in {"wrong player", "crashed"}
    BY DEF Leave
  <2>2. entries'[m] = entries[m] \ gone
    BY <1>1, <2>1 DEF TypeOK
  <2>3. CASE ~GivesUpSeat(m, EntriesOf(m, s) \ gone)
    BY <2>1, <2>2, <2>3 DEF GivesUpSeat, EntriesOf
  <2>4. CASE GivesUpSeat(m, EntriesOf(m, s) \ gone)
    BY <2>1, <2>4 DEF GivesUpSeat
  <2> QED
    BY <2>3, <2>4
<1>5. CASE /\ players' = players /\ fault' = fault
           /\ game[m] = "Created" => \E x \in entries'[m] : SessionOf[x] = s
  BY <1>1, <1>5 DEF SeatedOnce
<1>6. CASE /\ fault' = fault /\ game[m] = "Created"
           /\ \E i \in DOMAIN players[m] :
                 players[m][i] = s /\ players' = [players EXCEPT ![m] = RemoveAt(players[m], i)]
  <2>1. PICK k \in DOMAIN players[m] :
           players[m][k] = s /\ players' = [players EXCEPT ![m] = RemoveAt(players[m], k)]
    BY <1>6
  <2> DEFINE old == players[m]
             left == RemoveAt(players[m], k)
  <2>2. /\ left \in Seq(Sessions) /\ Len(left) = Len(old) - 1
        /\ \A i \in DOMAIN left : left[i] = IF i < k THEN old[i] ELSE old[i + 1]
    BY <1>2, SeatsLeft
  <2>3. players'[m] = left /\ \A l \in Lobbies : l # m => players'[l] = players[l]
    BY <1>1, <2>1
  <2>4. players' \in [Lobbies -> Seq(Sessions)]
    BY <1>1, <2>1, <2>2
  <2>5. DOMAIN old = 1 .. Len(old) /\ Len(old) \in Nat /\ DOMAIN left = 1 .. Len(old) - 1
    BY <1>2, <2>2
  <2> HIDE DEF left
  <2>6. \A i, j \in DOMAIN left : left[i] = left[j] => i = j
    <3> SUFFICES ASSUME NEW i \in DOMAIN left, NEW j \in DOMAIN left, left[i] = left[j]
                 PROVE  i = j
      OBVIOUS
    <3> DEFINE src(n) == IF n < k THEN n ELSE n + 1
    <3>1. \A n \in DOMAIN left : src(n) \in DOMAIN old /\ left[n] = old[src(n)]
      BY <2>2, <2>5
    <3>2. src(i) = src(j)
      BY <1>3, <3>1
    <3> QED
      BY <2>5, <3>2
  <2>7. \A l \in Lobbies : \A i, j \in DOMAIN players'[l] : players'[l][i] = players'[l][j] => i = j
    <3> SUFFICES ASSUME NEW l \in Lobbies
                 PROVE  \A i, j \in DOMAIN players'[l] : players'[l][i] = players'[l][j] => i = j
      OBVIOUS
    <3>1. CASE l = m
      BY <2>3, <2>6, <3>1
    <3>2. CASE l # m
      BY <2>3, <3>2 DEF SeatedOnce
    <3> QED
      BY <3>1, <3>2
  <2>8. {left[i] : i \in DOMAIN left} = {old[i] : i \in DOMAIN old} \ {s}
    <3>1. ASSUME NEW i \in DOMAIN left
          PROVE  left[i] \in {old[n] : n \in DOMAIN old} /\ left[i] # s
      <4>1. CASE i < k
        BY <1>3, <2>1, <2>2, <2>5, <4>1
      <4>2. CASE ~(i < k)
        <5>1. i + 1 \in DOMAIN old /\ i + 1 # k /\ left[i] = old[i + 1]
          BY <2>2, <2>5, <4>2
        <5> QED
          BY <1>3, <2>1, <5>1
      <4> QED
        BY <4>1, <4>2
    <3>2. ASSUME NEW n \in DOMAIN old, old[n] # s
          PROVE  old[n] \in {left[i] : i \in DOMAIN left}
      <4>1. CASE n < k
        BY <2>2, <2>5, <4>1
      <4>2. CASE ~(n < k)
        <5>1. n # k
          BY <2>1, <3>2
        <5>2. n - 1 \in DOMAIN left /\ ~(n - 1 < k) /\ n - 1 + 1 = n
          BY <2>5, <4>2, <5>1
        <5>3. left[n - 1] = old[n]
          BY <2>2, <5>2
        <5> QED
          BY <5>2, <5>3
      <4> QED
        BY <4>1, <4>2
    <3> QED
      BY <3>1, <3>2
  <2>9. {players'[m][i] : i \in DOMAIN players'[m]} = SessionsIn(m) \ {s}
    BY <2>3, <2>8 DEF SessionsIn
  <2>10. SeatedOnce'
    BY <2>7 DEF SeatedOnce
  <2> QED
    BY <1>6, <2>3, <2>4, <2>9, <2>10
<1>7. CASE /\ fault' \in {"wrong player", "crashed"} /\ game[m] = "Created"
           /\ players' = [players EXCEPT ![m] = SubSeq(players[m], 1, Len(players[m]) - 1)]
  <2> DEFINE left == SubSeq(players[m], 1, Len(players[m]) - 1)
  <2>1. /\ left \in Seq(Sessions)
        /\ \A i \in DOMAIN left : i \in DOMAIN players[m] /\ left[i] = players[m][i]
    BY <1>2
  <2> HIDE DEF left
  <2>2. players' = [players EXCEPT ![m] = left]
    BY <1>7 DEF left
  <2>3. players'[m] = left /\ \A l \in Lobbies : l # m => players'[l] = players[l]
    BY <1>1, <2>2
  <2>4. players' \in [Lobbies -> Seq(Sessions)]
    BY <1>1, <2>1, <2>2
  <2>5. \A l \in Lobbies : \A i, j \in DOMAIN players'[l] : players'[l][i] = players'[l][j] => i = j
    <3> SUFFICES ASSUME NEW l \in Lobbies
                 PROVE  \A i, j \in DOMAIN players'[l] : players'[l][i] = players'[l][j] => i = j
      OBVIOUS
    <3>1. CASE l = m
      BY <1>3, <2>1, <2>3, <3>1
    <3>2. CASE l # m
      BY <2>3, <3>2 DEF SeatedOnce
    <3> QED
      BY <3>1, <3>2
  <2> QED
    BY <1>7, <2>3, <2>4, <2>5 DEF SeatedOnce
<1> QED
  BY <1>4, <1>5, <1>6, <1>7

(* leave() removes an expired entry of the session when there is one, for the *)
(* destructor that called it, and the seat with the last entry.               *)
LEMMA LeaveIInv ==
    ASSUME IInv, NEW c \in Connections, Leave(c)
    PROVE  IInv'
<1> DEFINE m == target[c]
           s == SessionOf[c]
<1>1. /\ TypeOK /\ UnbornIsUnknown /\ ListedOnce /\ NameIsKept /\ SeatedOnce
      /\ SeatsFollowConnections /\ CreatorPlays
      /\ EveryDeadEntryIsLeaving /\ FinishedLobbyIsErased
  BY DEF IInv
<1>2. pc[c] = "leaving" /\ UNCHANGED <<lobbies, game, kind, creator>>
  BY DEF Leave, In
<1>3. m \in Lobbies /\ at[c] \in Endpoints /\ s \in Sessions
  BY <1>1, <1>2, LobbyInUse, ConnectionsAssumption
<1>4. PICK gone \in Removed(m, s) :
         /\ entries' = [entries EXCEPT ![m] = @ \ gone]
         /\ GivesUpSeat(m, EntriesOf(m, s) \ gone) \/ UNCHANGED <<players, fault>>
  BY DEF Leave
<1>5. PICK label \in {"none", "erasing"} : Return(c, label)
  BY DEF Leave
<1>6. /\ pc' = [pc EXCEPT ![c] = label] /\ pc'[c] = label
      /\ target' = [target EXCEPT ![c] = None] /\ target'[c] = None
      /\ at' = IF label = "none" THEN [at EXCEPT ![c] = None] ELSE at
      /\ label # "none" => at'[c] = at[c]
      /\ \A d \in Connections \ {c} :
            at'[d] = at[d] /\ pc'[d] = pc[d] /\ target'[d] = target[d]
  BY <1>1, <1>5, ReturnMoves
<1>7. /\ players' \in [Lobbies -> Seq(Sessions)]
      /\ \A l \in Lobbies : l # m \/ game[l] # "Created" => players'[l] = players[l]
      /\ SeatedOnce'
      /\ \/ /\ players' = players /\ fault' = fault
            /\ game[m] = "Created" => \E x \in entries'[m] : SessionOf[x] = s
         \/ /\ fault' = fault
            /\ {players'[m][i] : i \in DOMAIN players'[m]} = SessionsIn(m) \ {s}
         \/ fault' \in {"wrong player", "crashed"}
  BY <1>1, LeaveSeats
<1>8. entries[m] \subseteq Connections /\ entries \in [Lobbies -> SUBSET Connections]
  BY <1>1, <1>3 DEF TypeOK
<1>9. /\ gone \subseteq DeadEntries(m, s)
      /\ DeadEntries(m, s) # {} => \E x \in DeadEntries(m, s) : gone = {x}
  BY DEF Removed
<1>10. /\ entries' \in [Lobbies -> SUBSET Connections]
       /\ \A l \in Lobbies : entries'[l] = IF l = m THEN entries[m] \ gone ELSE entries[l]
  BY <1>3, <1>4, <1>8
<1>11. \A l \in Lobbies : entries'[l] \subseteq entries[l]
  BY <1>10
<1>12. \A d \in Connections : Expired(d)' <=> Expired(d)
  BY <1>2, <1>6 DEF Expired
<1>13. \A d \in Connections, l \in Lobbies : target'[d] = l => target[d] = l /\ d # c
  BY <1>6, NoneAssumption
<1>14. TypeOK'
  <2>1. /\ pc \in [Connections -> {"none", "accepting", "open", "closed"} \cup Busy]
        /\ at \in [Connections -> Endpoints \cup {None}]
        /\ target \in [Connections -> Lobbies \cup {None}]
    BY <1>1 DEF TypeOK
  <2>2. pc' \in [Connections -> {"none", "accepting", "open", "closed"} \cup Busy]
    BY <1>6, <2>1 DEF Busy
  <2>3. at' \in [Connections -> Endpoints \cup {None}]
    BY <1>6, <2>1
  <2>4. target' \in [Connections -> Lobbies \cup {None}]
    BY <1>6, <2>1
  <2>5. ASSUME NEW d \in Connections
        PROVE  /\ pc'[d] \in {"joining", "handling", "leaving"} <=> target'[d] # None
               /\ pc'[d] # "none" => at'[d] \in Endpoints
    <3>1. CASE d = c
      BY <1>3, <1>6, <3>1
    <3>2. CASE d # c
      BY <1>1, <1>6, <3>2 DEF TypeOK
    <3> QED
      BY <3>1, <3>2
  <2>6. fault' \in {"none", "wrong player", "crashed"}
    BY <1>1, <1>7 DEF TypeOK
  <2> QED
    BY <1>1, <1>2, <1>7, <1>10, <2>2, <2>3, <2>4, <2>5, <2>6 DEF TypeOK
<1>15. UnbornIsUnknown'
  <2> SUFFICES ASSUME NEW l \in Lobbies, game[l] = "Unborn"
               PROVE  /\ players'[l] = <<>> /\ entries'[l] = {} /\ ~Listed(l)
                      /\ \A d \in Connections : target'[d] # l
    BY <1>2 DEF UnbornIsUnknown, Listed
  <2>1. /\ players[l] = <<>> /\ entries[l] = {} /\ ~Listed(l)
        /\ \A d \in Connections : target[d] # l
    BY <1>1 DEF UnbornIsUnknown
  <2> QED
    BY <1>7, <1>11, <1>13, <2>1
<1>16. ListedOnce'
  BY <1>1, <1>2 DEF ListedOnce
<1>17. NameIsKept'
  <2> SUFFICES ASSUME NEW d \in Connections, NEW l \in Lobbies, Listed(l),
                      target'[d] = l \/ (d \in entries'[l] /\ ~Expired(d))
               PROVE  lobbies[at'[d]] = l
    BY <1>2, <1>12 DEF NameIsKept, Listed
  <2>1. target[d] = l \/ (d \in entries[l] /\ ~Expired(d))
    BY <1>11, <1>13
  <2>2. d # c
    BY <1>2, <1>13 DEF Expired
  <2> QED
    BY <1>1, <1>6, <2>1, <2>2 DEF NameIsKept
<1>18. SeatsFollowConnections'
  <2> SUFFICES ASSUME fault' = "none", NEW l \in Lobbies, game[l] = "Created"
               PROVE  /\ {players'[l][i] : i \in DOMAIN players'[l]} = {SessionOf[d] : d \in entries'[l]}
                      /\ Cardinality({players'[l][i] : i \in DOMAIN players'[l]}) = Len(players'[l])
    BY <1>2 DEF SeatsFollowConnections, SessionsIn
  <2> DEFINE new == {players'[l][i] : i \in DOMAIN players'[l]}
  <2>1. Cardinality(new) = Len(players'[l])
    <3>1. players'[l] \in Seq(Sessions)
      BY <1>7
    <3>2. \A i, j \in DOMAIN players'[l] : players'[l][i] = players'[l][j] => i = j
      BY <1>7 DEF SeatedOnce
    <3> QED
      BY <3>1, <3>2, DifferentSeatsAreCounted
  <2>2. fault = "none"
    BY <1>7
  <2>3. SessionsIn(l) = {SessionOf[d] : d \in entries[l]}
    BY <1>1, <2>2 DEF SeatsFollowConnections
  <2>4. new = {SessionOf[d] : d \in entries'[l]}
    <3>1. CASE l # m
      <4>1. players'[l] = players[l] /\ entries'[l] = entries[l]
        BY <1>7, <1>10, <3>1
      <4> QED
        BY <2>3, <4>1 DEF SessionsIn
    <3>2. CASE l = m /\ EntriesOf(m, s) \ gone # {}
      <4>1. players' = players
        BY <1>4, <3>2 DEF GivesUpSeat
      <4>2. new = SessionsIn(l)
        BY <4>1 DEF SessionsIn
      <4>3. PICK x \in entries[m] \ gone : SessionOf[x] = s
        BY <3>2 DEF EntriesOf
      <4>4. \A d \in gone : SessionOf[d] = s
        BY <1>9 DEF DeadEntries, EntriesOf
      <4>5. entries'[l] = entries[m] \ gone
        BY <1>10, <3>2
      <4>6. {SessionOf[d] : d \in entries[m]} \subseteq {SessionOf[d] : d \in entries[m] \ gone}
        BY <4>3, <4>4
      <4> QED
        BY <2>3, <3>2, <4>2, <4>5, <4>6
    <3>3. CASE l = m /\ EntriesOf(m, s) \ gone = {}
      <4>1. \A d \in gone : SessionOf[d] = s
        BY <1>9 DEF DeadEntries, EntriesOf
      <4>2. entries'[l] = entries[m] \ gone
        BY <1>10, <3>3
      <4>3. \A d \in entries[m] \ gone : SessionOf[d] # s
        BY <3>3 DEF EntriesOf
      <4>4. {SessionOf[d] : d \in entries[m] \ gone} = {SessionOf[d] : d \in entries[m]} \ {s}
        BY <4>1, <4>3
      <4>5. ~\E x \in entries'[m] : SessionOf[x] = s
        BY <3>3, <4>2, <4>3
      <4>6. {players'[m][i] : i \in DOMAIN players'[m]} = SessionsIn(m) \ {s}
        BY <1>7, <2>2, <3>3, <4>5
      <4>7. new = SessionsIn(m) \ {s}
        BY <3>3, <4>6
      <4>8. SessionsIn(m) = {SessionOf[d] : d \in entries[m]}
        BY <2>3, <3>3
      <4>9. {SessionOf[d] : d \in entries'[l]} = SessionsIn(m) \ {s}
        BY <4>2, <4>4, <4>8
      <4> HIDE DEF new
      <4> QED
        BY <4>7, <4>9
    <3> QED
      BY <3>1, <3>2, <3>3
  <2> HIDE DEF new
  <2> QED
    BY <2>1, <2>4 DEF new
<1>19. CreatorPlays'
  <2> SUFFICES ASSUME fault' = "none", NEW l \in Lobbies, game[l] \in {"Started", "Finished"}
               PROVE  creator[l] \in SessionsIn(l)' /\ Len(players'[l]) >= MinPlayers
    BY <1>2 DEF CreatorPlays
  <2>1. players'[l] = players[l] /\ fault = "none"
    BY <1>7
  <2> QED
    BY <1>1, <2>1 DEF CreatorPlays, SessionsIn
<1>20. EveryDeadEntryIsLeaving'
  <2> SUFFICES ASSUME NEW e \in Endpoints, NEW t \in Sessions, NEW l \in Lobbies, lobbies[e] = l
               PROVE  Cardinality(DeadEntries(l, t)') <= Cardinality(Leaving(l, t)')
    BY <1>1, <1>2 DEF EveryDeadEntryIsLeaving, TypeOK
  <2>1. Cardinality(DeadEntries(l, t)) <= Cardinality(Leaving(l, t))
    BY <1>1, NoneAssumption DEF EveryDeadEntryIsLeaving
  <2>2. IsFiniteSet(DeadEntries(l, t)) /\ IsFiniteSet(Leaving(l, t))
    BY <1>1, CountedSetsAreFinite
  <2>3. IsFiniteSet(Leaving(l, t)')
    <3>1. Leaving(l, t)' \in SUBSET Connections
      BY DEF Leaving
    <3> QED
      BY <3>1, ConnectionsAssumption, FS_Subset
  <2>4. DeadEntries(l, t)' \subseteq DeadEntries(l, t)
    <3>1. entries[l] \subseteq Connections
      BY <1>1 DEF TypeOK
    <3> QED
      BY <1>11, <1>12, <3>1 DEF DeadEntries, EntriesOf
  <2>5. Leaving(l, t) \ {c} \subseteq Leaving(l, t)'
    BY <1>2, <1>6 DEF Leaving
  <2>6. CASE l # m \/ t # s
    <3>1. c \notin Leaving(l, t)
      BY <1>2, <2>6 DEF Leaving
    <3>2. Leaving(l, t) \subseteq Leaving(l, t)'
      BY <2>5, <3>1
    <3> QED
      BY <2>1, <2>2, <2>3, <2>4, <3>2, StillFewer
  <2>7. CASE l = m /\ t = s /\ DeadEntries(m, s) # {}
    <3>1. PICK x \in DeadEntries(l, t) : gone = {x}
      BY <1>9, <2>7
    <3>2. x \notin entries'[l]
      BY <1>10, <2>7, <3>1
    <3>3. x \notin DeadEntries(l, t)'
      BY <3>2 DEF DeadEntries, EntriesOf
    <3>4. DeadEntries(l, t)' \subseteq DeadEntries(l, t) \ {x}
      BY <2>4, <3>3
    <3>5. x \in DeadEntries(l, t)
      BY <3>1
    <3> HIDE DEF m, s
    <3> QED
      BY <2>1, <2>2, <2>3, <2>5, <3>4, <3>5, StillFewerWithOneLess
  <2>8. CASE l = m /\ t = s /\ DeadEntries(m, s) = {}
    <3>1. DeadEntries(l, t)' = {}
      BY <2>4, <2>8
    <3>2. Cardinality(Leaving(l, t)') \in Nat
      BY <2>3, FS_CardinalityType
    <3>3. Cardinality({}) = 0
      BY FS_EmptySet
    <3> QED
      BY <3>1, <3>2, <3>3
  <2> QED
    BY <2>6, <2>7, <2>8
<1>21. FinishedLobbyIsErased'
  <2> SUFFICES ASSUME NEW e \in Endpoints, lobbies[e] # None, game[lobbies[e]] = "Finished"
               PROVE  \E d \in Connections : pc'[d] \in {"ending", "erasing"} /\ at'[d] = e
    BY <1>2 DEF FinishedLobbyIsErased
  <2>1. PICK d \in Connections : pc[d] \in {"ending", "erasing"} /\ at[d] = e
    BY <1>1 DEF FinishedLobbyIsErased
  <2> QED
    BY <1>2, <1>6, <2>1
<1>22. SeatedOnce'
  BY <1>7
<1> QED
  BY <1>14, <1>15, <1>16, <1>17, <1>18, <1>19, <1>20, <1>21, <1>22 DEF IInv
-----------------------------------------------------------------------------
(* Every step keeps the invariant.                                           *)
LEMMA NextIInv == IInv /\ [Next]_vars => IInv'
<1> SUFFICES ASSUME IInv, [Next]_vars PROVE IInv'
  OBVIOUS
<1>1. ASSUME NEW s \in Sessions, NEW l \in Lobbies, NEW e \in Endpoints, NEW k \in Kinds,
             AddLobby(s, l, e, k)
      PROVE  IInv'
  BY <1>1, AddLobbyIInv
<1>2. ASSUME NEW c \in Connections, NEW e \in Endpoints, CanAcceptConnection(c, e)
      PROVE  IInv'
  BY <1>2, CanAcceptConnectionIInv
<1>3. ASSUME NEW c \in Connections, AcceptConnection(c) PROVE IInv'
  BY <1>3, AcceptConnectionIInv
<1>4. ASSUME NEW c \in Connections, OnMessage(c) PROVE IInv'
  BY <1>4, OnMessageIInv
<1>5. ASSUME NEW c \in Connections, ReadFails(c) PROVE IInv'
  BY <1>5, ReadFailsIInv
<1>6. ASSUME NEW c \in Connections, Join(c) PROVE IInv'
  BY <1>6, JoinIInv
<1>7. ASSUME NEW c \in Connections, HandleStart(c) PROVE IInv'
  BY <1>7, HandleStartIInv
<1>8. ASSUME NEW c \in Connections, HandleEnd(c) PROVE IInv'
  BY <1>8, HandleEndIInv
<1>9. ASSUME NEW c \in Connections, HandleOther(c) PROVE IInv'
  BY <1>9, HandleOtherIInv
<1>10. ASSUME NEW c \in Connections, RemoveConnection(c) PROVE IInv'
  BY <1>10, RemoveConnectionIInv
<1>11. ASSUME NEW c \in Connections, Leave(c) PROVE IInv'
  BY <1>11, LeaveIInv
<1>12. ASSUME NEW c \in Connections, Erase(c) PROVE IInv'
  BY <1>12, EraseIInv
<1>13. CASE UNCHANGED vars
  <2>1. /\ lobbies' = lobbies /\ game' = game /\ kind' = kind /\ creator' = creator
        /\ players' = players /\ entries' = entries
        /\ pc' = pc /\ at' = at /\ target' = target /\ fault' = fault
    BY <1>13 DEF vars, lobbyVars
  <2>2. TypeOK' /\ UnbornIsUnknown' /\ ListedOnce'
    BY <2>1 DEF IInv, TypeOK, UnbornIsUnknown, ListedOnce, Listed
  <2>3. NameIsKept' /\ SeatedOnce' /\ FinishedLobbyIsErased'
    BY <2>1 DEF IInv, NameIsKept, SeatedOnce, FinishedLobbyIsErased, Listed, Expired
  <2>4. SeatsFollowConnections' /\ CreatorPlays'
    BY <2>1 DEF IInv, SeatsFollowConnections, CreatorPlays, SessionsIn
  <2>5. EveryDeadEntryIsLeaving'
    BY <2>1 DEF IInv, EveryDeadEntryIsLeaving, DeadEntries, EntriesOf, Expired, Leaving
  <2> QED
    BY <2>2, <2>3, <2>4, <2>5 DEF IInv
<1> QED
  BY <1>1, <1>2, <1>3, <1>4, <1>5, <1>6, <1>7, <1>8, <1>9, <1>10, <1>11, <1>12, <1>13
  DEF Next, Continue, Handle

(* The inductive invariant holds in every reachable state.                   *)
THEOREM Invariance == Spec => []IInv
  BY InitIInv, NextIInv, PTL DEF Spec

(* Every variable of the server has its type, and a connection has a lobby   *)
(* in hand exactly while it joins, handles a message or leaves.              *)
THEOREM TypeCorrectness == Spec => []TypeOK
<1>1. IInv => TypeOK
  BY DEF IInv
<1> QED
  BY <1>1, Invariance, PTL

(* Until a game starts, the seats of join() and leave() are those of the     *)
(* sessions that have a connection in the lobby, one each.                   *)
THEOREM SeatsMatchConnections == Spec => []SeatsFollowConnections
<1>1. IInv => SeatsFollowConnections
  BY DEF IInv
<1> QED
  BY <1>1, Invariance, PTL

(* The creator plays in the game that was started, with enough others.       *)
THEOREM StartedGameHasItsCreator == Spec => []CreatorPlays
<1>1. IInv => CreatorPlays
  BY DEF IInv
<1> QED
  BY <1>1, Invariance, PTL

(* For each expired entry of a listed lobby a destructor will call leave().  *)
THEOREM DeadEntriesLeave == Spec => []EveryDeadEntryIsLeaving
<1>1. IInv => EveryDeadEntryIsLeaving
  BY DEF IInv
<1> QED
  BY <1>1, Invariance, PTL

(* While the lobby of a finished game is listed, some thread is about to     *)
(* erase its name.                                                           *)
THEOREM FinishedLobbiesGo == Spec => []FinishedLobbyIsErased
<1>1. IInv => FinishedLobbyIsErased
  BY DEF IInv
<1> QED
  BY <1>1, Invariance, PTL

(* Nobody takes or loses a seat once the game has started: join() only takes *)
(* back those who have one, and leave() keeps the seats.                     *)
THEOREM SeatsStay == Spec => SeatsAreKept
<1> DEFINE Kept == \A l \in Lobbies :
                      game[l] \in {"Started", "Finished"} => players'[l] = players[l]
<1>1. IInv /\ [Next]_vars => [Kept]_vars
  <2> SUFFICES ASSUME IInv, Next PROVE Kept
    OBVIOUS
  <2>1. TypeOK /\ SeatedOnce
    BY DEF IInv
  <2>2. ASSUME NEW c \in Connections, Join(c) PROVE Kept
    <3>1. target[c] \in Lobbies /\ players \in [Lobbies -> Seq(Sessions)]
      BY <2>1, <2>2, LobbyInUse DEF Join, In, TypeOK
    <3>2. \/ players' = players
          \/ /\ game[target[c]] = "Created"
             /\ players' = [players EXCEPT ![target[c]] = Append(@, SessionOf[c])]
      BY <2>2 DEF Join, Joins
    <3> QED
      BY <3>1, <3>2
  <2>3. ASSUME NEW c \in Connections, Leave(c) PROVE Kept
    BY <2>1, <2>3, LeaveSeats
  <2>4. CASE UNCHANGED lobbyVars
    BY <2>4 DEF lobbyVars
  <2>5. CASE UNCHANGED players
    BY <2>5
  <2> HIDE DEF Kept
  <2>6. ASSUME NEW s \in Sessions, NEW l \in Lobbies, NEW e \in Endpoints, NEW k \in Kinds,
               AddLobby(s, l, e, k)
        PROVE  Kept
    BY <2>5, <2>6 DEF AddLobby
  <2>7. ASSUME NEW c \in Connections, NEW e \in Endpoints, CanAcceptConnection(c, e)
        PROVE  Kept
    BY <2>4, <2>7 DEF CanAcceptConnection
  <2>8. ASSUME NEW c \in Connections, AcceptConnection(c) \/ OnMessage(c) \/ ReadFails(c)
        PROVE  Kept
    BY <2>4, <2>8 DEF AcceptConnection, OnMessage, ReadFails
  <2>9. ASSUME NEW c \in Connections, HandleStart(c) \/ HandleEnd(c) PROVE Kept
    BY <2>5, <2>9 DEF HandleStart, HandleEnd
  <2>10. ASSUME NEW c \in Connections, HandleOther(c) \/ RemoveConnection(c) \/ Erase(c)
         PROVE  Kept
    BY <2>4, <2>10 DEF HandleOther, RemoveConnection, Erase
  <2> QED
    BY <2>2, <2>3, <2>6, <2>7, <2>8, <2>9, <2>10 DEF Next, Continue, Handle
<1> QED
  BY <1>1, Invariance, PTL DEF Spec, SeatsAreKept
=============================================================================
