------------------------------- MODULE LobbyServer -------------------------------
(***************************************************************************)
(* The life of a lobby (src/src/server/Server.cpp, BasicLobby.cpp and the  *)
(* onMessage of LobbyEnfer.cpp and LobbyUno.cpp): connections are accepted, *)
(* join, send messages and expire; the lobby is created, fills, is started, *)
(* finishes and is erased from the server.                                 *)
(*                                                                         *)
(* An io thread runs a coroutine from the end of one asynchronous accept or *)
(* read to the start of the next, so at most Threads connections are in    *)
(* the middle of an operation.  One step is one critical section: the      *)
(* server's mutex (getLobby, the erasure) or the lobby's (join, onMessage, *)
(* leave).  Between two of them other threads run: pc says where.          *)
(* The games inside a lobby are in EnferGame and UnoGame.                  *)
(***************************************************************************)
EXTENDS Integers, SequencesExt

CONSTANTS
    Sessions, Connections,
    SessionOf,         \* the session cookie of a connection
    Lobbies,           \* lobby objects, each created at most once
    Endpoints,         \* their names: a name is used again after its lobby is erased
    Threads,           \* how many io threads: nb_threads of main()
    MinPlayers,        \* players START asks for, 3 in the code
    None

VARIABLES
    lobbies,                          \* Server::lobbies_
    game, kind, creator,              \* of a lobby: gameState(), its class, creator_
    players, entries,                 \* players_, connections_
    pc, at, target,                   \* of a connection: progress, endpoint_, the lobby in use
    fault                             \* what leave() did outside the language

lobbyVars == <<game, kind, creator, players, entries>>
vars == <<lobbies, lobbyVars, pc, at, target, fault>>

ASSUME ConnectionsAssumption == IsFiniteSet(Connections) /\ SessionOf \in [Connections -> Sessions]
ASSUME MinPlayersAssumption == MinPlayers \in Nat \ {0}
ASSUME NoneAssumption == None \notin Lobbies \cup Endpoints \cup Sessions

Kinds == {"ENFER", "UNO"}

(* Where a thread is inside the server for a connection. *)
Busy == {"joining", "handling", "ending", "expired", "leaving", "erasing"}

(* The server runs, and has a thread for one more operation. *)
Running == fault # "crashed"
ThreadFree == Running /\ Cardinality({c \in Connections : pc[c] \in Busy}) < Threads
In(c, label) == Running /\ pc[c] = label

(* The weak_ptr of a connection in a lobby has expired: its destructor runs, or ran. *)
Expired(c) == pc[c] \in {"none", "expired", "leaving", "erasing"}

Seated(l, s) == \E i \in DOMAIN players[l] : players[l][i] = s

Goto(c, label) == pc' = [pc EXCEPT ![c] = label]

(* The end of an operation: its pointer to the lobby is dropped, and the endpoint *)
(* with the session.                                                             *)
Return(c, label) ==
    /\ Goto(c, label)
    /\ target' = [target EXCEPT ![c] = None]
    /\ at' = IF label = "none" THEN [at EXCEPT ![c] = None] ELSE at

(* GetLobby with the test of the pointer forgotten. *)
GetLobby_Unchecked(c, next, otherwise) ==
    Goto(c, next) /\ target' = [target EXCEPT ![c] = lobbies[at[c]]] /\ UNCHANGED at

(* getLobby for the endpoint: on to next with the lobby, or to otherwise. *)
GetLobby(c, next, otherwise) ==
    LET l == lobbies[at[c]] IN
    IF l = None THEN Return(c, otherwise)
    ELSE Goto(c, next) /\ target' = [target EXCEPT ![c] = l] /\ UNCHANGED at

Init ==
    /\ lobbies = [e \in Endpoints |-> None]
    /\ game = [l \in Lobbies |-> "Unborn"]
    /\ kind = [l \in Lobbies |-> None]
    /\ creator = [l \in Lobbies |-> None]
    /\ players = [l \in Lobbies |-> <<>>]
    /\ entries = [l \in Lobbies |-> {}]
    /\ pc = [c \in Connections |-> "none"]
    /\ at = [c \in Connections |-> None]
    /\ target = [c \in Connections |-> None]
    /\ fault = "none"
-----------------------------------------------------------------------------
(* GlobalLobby::onMessage START and Server::addLobby. *)
AddLobby(s, l, e, k) ==
    /\ ThreadFree
    /\ game[l] = "Unborn"
    /\ lobbies[e] = None
    /\ lobbies' = [lobbies EXCEPT ![e] = l]
    /\ game' = [game EXCEPT ![l] = "Created"]
    /\ kind' = [kind EXCEPT ![l] = k]
    /\ creator' = [creator EXCEPT ![l] = s]
    /\ UNCHANGED <<players, entries, pc, at, target, fault>>

(* A new WebsocketSession: the lobby exists when canAcceptConnection looks. *)
CanAcceptConnection(c, e) ==
    /\ ThreadFree
    /\ pc[c] = "none"
    /\ \A l \in Lobbies : c \notin entries[l]
    /\ lobbies[e] # None
    /\ at' = [at EXCEPT ![c] = e]
    /\ Goto(c, "accepting")
    /\ UNCHANGED <<lobbies, lobbyVars, target, fault>>

(* run() after async_accept, failed or not; acceptConnection looks the lobby up again. *)
AcceptConnection(c) ==
    /\ ThreadFree
    /\ pc[c] = "accepting"
    /\ Return(c, "expired") \/ GetLobby(c, "joining", "open")
    /\ UNCHANGED <<lobbies, lobbyVars, fault>>

(* BasicLobby::join. *)
Joins(c, l) == game[l] = "Created" \/ (game[l] = "Started" /\ Seated(l, SessionOf[c]))

Join(c) == LET l == target[c] IN
    /\ In(c, "joining")
    /\ IF Joins(c, l)
       THEN /\ entries' = [entries EXCEPT ![l] = @ \cup {c}]
            /\ players' = IF Seated(l, SessionOf[c]) THEN players
                          ELSE [players EXCEPT ![l] = Append(@, SessionOf[c])]
            /\ Return(c, "open")
       ELSE Return(c, "closed") /\ UNCHANGED <<entries, players>>
    /\ UNCHANGED <<lobbies, game, kind, creator, fault>>
-----------------------------------------------------------------------------
(* Server::onMessage. *)
OnMessage(c) ==
    /\ ThreadFree
    /\ pc[c] = "open"
    /\ GetLobby(c, "handling", "closed")
    /\ UNCHANGED <<lobbies, lobbyVars, fault>>

(* MayStart open to every player. *)
MayStart_AnyPlayer(c, l) == Len(players[l]) >= MinPlayers /\ game[l] = "Created"

MayStart(c, l) ==
    /\ SessionOf[c] = creator[l]
    /\ Len(players[l]) >= MinPlayers
    /\ game[l] = "Created"

(* START.  The order reorderPlayers leaves the seats in is not modelled. *)
HandleStart(c) == LET l == target[c] IN
    /\ In(c, "handling")
    /\ Seated(l, SessionOf[c])
    /\ MayStart(c, l)
    /\ game' = [game EXCEPT ![l] = "Started"]
    /\ Return(c, "open")
    /\ UNCHANGED <<lobbies, kind, creator, players, entries, fault>>

(* A message the lobby answers with true: the card that ends the game of enfer, *)
(* or any later message it accepts; the END of the creator of a game of uno.    *)
HandleEnd(c) == LET l == target[c] IN
    /\ In(c, "handling")
    /\ Seated(l, SessionOf[c])
    /\ \/ /\ kind[l] = "ENFER"
          /\ game[l] \in {"Started", "Finished"}
          /\ game' = [game EXCEPT ![l] = "Finished"]
       \/ /\ kind[l] = "UNO"
          /\ game[l] = "Started"
          /\ SessionOf[c] = creator[l]
          /\ UNCHANGED game
    /\ Return(c, "ending")
    /\ UNCHANGED <<lobbies, kind, creator, players, entries, fault>>

(* Any other message, or one that is refused: a game of uno throws out of the *)
(* coroutine when the sender is not one of the players.                       *)
HandleOther(c) == LET l == target[c] IN
    /\ In(c, "handling")
    /\ Return(c, IF kind[l] = "UNO" /\ ~Seated(l, SessionOf[c]) THEN "expired" ELSE "open")
    /\ UNCHANGED <<lobbies, lobbyVars, fault>>
-----------------------------------------------------------------------------
(* The read fails, times out or finds the connection closed: the coroutine ends. *)
ReadFails(c) ==
    /\ ThreadFree
    /\ pc[c] \in {"open", "closed"}
    /\ Goto(c, "expired")
    /\ UNCHANGED <<lobbies, lobbyVars, at, target, fault>>

(* ~WebsocketSession: Server::removeConnection. *)
RemoveConnection(c) ==
    /\ In(c, "expired")
    /\ GetLobby(c, "leaving", "none")
    /\ UNCHANGED <<lobbies, lobbyVars, fault>>

EntriesOf(l, s) == {x \in entries[l] : SessionOf[x] = s}
DeadEntries(l, s) == {x \in EntriesOf(l, s) : Expired(x)}

(* The search for an expired entry given up at the first that is alive. *)
Removed_StopAtLive(l, s) ==
    IF DeadEntries(l, s) = EntriesOf(l, s) /\ EntriesOf(l, s) # {}
    THEN {{x} : x \in DeadEntries(l, s)} ELSE {{}}

(* What leave() may erase for a session: one of its expired entries, if any. *)
Removed(l, s) ==
    IF DeadEntries(l, s) = {} THEN {{}} ELSE {{x} : x \in DeadEntries(l, s)}

(* GivesUpSeat also when the game is played, and when another window is open. *)
GivesUpSeat_AnyState(l, kept) == kept = {}
GivesUpSeat_AnyWindow(l, kept) == game[l] = "Created"

(* No connection of the session is left, whether or not there was one. *)
GivesUpSeat(l, kept) == game[l] = "Created" /\ kept = {}

(* BasicLobby::leave.  players_.erase(end()), for a session without a seat, drops *)
(* the last player or, when there is none, writes before the vector.             *)
Leave(c) ==
    LET l == target[c]  s == SessionOf[c] IN
    /\ In(c, "leaving")
    /\ \E gone \in Removed(l, s) :
          /\ entries' = [entries EXCEPT ![l] = @ \ gone]
          /\ \/ /\ ~GivesUpSeat(l, EntriesOf(l, s) \ gone)
                /\ UNCHANGED <<players, fault>>
             \/ /\ GivesUpSeat(l, EntriesOf(l, s) \ gone)
                /\ \E i \in DOMAIN players[l] :
                      players[l][i] = s /\ players' = [players EXCEPT ![l] = RemoveAt(@, i)]
                /\ UNCHANGED fault
             \/ /\ GivesUpSeat(l, EntriesOf(l, s) \ gone)
                /\ ~Seated(l, s)
                /\ players' = [players EXCEPT ![l] = SubSeq(@, 1, Len(@) - 1)]
                /\ fault' = IF players[l] = <<>> THEN "crashed" ELSE "wrong player"
    /\ Return(c, IF game[l] # "Started" /\ players'[l] = <<>> THEN "erasing" ELSE "none")
    /\ UNCHANGED <<lobbies, game, kind, creator>>

(* Erased with the answer of onMessage ignored. *)
Erased_ByLeaveOnly(c) ==
    IF pc[c] = "ending" THEN lobbies ELSE [lobbies EXCEPT ![at[c]] = None]

Erased(c) == [lobbies EXCEPT ![at[c]] = None]

(* The end of Server::onMessage and of removeConnection: whatever lobby has the *)
(* endpoint is erased.                                                          *)
Erase(c) ==
    /\ In(c, "ending") \/ In(c, "erasing")
    /\ lobbies' = Erased(c)
    /\ Return(c, IF pc[c] = "ending" THEN "open" ELSE "none")
    /\ UNCHANGED <<lobbyVars, fault>>

Handle(c) == HandleStart(c) \/ HandleEnd(c) \/ HandleOther(c)

(* What a thread does once it has begun. *)
Continue(c) == Join(c) \/ Handle(c) \/ RemoveConnection(c) \/ Leave(c) \/ Erase(c)

Next ==
    \/ \E s \in Sessions, l \in Lobbies, e \in Endpoints, k \in Kinds : AddLobby(s, l, e, k)
    \/ \E c \in Connections, e \in Endpoints : CanAcceptConnection(c, e)
    \/ \E c \in Connections :
          AcceptConnection(c) \/ OnMessage(c) \/ ReadFails(c) \/ Continue(c)

Spec == Init /\ [][Next]_vars
=============================================================================
