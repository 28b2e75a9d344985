------------------------ MODULE LobbyServerProperties ------------------------
(***************************************************************************)
(* What keeps a lobby, its players and its connections in step.            *)
(***************************************************************************)
EXTENDS LobbyServer

(* Every variable has its type, and whoever is in the middle of an operation on a *)
(* lobby has the lobby: it was found when it was looked up.                       *)
TypeOK ==
    /\ lobbies \in [Endpoints -> Lobbies \cup {None}]
    /\ game \in [Lobbies -> {"Unborn", "Created", "Started", "Finished"}]
    /\ kind \in [Lobbies -> Kinds \cup {None}]
    /\ creator \in [Lobbies -> Sessions \cup {None}]
    /\ players \in [Lobbies -> Seq(Sessions)]
    /\ entries \in [Lobbies -> SUBSET Connections]
    /\ pc \in [Connections -> {"none", "accepting", "open", "closed"} \cup Busy]
    /\ at \in [Connections -> Endpoints \cup {None}]
    /\ target \in [Connections -> Lobbies \cup {None}]
    /\ fault \in {"none", "wrong player", "crashed"}
    /\ \A c \in Connections :
          /\ pc[c] \in {"joining", "handling", "leaving"} <=> target[c] # None
          /\ pc[c] # "none" => at[c] \in Endpoints

SessionsIn(l) == {players[l][i] : i \in DOMAIN players[l]}

(* Until the game starts, the players are exactly the sessions with a connection *)
(* in the lobby, each seated once: a second window of a player who has left      *)
(* keeps the seat, the last one gives it up.                                     *)
SeatsFollowConnections ==
    fault = "none" =>
        \A l \in Lobbies : game[l] = "Created" =>
            /\ SessionsIn(l) = {SessionOf[c] : c \in entries[l]}
            /\ Cardinality(SessionsIn(l)) = Len(players[l])

Leaving(l, s) ==
    {c \in Connections : /\ SessionOf[c] = s
                         /\ \/ pc[c] = "expired" /\ lobbies[at[c]] = l
                            \/ pc[c] = "leaving" /\ target[c] = l}

(* A dead connection does not hold a seat for ever: for each expired entry of a  *)
(* listed lobby a destructor is still to call leave() for that session, which    *)
(* removes one, its own or another.                                              *)
EveryDeadEntryIsLeaving ==
    \A e \in Endpoints, s \in Sessions : lobbies[e] # None =>
        LET l == lobbies[e] IN
        Cardinality(DeadEntries(l, s)) <= Cardinality(Leaving(l, s))

(* A game that runs has enough players and the creator among them, without whom *)
(* nobody could go to the next round or end it.                                 *)
CreatorPlays ==
    fault = "none" =>
        \A l \in Lobbies : game[l] \in {"Started", "Finished"} =>
            creator[l] \in SessionsIn(l) /\ Len(players[l]) >= MinPlayers

(* Once the game has started nobody loses a seat or takes one, whoever leaves *)
(* or comes: the engines know the players by their index.                     *)
SeatsAreKept ==
    [][\A l \in Lobbies : game[l] \in {"Started", "Finished"} => players'[l] = players[l]]_vars

(* The lobby of a finished game does not stay: while it is listed, some thread is *)
(* about to erase whatever its name stands for.                                    *)
FinishedLobbyIsErased ==
    \A e \in Endpoints : lobbies[e] # None /\ game[lobbies[e]] = "Finished" =>
        \E c \in Connections : pc[c] \in {"ending", "erasing"} /\ at[c] = e

(* "Did we delete the last" (BasicLobby.cpp:118): leave() takes a player away   *)
(* only for a session it deleted the last connection of.                        *)
LastWasDeleted == fault = "none"

Listed(l) == \E e \in Endpoints : lobbies[e] = l

(* "Ability to rejoin a game if the original window was closed" (README.md): a  *)
(* game of enfer that is being played is found at its endpoint.                 *)
PlayedGameIsListed ==
    fault = "none" =>
        \A l \in Lobbies : kind[l] = "ENFER" /\ game[l] = "Started" => Listed(l)
-----------------------------------------------------------------------------
(* The parts of the inductive invariant: what a lobby is known by.           *)

(* Nobody is in a lobby that was not made, looks for it or has found it.     *)
UnbornIsUnknown ==
    \A l \in Lobbies : game[l] = "Unborn" =>
        /\ players[l] = <<>> /\ entries[l] = {}
        /\ ~Listed(l)
        /\ \A c \in Connections : target[c] # l

(* A lobby has one name. *)
ListedOnce ==
    \A e, f \in Endpoints : lobbies[e] # None /\ lobbies[e] = lobbies[f] => e = f

(* A connection that is alive in a lobby, or is about to do something with it, came by *)
(* the name of the lobby, which still has it if any has.                               *)
NameIsKept ==
    \A c \in Connections, l \in Lobbies :
        Listed(l) /\ (target[c] = l \/ (c \in entries[l] /\ ~Expired(c))) => lobbies[at[c]] = l

(* Nobody has two seats. *)
SeatedOnce ==
    \A l \in Lobbies : \A i, j \in DOMAIN players[l] : players[l][i] = players[l][j] => i = j

IInv ==
    /\ TypeOK /\ UnbornIsUnknown /\ ListedOnce /\ NameIsKept /\ SeatedOnce
    /\ SeatsFollowConnections /\ CreatorPlays
    /\ EveryDeadEntryIsLeaving /\ FinishedLobbyIsErased
=============================================================================
