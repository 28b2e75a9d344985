------------------------------ MODULE ServerLocks ------------------------------
(***************************************************************************)
(* The three kinds of mutexes of the server and the list of lobbies they   *)
(* protect: Server::mut_ (lobbies_, users_), GlobalLobby::mut_ (its own    *)
(* list and its connections) and the mut_ of each BasicLobby               *)
(* (src/src/server/Server.cpp, GlobalLobby.cpp, BasicLobby.cpp).           *)
(*                                                                         *)
(* An io thread runs one operation at a time, without giving up the thread *)
(* while it holds a mutex.  pc names the lock_guard it is at: what it      *)
(* holds and what it waits for follow from it.  getLobby, getUser and      *)
(* GlobalLobby::leave, called with nothing held, take one mutex and give   *)
(* it back: they are part of the step that follows, and so is the mutex    *)
(* canJoin takes.  A broadcast that ends by destroying a session is in     *)
(* SessionQueue; names used again are in LobbyServer.                      *)
(***************************************************************************)
EXTENDS FiniteSets

CONSTANTS
    Threads,    \* nb_threads of main()
    Lobbies,    \* lobby objects, each used again once nothing refers to it
    Clients,    \* the websocket connections to the global lobby
    None

VARIABLES
    pc, lobby, client, rest,    \* of a thread: its operation, and on what
    lobbies,                    \* Server::lobbies_
    listed,                     \* GlobalLobby::lobbies_, whose order is left out
    connections,                \* GlobalLobby::connections_
    view                        \* the lobbies on the page of a client, once all is delivered

threadVars == <<pc, lobby, client, rest>>
vars == <<pc, lobby, client, rest, lobbies, listed, connections, view>>

Mutexes == {"server", "global"} \cup Lobbies

(* The three kinds of mutexes are different objects, and None is none of the *)
(* values it stands for the absence of.                                      *)
ASSUME MutexesAssumption == {"server", "global"} \cap Lobbies = {}
ASSUME NoneAssumption == None \notin Mutexes \cup Clients

Labels ==
    {"idle", "addLobby", "onLobbyAdd", "canJoin", "added", "joinList", "list",
     "serialize", "join", "getUser", "joined", "handle", "handled", "erase", "onLobbyDelete", "deleted"}

(* HoldsServer with the lock of getLobby kept for the call it was made for. *)
HoldsServer_LookupKept ==
    {"onLobbyAdd", "canJoin", "added", "handle", "onLobbyDelete", "deleted"}
(* HoldsServer with the lock given back before the observers are told. *)
HoldsServer_NotifyUnlocked == {"canJoin", "added", "deleted"}

HoldsServer == {"onLobbyAdd", "canJoin", "added", "onLobbyDelete", "deleted"}
(* HoldsGlobal with the list copied under the lock and sent without it. *)
HoldsGlobal_SendUnlocked == {"canJoin", "added", "deleted"}

HoldsGlobal == {"canJoin", "added", "list", "serialize", "deleted"}

HoldsLobby == {"getUser", "joined", "handled"}

Holds(t, m) ==
    \/ m = "server" /\ pc[t] \in HoldsServer
    \/ m = "global" /\ pc[t] \in HoldsGlobal
    \/ m = lobby[t] /\ pc[t] \in HoldsLobby

Free(m) == \A t \in Threads : ~Holds(t, m)

(* The mutex a thread is about to lock. *)
Wants(t) ==
    CASE pc[t] \in {"addLobby", "getUser", "erase"}            -> "server"
      [] pc[t] \in {"onLobbyAdd", "joinList", "onLobbyDelete"} -> "global"
      [] pc[t] \in {"canJoin", "serialize", "join", "handle"}  -> lobby[t]
      [] OTHER                                                 -> None

Goto(t, label) == pc' = [pc EXCEPT ![t] = label]

(* The end of an operation: the thread's pointer to the lobby is dropped. *)
Return(t) ==
    /\ Goto(t, "idle")
    /\ lobby' = [lobby EXCEPT ![t] = None]

Init ==
    /\ pc = [t \in Threads |-> "idle"]
    /\ lobby = [t \in Threads |-> None]
    /\ client = [t \in Threads |-> None]
    /\ rest = [t \in Threads |-> {}]
    /\ lobbies = {}
    /\ listed = {}
    /\ connections = {}
    /\ view = [c \in Clients |-> {}]
-----------------------------------------------------------------------------
(* Server::addLobby for a lobby just made, and GlobalLobby::onLobbyAdd. *)
Start(t, l) ==
    /\ pc[t] = "idle"
    /\ l \notin lobbies
    /\ \A u \in Threads : l # lobby[u]
    /\ lobby' = [lobby EXCEPT ![t] = l]
    /\ Goto(t, "addLobby")
    /\ UNCHANGED <<client, rest, lobbies, listed, connections, view>>

AddLobby(t) ==
    /\ pc[t] = "addLobby"
    /\ Free("server")
    /\ lobbies' = lobbies \cup {lobby[t]}
    /\ Goto(t, "onLobbyAdd")
    /\ UNCHANGED <<lobby, client, rest, listed, connections, view>>

OnLobbyAdd(t) ==
    /\ pc[t] = "onLobbyAdd"
    /\ Free("global")
    /\ listed' = listed \cup {lobby[t]}
    /\ Goto(t, "canJoin")
    /\ UNCHANGED <<lobby, client, rest, lobbies, connections, view>>

(* serializeLobbyAdd asks the new lobby whether the session can join it. *)
CanJoin(t) ==
    /\ pc[t] = "canJoin"
    /\ Free(lobby[t])
    /\ view' = [c \in Clients |-> IF c \in connections THEN view[c] \cup {lobby[t]} ELSE view[c]]
    /\ Goto(t, "added")
    /\ UNCHANGED <<lobby, client, rest, lobbies, listed, connections>>

Added(t) ==
    /\ pc[t] = "added"
    /\ Return(t)
    /\ UNCHANGED <<client, rest, lobbies, listed, connections, view>>
-----------------------------------------------------------------------------
(* GlobalLobby::join: the connection is registered and gets the list. *)
BeginList(t, c) ==
    /\ pc[t] = "idle"
    /\ c \notin connections
    /\ \A u \in Threads : pc[u] \in {"joinList", "list", "serialize"} => client[u] # c
    /\ Free("server")
    /\ client' = [client EXCEPT ![t] = c]
    /\ Goto(t, "joinList")
    /\ UNCHANGED <<lobby, rest, lobbies, listed, connections, view>>

JoinList(t) ==
    /\ pc[t] = "joinList"
    /\ Free("global")
    /\ rest' = [rest EXCEPT ![t] = listed]
    /\ connections' = connections \cup {client[t]}
    /\ view' = [view EXCEPT ![client[t]] = {}]
    /\ Goto(t, "list")
    /\ UNCHANGED <<lobby, client, lobbies, listed>>

NextInList(t) ==
    /\ pc[t] = "list"
    /\ \E l \in rest[t] : /\ lobby' = [lobby EXCEPT ![t] = l]
                          /\ rest' = [rest EXCEPT ![t] = @ \ {l}]
    /\ Goto(t, "serialize")
    /\ UNCHANGED <<client, lobbies, listed, connections, view>>

Serialize(t) ==
    /\ pc[t] = "serialize"
    /\ Free(lobby[t])
    /\ view' = [view EXCEPT ![client[t]] = @ \cup {lobby[t]}]
    /\ Goto(t, "list")
    /\ UNCHANGED <<lobby, client, rest, lobbies, listed, connections>>

ListSent(t) ==
    /\ pc[t] = "list"
    /\ rest[t] = {}
    /\ Return(t)
    /\ UNCHANGED <<client, rest, lobbies, listed, connections, view>>

(* GlobalLobby::leave, when the connection is gone. *)
LeaveList(t, c) ==
    /\ pc[t] = "idle"
    /\ c \in connections
    /\ Free("server")
    /\ Free("global")
    /\ connections' = connections \ {c}
    /\ view' = [view EXCEPT ![c] = {}]
    /\ UNCHANGED <<pc, lobby, client, rest, lobbies, listed>>
-----------------------------------------------------------------------------
(* Server::acceptConnection: getLobby, then BasicLobby::join. *)
BeginJoin(t, l) ==
    /\ pc[t] = "idle"
    /\ Free("server")
    /\ l \in lobbies
    /\ lobby' = [lobby EXCEPT ![t] = l]
    /\ Goto(t, "join")
    /\ UNCHANGED <<client, rest, lobbies, listed, connections, view>>

(* A new player's name is looked up with the lobby's mutex held. *)
Join(t) ==
    /\ pc[t] = "join"
    /\ Free(lobby[t])
    /\ \E label \in {"getUser", "joined"} : Goto(t, label)
    /\ UNCHANGED <<lobby, client, rest, lobbies, listed, connections, view>>

GetUser(t) ==
    /\ pc[t] = "getUser"
    /\ Free("server")
    /\ Goto(t, "joined")
    /\ UNCHANGED <<lobby, client, rest, lobbies, listed, connections, view>>

Joined(t) ==
    /\ pc[t] = "joined"
    /\ Return(t)
    /\ UNCHANGED <<client, rest, lobbies, listed, connections, view>>
-----------------------------------------------------------------------------
(* Server::onMessage and Server::removeConnection: getLobby, then the lobby's *)
(* onMessage or leave, which may ask for the lobby to be erased.              *)
BeginHandle(t, l) ==
    /\ pc[t] = "idle"
    /\ Free("server")
    /\ l \in lobbies
    /\ lobby' = [lobby EXCEPT ![t] = l]
    /\ Goto(t, "handle")
    /\ UNCHANGED <<client, rest, lobbies, listed, connections, view>>

Handle(t) ==
    /\ pc[t] = "handle"
    /\ Free(lobby[t])
    /\ Goto(t, "handled")
    /\ UNCHANGED <<lobby, client, rest, lobbies, listed, connections, view>>

Handled(t) ==
    /\ pc[t] = "handled"
    /\ Return(t) \/ (Goto(t, "erase") /\ UNCHANGED lobby)
    /\ UNCHANGED <<client, rest, lobbies, listed, connections, view>>

Erase(t) ==
    /\ pc[t] = "erase"
    /\ Free("server")
    /\ lobbies' = lobbies \ {lobby[t]}
    /\ Goto(t, "onLobbyDelete")
    /\ UNCHANGED <<lobby, client, rest, listed, connections, view>>

OnLobbyDelete(t) ==
    /\ pc[t] = "onLobbyDelete"
    /\ Free("global")
    /\ listed' = listed \ {lobby[t]}
    /\ view' = [c \in Clients |-> IF c \in connections THEN view[c] \ {lobby[t]} ELSE view[c]]
    /\ Goto(t, "deleted")
    /\ UNCHANGED <<lobby, client, rest, lobbies, connections>>

Deleted(t) ==
    /\ pc[t] = "deleted"
    /\ Return(t)
    /\ UNCHANGED <<client, rest, lobbies, listed, connections, view>>

Next ==
    \/ \E t \in Threads, l \in Lobbies : Start(t, l) \/ BeginJoin(t, l) \/ BeginHandle(t, l)
    \/ \E t \in Threads, c \in Clients : BeginList(t, c) \/ LeaveList(t, c)
    \/ \E t \in Threads :
          \/ AddLobby(t) \/ OnLobbyAdd(t) \/ CanJoin(t) \/ Added(t)
          \/ JoinList(t) \/ NextInList(t) \/ Serialize(t) \/ ListSent(t)
          \/ Join(t) \/ GetUser(t) \/ Joined(t)
          \/ Handle(t) \/ Handled(t) \/ Erase(t) \/ OnLobbyDelete(t) \/ Deleted(t)

Spec == Init /\ [][Next]_vars
=============================================================================
