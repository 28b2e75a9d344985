------------------------- MODULE ServerLocksProperties -------------------------
(***************************************************************************)
(* What the mutexes of the server are for: no deadlock between the threads, *)
(* and two copies of the list of lobbies, the server's and the global      *)
(* lobby's, and the pages of its clients, that agree.                      *)
(***************************************************************************)
EXTENDS ServerLocks

(* Every thread is at a known point of an operation, and every list and view *)
(* holds lobbies.                                                            *)
TypeOK ==
    /\ pc \in [Threads -> Labels]
    /\ lobby \in [Threads -> Lobbies \cup {None}]
    /\ client \in [Threads -> Clients \cup {None}]
    /\ rest \in [Threads -> SUBSET Lobbies]
    /\ lobbies \subseteq Lobbies
    /\ listed \subseteq Lobbies
    /\ connections \subseteq Clients
    /\ view \in [Clients -> SUBSET Lobbies]

(* Thread t is about to lock a mutex that thread u holds. *)
WaitsFor(t, u) == Wants(t) # None /\ Holds(u, Wants(t))

(* Never are some threads all waiting for a mutex another of them holds: the   *)
(* mutexes are taken server, global, lobby by one path and lobby, server by    *)
(* another (the getUser of BasicLobby::join), and nothing is locked twice.     *)
NoDeadlock ==
    \A S \in SUBSET Threads : S # {} => \E t \in S : \A u \in S : ~WaitsFor(t, u)

(* No two threads wait for each other, nor a thread for itself. *)
NoMutualWait == \A t, u \in Threads : WaitsFor(t, u) => ~WaitsFor(u, t)

(* When no operation of the server is under way, the list of the global lobby *)
(* is the map of the server, whatever the order in which                      *)
(* lobbies were added and erased by several threads.                          *)
MapMatchesList ==
    (\A t \in Threads : ~Holds(t, "server"))
        => lobbies = listed

(* When the global lobby's mutex is free, the page of every client shows the    *)
(* lobbies of the list: none is missed or kept because it was added or deleted  *)
(* while the client was being sent the list.                                    *)
ViewsMatchList ==
    (\A t \in Threads : ~Holds(t, "global"))
        => \A c \in connections : view[c] = listed
-----------------------------------------------------------------------------
(* Why they hold. *)
Adding  == {"addLobby", "onLobbyAdd", "canJoin"}
Listing == {"list", "serialize"}

(* Whoever is in an operation on a lobby has it, and a client that is sent the *)
(* list is already registered.                                                *)
OperandsChosen ==
    \A t \in Threads :
        /\ pc[t] \notin {"idle", "joinList", "list"} => lobby[t] \in Lobbies
        /\ pc[t] = "joinList" => client[t] \in Clients
        /\ pc[t] \in Listing => client[t] \in connections

(* The mutex of the server has one holder at a time, and so has the global lobby's. *)
OneHolder ==
    \A t, u \in Threads, m \in {"server", "global"} : Holds(t, m) /\ Holds(u, m) => t = u

(* Nothing but the thread that adds a lobby knows it until its observers do. *)
FreshIsPrivate ==
    \A t \in Threads : pc[t] \in Adding =>
        /\ \A u \in Threads \ {t} : lobby[u] # lobby[t]
        /\ pc[t] = "addLobby" => lobby[t] \notin lobbies
        /\ pc[t] = "onLobbyAdd" => lobby[t] \in lobbies
        /\ pc[t] # "canJoin" => lobby[t] \notin listed
        /\ pc[t] = "canJoin" => lobby[t] \in listed

(* The list and the map differ only in the lobby the observers are told of. *)
ObserversAreTold ==
    /\ \A l \in lobbies \ listed : \E t \in Threads : pc[t] = "onLobbyAdd" /\ lobby[t] = l
    /\ \A l \in listed \ lobbies : \E t \in Threads : pc[t] = "onLobbyDelete" /\ lobby[t] = l
    /\ \A t \in Threads : pc[t] = "onLobbyDelete" => lobby[t] \notin lobbies

(* What thread t has still to send to client c. *)
Unsent(t, c) ==
    CASE pc[t] = "canJoin"                        -> {lobby[t]}
      [] pc[t] = "list" /\ client[t] = c         -> rest[t]
      [] pc[t] = "serialize" /\ client[t] = c    -> rest[t] \cup {lobby[t]}
      [] OTHER                                    -> {}

(* What the page of a client lacks of the list is still to be sent by the thread  *)
(* that holds the global lobby's mutex.                                           *)
ListBeingSent ==
    /\ \A t \in Threads : /\ pc[t] \notin Listing => rest[t] = {}
                          /\ rest[t] \subseteq listed
                          /\ pc[t] = "serialize" => lobby[t] \in listed
    /\ \A c \in connections :
          /\ view[c] \subseteq listed
          /\ \A l \in listed \ view[c] : \E t \in Threads : l \in Unsent(t, c)

(* The inductive invariant: the types and the parts above. *)
IInv == TypeOK /\ OperandsChosen /\ OneHolder /\ FreshIsPrivate /\ ObserversAreTold /\ ListBeingSent
=============================================================================
