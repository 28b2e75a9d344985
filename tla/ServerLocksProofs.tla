--------------------------- MODULE ServerLocksProofs ---------------------------
(***************************************************************************)
(* For any number of threads, lobbies and clients: no two threads wait for *)
(* each other, and the lists of lobbies agree.  With two threads, as       *)
(* main() has, there is no deadlock.                                       *)
(***************************************************************************)
EXTENDS ServerLocksProperties, TLAPS

(* A lobby just made is known to nobody.                                     *)
LEMMA StartIInv ==
    ASSUME IInv, NEW t \in Threads, NEW l \in Lobbies, Start(t, l)
    PROVE  IInv'
<1>1. TypeOK'
  BY DEF IInv, TypeOK, Labels, Start, Goto
<1>2. OperandsChosen'
  BY DEF IInv, TypeOK, OperandsChosen, Listing, Start, Goto
<1>3. OneHolder'
  BY MutexesAssumption DEF IInv, TypeOK, OperandsChosen, OneHolder, Holds, HoldsServer,
         HoldsGlobal, HoldsLobby, Free, Mutexes, Start, Goto
<1>4. FreshIsPrivate'
  BY DEF IInv, TypeOK, FreshIsPrivate, Adding, OperandsChosen, ObserversAreTold, ListBeingSent,
         Listing, Holds, HoldsServer, HoldsGlobal, Free, Start, Goto
<1>5. ObserversAreTold'
  BY DEF IInv, TypeOK, ObserversAreTold, Start, Goto
<1>6. ListBeingSent'
  BY DEF IInv, TypeOK, ListBeingSent, Listing, Unsent, Start, Goto
<1> QED
  BY <1>1, <1>2, <1>3, <1>4, <1>5, <1>6 DEF IInv

(* The lobby enters the map; the observers are still to be told.             *)
LEMMA AddLobbyIInv ==
    ASSUME IInv, NEW t \in Threads, AddLobby(t)
    PROVE  IInv'
<1>1. TypeOK'
  BY DEF IInv, TypeOK, Labels, OperandsChosen, AddLobby, Goto
<1>2. OperandsChosen'
  BY DEF IInv, TypeOK, OperandsChosen, Listing, AddLobby, Goto
<1>3. OneHolder'
  BY MutexesAssumption DEF IInv, TypeOK, OperandsChosen, OneHolder, Holds, HoldsServer,
         HoldsGlobal, HoldsLobby, Free, Mutexes, AddLobby, Goto
<1>4. FreshIsPrivate'
  BY DEF IInv, TypeOK, FreshIsPrivate, Adding, AddLobby, Goto
<1>5. ObserversAreTold'
  BY DEF IInv, TypeOK, ObserversAreTold, FreshIsPrivate, Adding, AddLobby, Goto
<1>6. ListBeingSent'
  BY DEF IInv, TypeOK, ListBeingSent, Listing, Unsent, AddLobby, Goto
<1> QED
  BY <1>1, <1>2, <1>3, <1>4, <1>5, <1>6 DEF IInv

(* The lobby enters the list; the clients are still to be told.              *)
LEMMA OnLobbyAddIInv ==
    ASSUME IInv, NEW t \in Threads, OnLobbyAdd(t)
    PROVE  IInv'
<1>1. TypeOK'
  BY DEF IInv, TypeOK, Labels, OperandsChosen, OnLobbyAdd, Goto
<1>2. OperandsChosen'
  BY DEF IInv, TypeOK, OperandsChosen, Listing, OnLobbyAdd, Goto
<1>3. OneHolder'
  BY DEF IInv, TypeOK, OneHolder, Holds, HoldsServer, HoldsGlobal, Free, OnLobbyAdd, Goto
<1>4. FreshIsPrivate'
  BY DEF IInv, TypeOK, FreshIsPrivate, Adding, OnLobbyAdd, Goto
<1>5. ObserversAreTold'
  BY DEF IInv, TypeOK, ObserversAreTold, FreshIsPrivate, Adding, OnLobbyAdd, Goto
<1>6. ListBeingSent'
  BY DEF IInv, TypeOK, ListBeingSent, Listing, Unsent, OnLobbyAdd, Goto
<1> QED
  BY <1>1, <1>2, <1>3, <1>4, <1>5, <1>6 DEF IInv

(* The clients are told of the new lobby.                                    *)
LEMMA CanJoinIInv ==
    ASSUME IInv, NEW t \in Threads, CanJoin(t)
    PROVE  IInv'
<1>1. TypeOK'
  BY DEF IInv, TypeOK, Labels, OperandsChosen, CanJoin, Goto
<1>2. OperandsChosen'
  BY DEF IInv, TypeOK, OperandsChosen, Listing, CanJoin, Goto
<1>3. OneHolder'
  BY DEF IInv, TypeOK, OneHolder, Holds, HoldsServer, HoldsGlobal, CanJoin, Goto
<1>4. FreshIsPrivate'
  BY DEF IInv, TypeOK, FreshIsPrivate, Adding, CanJoin, Goto
<1>5. ObserversAreTold'
  BY DEF IInv, TypeOK, ObserversAreTold, CanJoin, Goto
<1>6. ListBeingSent'
  BY DEF IInv, TypeOK, ListBeingSent, Listing, Unsent, FreshIsPrivate, Adding, OperandsChosen,
         CanJoin, Goto
<1> QED
  BY <1>1, <1>2, <1>3, <1>4, <1>5, <1>6 DEF IInv

(* The mutexes of the map and of the list are given back.                    *)
LEMMA AddedIInv ==
    ASSUME IInv, NEW t \in Threads, Added(t)
    PROVE  IInv'
<1>1. TypeOK'
  BY DEF IInv, TypeOK, Labels, Added, Goto, Return
<1>2. OperandsChosen'
  BY DEF IInv, TypeOK, OperandsChosen, Listing, Added, Goto, Return
<1>3. OneHolder'
  BY DEF IInv, TypeOK, OneHolder, Holds, HoldsServer, HoldsGlobal, Added, Goto, Return
<1>4. FreshIsPrivate'
  BY NoneAssumption DEF IInv, TypeOK, FreshIsPrivate, Adding, OperandsChosen, Mutexes, Added,
         Goto, Return
<1>5. ObserversAreTold'
  BY DEF IInv, TypeOK, ObserversAreTold, Added, Goto, Return
<1>6. ListBeingSent'
  BY DEF IInv, TypeOK, ListBeingSent, Listing, Unsent, Added, Goto, Return
<1> QED
  BY <1>1, <1>2, <1>3, <1>4, <1>5, <1>6 DEF IInv

(* A client comes to the global lobby.                                       *)
LEMMA BeginListIInv ==
    ASSUME IInv, NEW t \in Threads, NEW c \in Clients, BeginList(t, c)
    PROVE  IInv'
<1>1. TypeOK'
  BY DEF IInv, TypeOK, Labels, BeginList, Goto
<1>2. OperandsChosen'
  BY DEF IInv, TypeOK, OperandsChosen, Listing, BeginList, Goto
<1>3. OneHolder'
  BY MutexesAssumption DEF IInv, TypeOK, OperandsChosen, OneHolder, Holds, HoldsServer,
         HoldsGlobal, HoldsLobby, Free, Mutexes, BeginList, Goto
<1>4. FreshIsPrivate'
  BY DEF IInv, TypeOK, FreshIsPrivate, Adding, BeginList, Goto
<1>5. ObserversAreTold'
  BY DEF IInv, TypeOK, ObserversAreTold, BeginList, Goto
<1>6. ListBeingSent'
  BY DEF IInv, TypeOK, ListBeingSent, Listing, Unsent, BeginList, Goto
<1> QED
  BY <1>1, <1>2, <1>3, <1>4, <1>5, <1>6 DEF IInv

(* A client is registered, all the list still to be sent.                    *)
LEMMA JoinListIInv ==
    ASSUME IInv, NEW t \in Threads, JoinList(t)
    PROVE  IInv'
<1>1. TypeOK'
  BY DEF IInv, TypeOK, Labels, OperandsChosen, JoinList, Goto
<1>2. OperandsChosen'
  BY DEF IInv, TypeOK, OperandsChosen, JoinList, Goto
<1>3. OneHolder'
  BY MutexesAssumption DEF IInv, TypeOK, OperandsChosen, OneHolder, Holds, HoldsServer,
         HoldsGlobal, HoldsLobby, Free, Mutexes, JoinList, Goto
<1>4. FreshIsPrivate'
  BY DEF IInv, TypeOK, FreshIsPrivate, Adding, JoinList, Goto
<1>5. ObserversAreTold'
  BY DEF IInv, TypeOK, ObserversAreTold, JoinList, Goto
<1>6. ListBeingSent'
  BY DEF IInv, TypeOK, ListBeingSent, Listing, Unsent, FreshIsPrivate, Adding, OperandsChosen,
         JoinList, Goto
<1> QED
  BY <1>1, <1>2, <1>3, <1>4, <1>5, <1>6 DEF IInv

(* The next lobby of the list is taken for the client.                       *)
LEMMA NextInListIInv ==
    ASSUME IInv, NEW t \in Threads, NextInList(t)
    PROVE  IInv'
<1>1. TypeOK'
  BY DEF IInv, TypeOK, Labels, NextInList, Goto
<1>2. OperandsChosen'
  BY DEF IInv, TypeOK, OperandsChosen, Listing, NextInList, Goto
<1>3. OneHolder'
  BY MutexesAssumption DEF IInv, TypeOK, OperandsChosen, OneHolder, Holds, HoldsServer,
         HoldsGlobal, HoldsLobby, Free, Mutexes, NextInList, Goto
<1>4. FreshIsPrivate'
  BY NoneAssumption, MutexesAssumption DEF IInv, TypeOK, OperandsChosen, OneHolder,
         FreshIsPrivate, ListBeingSent, ObserversAreTold, Adding, Listing, Unsent, Holds,
         HoldsServer, HoldsGlobal, HoldsLobby, Free, Mutexes, Labels, NextInList, Goto
<1>5. ObserversAreTold'
  BY DEF IInv, TypeOK, ObserversAreTold, NextInList, Goto
<1>6. ListBeingSent'
  BY DEF IInv, TypeOK, ListBeingSent, Listing, Unsent, NextInList, Goto
<1> QED
  BY <1>1, <1>2, <1>3, <1>4, <1>5, <1>6 DEF IInv

(* A lobby of the list is sent to the client.                                *)
LEMMA SerializeIInv ==
    ASSUME IInv, NEW t \in Threads, Serialize(t)
    PROVE  IInv'
<1>1. TypeOK'
  BY DEF IInv, TypeOK, Labels, OperandsChosen, Serialize, Goto
<1>2. OperandsChosen'
  BY DEF IInv, TypeOK, OperandsChosen, Listing, Serialize, Goto
<1>3. OneHolder'
  BY DEF IInv, TypeOK, OneHolder, Holds, HoldsServer, HoldsGlobal, Free, Serialize, Goto
<1>4. FreshIsPrivate'
  BY DEF IInv, TypeOK, FreshIsPrivate, Adding, Serialize, Goto
<1>5. ObserversAreTold'
  BY DEF IInv, TypeOK, ObserversAreTold, Serialize, Goto
<1>6. ListBeingSent'
  BY DEF IInv, TypeOK, ListBeingSent, Listing, Unsent, Serialize, Goto
<1> QED
  BY <1>1, <1>2, <1>3, <1>4, <1>5, <1>6 DEF IInv

(* The client has been sent all the list.                                    *)
LEMMA ListSentIInv ==
    ASSUME IInv, NEW t \in Threads, ListSent(t)
    PROVE  IInv'
<1>1. TypeOK'
  BY DEF IInv, TypeOK, Labels, ListSent, Goto, Return
<1>2. OperandsChosen'
  BY DEF IInv, TypeOK, OperandsChosen, Listing, ListSent, Goto, Return
<1>3. OneHolder'
  BY MutexesAssumption DEF IInv, TypeOK, OperandsChosen, OneHolder, Holds, HoldsServer,
         HoldsGlobal, HoldsLobby, Free, Mutexes, ListSent, Goto, Return
<1>4. FreshIsPrivate'
  BY NoneAssumption DEF IInv, TypeOK, FreshIsPrivate, Adding, OperandsChosen, Mutexes, ListSent,
         Goto, Return
<1>5. ObserversAreTold'
  BY DEF IInv, TypeOK, ObserversAreTold, ListSent, Goto, Return
<1>6. ListBeingSent'
  BY DEF IInv, TypeOK, ListBeingSent, Listing, Unsent, ListSent, Goto, Return
<1> QED
  BY <1>1, <1>2, <1>3, <1>4, <1>5, <1>6 DEF IInv

(* A client goes; nobody is being sent the list.                             *)
LEMMA LeaveListIInv ==
    ASSUME IInv, NEW t \in Threads, NEW c \in Clients, LeaveList(t, c)
    PROVE  IInv'
<1>1. TypeOK'
  BY DEF IInv, TypeOK, Labels, LeaveList, Goto
<1>2. OperandsChosen'
  BY DEF IInv, TypeOK, OperandsChosen, Listing, Holds, HoldsGlobal, Free, LeaveList, Goto
<1>3. OneHolder'
  BY DEF IInv, TypeOK, OneHolder, Holds, HoldsServer, HoldsGlobal, LeaveList, Goto
<1>4. FreshIsPrivate'
  BY DEF IInv, TypeOK, FreshIsPrivate, Adding, LeaveList, Goto
<1>5. ObserversAreTold'
  BY DEF IInv, TypeOK, ObserversAreTold, LeaveList, Goto
<1>6. ListBeingSent'
  BY DEF IInv, TypeOK, ListBeingSent, Listing, Unsent, LeaveList, Goto
<1> QED
  BY <1>1, <1>2, <1>3, <1>4, <1>5, <1>6 DEF IInv

(* A lobby found in the map is no fresh one.                                 *)
LEMMA BeginJoinIInv ==
    ASSUME IInv, NEW t \in Threads, NEW l \in Lobbies, BeginJoin(t, l)
    PROVE  IInv'
<1>1. TypeOK'
  BY DEF IInv, TypeOK, Labels, BeginJoin, Goto
<1>2. OperandsChosen'
  BY DEF IInv, TypeOK, OperandsChosen, Listing, BeginJoin, Goto
<1>3. OneHolder'
  BY MutexesAssumption DEF IInv, TypeOK, OperandsChosen, OneHolder, Holds, HoldsServer,
         HoldsGlobal, HoldsLobby, Free, Mutexes, BeginJoin, Goto
<1>4. FreshIsPrivate'
  BY DEF IInv, TypeOK, FreshIsPrivate, Adding, Holds, HoldsServer, Free, BeginJoin, Goto
<1>5. ObserversAreTold'
  BY DEF IInv, TypeOK, ObserversAreTold, BeginJoin, Goto
<1>6. ListBeingSent'
  BY DEF IInv, TypeOK, ListBeingSent, Listing, Unsent, BeginJoin, Goto
<1> QED
  BY <1>1, <1>2, <1>3, <1>4, <1>5, <1>6 DEF IInv

(* The lobby's mutex is taken by a join.                                     *)
LEMMA JoinIInv ==
    ASSUME IInv, NEW t \in Threads, Join(t)
    PROVE  IInv'
<1>1. TypeOK'
  BY DEF IInv, TypeOK, Labels, Join, Goto
<1>2. OperandsChosen'
  BY DEF IInv, TypeOK, OperandsChosen, Listing, Join, Goto
<1>3. OneHolder'
  BY DEF IInv, TypeOK, OneHolder, Holds, HoldsServer, HoldsGlobal, Free, Join, Goto
<1>4. FreshIsPrivate'
  BY DEF IInv, TypeOK, FreshIsPrivate, Adding, Join, Goto
<1>5. ObserversAreTold'
  BY DEF IInv, TypeOK, ObserversAreTold, Join, Goto
<1>6. ListBeingSent'
  BY DEF IInv, TypeOK, ListBeingSent, Listing, Unsent, Join, Goto
<1> QED
  BY <1>1, <1>2, <1>3, <1>4, <1>5, <1>6 DEF IInv

(* The server's mutex is taken and given back.                               *)
LEMMA GetUserIInv ==
    ASSUME IInv, NEW t \in Threads, GetUser(t)
    PROVE  IInv'
<1>1. TypeOK'
  BY DEF IInv, TypeOK, Labels, GetUser, Goto
<1>2. OperandsChosen'
  BY DEF IInv, TypeOK, OperandsChosen, Listing, GetUser, Goto
<1>3. OneHolder'
  BY MutexesAssumption DEF IInv, TypeOK, OperandsChosen, OneHolder, Holds, HoldsServer,
         HoldsGlobal, HoldsLobby, Free, Mutexes, GetUser, Goto
<1>4. FreshIsPrivate'
  BY DEF IInv, TypeOK, FreshIsPrivate, Adding, GetUser, Goto
<1>5. ObserversAreTold'
  BY DEF IInv, TypeOK, ObserversAreTold, GetUser, Goto
<1>6. ListBeingSent'
  BY DEF IInv, TypeOK, ListBeingSent, Listing, Unsent, GetUser, Goto
<1> QED
  BY <1>1, <1>2, <1>3, <1>4, <1>5, <1>6 DEF IInv

(* The join ends.                                                            *)
LEMMA JoinedIInv ==
    ASSUME IInv, NEW t \in Threads, Joined(t)
    PROVE  IInv'
<1>1. TypeOK'
  BY DEF IInv, TypeOK, Labels, Joined, Goto, Return
<1>2. OperandsChosen'
  BY DEF IInv, TypeOK, OperandsChosen, Listing, Joined, Goto, Return
<1>3. OneHolder'
  BY MutexesAssumption DEF IInv, TypeOK, OperandsChosen, OneHolder, Holds, HoldsServer,
         HoldsGlobal, HoldsLobby, Free, Mutexes, Joined, Goto, Return
<1>4. FreshIsPrivate'
  BY NoneAssumption DEF IInv, TypeOK, FreshIsPrivate, Adding, OperandsChosen, Mutexes, Joined,
         Goto, Return
<1>5. ObserversAreTold'
  BY DEF IInv, TypeOK, ObserversAreTold, Joined, Goto, Return
<1>6. ListBeingSent'
  BY DEF IInv, TypeOK, ListBeingSent, Listing, Unsent, Joined, Goto, Return
<1> QED
  BY <1>1, <1>2, <1>3, <1>4, <1>5, <1>6 DEF IInv

(* A lobby found in the map is no fresh one.                                 *)
LEMMA BeginHandleIInv ==
    ASSUME IInv, NEW t \in Threads, NEW l \in Lobbies, BeginHandle(t, l)
    PROVE  IInv'
<1>1. TypeOK'
  BY DEF IInv, TypeOK, Labels, BeginHandle, Goto
<1>2. OperandsChosen'
  BY DEF IInv, TypeOK, OperandsChosen, Listing, BeginHandle, Goto
<1>3. OneHolder'
  BY MutexesAssumption DEF IInv, TypeOK, OperandsChosen, OneHolder, Holds, HoldsServer,
         HoldsGlobal, HoldsLobby, Free, Mutexes, BeginHandle, Goto
<1>4. FreshIsPrivate'
  BY DEF IInv, TypeOK, FreshIsPrivate, Adding, Holds, HoldsServer, Free, BeginHandle, Goto
<1>5. ObserversAreTold'
  BY DEF IInv, TypeOK, ObserversAreTold, BeginHandle, Goto
<1>6. ListBeingSent'
  BY DEF IInv, TypeOK, ListBeingSent, Listing, Unsent, BeginHandle, Goto
<1> QED
  BY <1>1, <1>2, <1>3, <1>4, <1>5, <1>6 DEF IInv

(* The lobby's mutex is taken by a message or a leave.                       *)
LEMMA HandleIInv ==
    ASSUME IInv, NEW t \in Threads, Handle(t)
    PROVE  IInv'
<1>1. TypeOK'
  BY DEF IInv, TypeOK, Labels, Handle, Goto
<1>2. OperandsChosen'
  BY DEF IInv, TypeOK, OperandsChosen, Listing, Handle, Goto
<1>3. OneHolder'
  BY DEF IInv, TypeOK, OneHolder, Holds, HoldsServer, HoldsGlobal, Free, Handle, Goto
<1>4. FreshIsPrivate'
  BY DEF IInv, TypeOK, FreshIsPrivate, Adding, Handle, Goto
<1>5. ObserversAreTold'
  BY DEF IInv, TypeOK, ObserversAreTold, Handle, Goto
<1>6. ListBeingSent'
  BY DEF IInv, TypeOK, ListBeingSent, Listing, Unsent, Handle, Goto
<1> QED
  BY <1>1, <1>2, <1>3, <1>4, <1>5, <1>6 DEF IInv

(* The lobby goes on, or is to be erased.                                    *)
LEMMA HandledIInv ==
    ASSUME IInv, NEW t \in Threads, Handled(t)
    PROVE  IInv'
<1>1. TypeOK'
  BY DEF IInv, TypeOK, Labels, Handled, Goto, Return
<1>2. OperandsChosen'
  BY DEF IInv, TypeOK, OperandsChosen, Listing, Handled, Goto, Return
<1>3. OneHolder'
  BY MutexesAssumption DEF IInv, TypeOK, OperandsChosen, OneHolder, Holds, HoldsServer,
         HoldsGlobal, HoldsLobby, Free, Mutexes, Handled, Goto, Return
<1>4. FreshIsPrivate'
  BY NoneAssumption DEF IInv, TypeOK, FreshIsPrivate, Adding, OperandsChosen, Mutexes, Handled,
         Goto, Return
<1>5. ObserversAreTold'
  BY DEF IInv, TypeOK, ObserversAreTold, Handled, Goto, Return
<1>6. ListBeingSent'
  BY DEF IInv, TypeOK, ListBeingSent, Listing, Unsent, Handled, Goto, Return
<1> QED
  BY <1>1, <1>2, <1>3, <1>4, <1>5, <1>6 DEF IInv

(* The lobby leaves the map; the observers are still to be told.             *)
LEMMA EraseIInv ==
    ASSUME IInv, NEW t \in Threads, Erase(t)
    PROVE  IInv'
<1>1. TypeOK'
  BY DEF IInv, TypeOK, Labels, Erase, Goto
<1>2. OperandsChosen'
  BY DEF IInv, TypeOK, OperandsChosen, Listing, Erase, Goto
<1>3. OneHolder'
  BY MutexesAssumption DEF IInv, TypeOK, OperandsChosen, OneHolder, Holds, HoldsServer,
         HoldsGlobal, HoldsLobby, Free, Mutexes, Erase, Goto
<1>4. FreshIsPrivate'
  BY DEF IInv, TypeOK, FreshIsPrivate, Adding, Erase, Goto
<1>5. ObserversAreTold'
  BY DEF IInv, TypeOK, ObserversAreTold, Erase, Goto
<1>6. ListBeingSent'
  BY DEF IInv, TypeOK, ListBeingSent, Listing, Unsent, Erase, Goto
<1> QED
  BY <1>1, <1>2, <1>3, <1>4, <1>5, <1>6 DEF IInv

(* The lobby leaves the list and the pages of the clients.                   *)
LEMMA OnLobbyDeleteIInv ==
    ASSUME IInv, NEW t \in Threads, OnLobbyDelete(t)
    PROVE  IInv'
<1>1. TypeOK'
  BY DEF IInv, TypeOK, Labels, OnLobbyDelete, Goto
<1>2. OperandsChosen'
  BY DEF IInv, TypeOK, OperandsChosen, Listing, OnLobbyDelete, Goto
<1>3. OneHolder'
  BY DEF IInv, TypeOK, OneHolder, Holds, HoldsServer, HoldsGlobal, Free, OnLobbyDelete, Goto
<1>4. FreshIsPrivate'
  BY DEF IInv, TypeOK, FreshIsPrivate, Adding, OnLobbyDelete, Goto
<1>5. ObserversAreTold'
  BY DEF IInv, TypeOK, ObserversAreTold, OnLobbyDelete, Goto
<1>6. ListBeingSent'
  BY DEF IInv, TypeOK, ListBeingSent, Listing, Unsent, OneHolder, FreshIsPrivate, Adding,
         OperandsChosen, Holds, HoldsGlobal, Free, OnLobbyDelete, Goto
<1> QED
  BY <1>1, <1>2, <1>3, <1>4, <1>5, <1>6 DEF IInv

(* The mutexes of the map and of the list are given back.                    *)
LEMMA DeletedIInv ==
    ASSUME IInv, NEW t \in Threads, Deleted(t)
    PROVE  IInv'
<1>1. TypeOK'
  BY DEF IInv, TypeOK, Labels, Deleted, Goto, Return
<1>2. OperandsChosen'
  BY DEF IInv, TypeOK, OperandsChosen, Listing, Deleted, Goto, Return
<1>3. OneHolder'
  BY DEF IInv, TypeOK, OneHolder, Holds, HoldsServer, HoldsGlobal, Deleted, Goto, Return
<1>4. FreshIsPrivate'
  BY NoneAssumption DEF IInv, TypeOK, FreshIsPrivate, Adding, OperandsChosen, Mutexes, Deleted,
         Goto, Return
<1>5. ObserversAreTold'
  BY DEF IInv, TypeOK, ObserversAreTold, Deleted, Goto, Return
<1>6. ListBeingSent'
  BY DEF IInv, TypeOK, ListBeingSent, Listing, Unsent, Deleted, Goto, Return
<1> QED
  BY <1>1, <1>2, <1>3, <1>4, <1>5, <1>6 DEF IInv

(* Every step of every thread keeps the invariant.                           *)
LEMMA NextIInv == IInv /\ [Next]_vars => IInv'
<1> SUFFICES ASSUME IInv, [Next]_vars PROVE IInv'
  OBVIOUS
<1>1. ASSUME NEW t \in Threads, NEW l \in Lobbies,
             Start(t, l) \/ BeginJoin(t, l) \/ BeginHandle(t, l)
      PROVE  IInv'
  BY <1>1, StartIInv, BeginJoinIInv, BeginHandleIInv
<1>2. ASSUME NEW t \in Threads, NEW c \in Clients, BeginList(t, c) \/ LeaveList(t, c)
      PROVE  IInv'
  BY <1>2, BeginListIInv, LeaveListIInv
<1>3. ASSUME NEW t \in Threads,
             \/ AddLobby(t) \/ OnLobbyAdd(t) \/ CanJoin(t) \/ Added(t)
             \/ JoinList(t) \/ NextInList(t) \/ Serialize(t) \/ ListSent(t)
      PROVE  IInv'
  BY <1>3, AddLobbyIInv, OnLobbyAddIInv, CanJoinIInv, AddedIInv,
     JoinListIInv, NextInListIInv, SerializeIInv, ListSentIInv
<1>4. ASSUME NEW t \in Threads,
             \/ Join(t) \/ GetUser(t) \/ Joined(t) \/ Handle(t) \/ Handled(t)
             \/ Erase(t) \/ OnLobbyDelete(t) \/ Deleted(t)
      PROVE  IInv'
  BY <1>4, JoinIInv, GetUserIInv, JoinedIInv, HandleIInv, HandledIInv,
     EraseIInv, OnLobbyDeleteIInv, DeletedIInv
<1>5. CASE UNCHANGED vars
  BY <1>5 DEF vars, IInv, TypeOK, OperandsChosen, OneHolder, FreshIsPrivate,
              ObserversAreTold, ListBeingSent, Holds, Unsent
<1> QED
  BY <1>1, <1>2, <1>3, <1>4, <1>5 DEF Next

(* The invariant holds in every reachable state, for any number of threads,  *)
(* lobbies and clients.                                                      *)
THEOREM Invariance == Spec => []IInv
<1>1. Init => IInv
  BY DEF Init, IInv, TypeOK, OperandsChosen, OneHolder, FreshIsPrivate, ObserversAreTold,
         ListBeingSent, Holds, HoldsServer, HoldsGlobal, HoldsLobby, Labels, Adding, Listing
<1> QED
  BY <1>1, NextIInv, PTL DEF Spec

(* The mutexes are taken in the order server, global, lobby, except by getUser, *)
(* which asks for the server's with a lobby's held.  A thread that holds the    *)
(* server's waits for a lobby's at canJoin only, for a lobby nobody else knows. *)
LEMMA NobodyWaitsForEachOther == IInv => NoMutualWait
<1> SUFFICES ASSUME IInv, NEW t \in Threads, NEW u \in Threads, WaitsFor(t, u), WaitsFor(u, t)
             PROVE  FALSE
  BY DEF NoMutualWait
<1>1. /\ pc[t] \in Labels /\ pc[u] \in Labels
      /\ pc[t] \notin {"idle", "joinList", "list"} => lobby[t] \in Lobbies
      /\ pc[u] \notin {"idle", "joinList", "list"} => lobby[u] \in Lobbies
      /\ pc[t] = "canJoin" /\ t # u => lobby[u] # lobby[t]
      /\ pc[u] = "canJoin" /\ t # u => lobby[u] # lobby[t]
  BY DEF IInv, TypeOK, OperandsChosen, FreshIsPrivate, Adding
<1>2. CASE pc[t] \in {"addLobby", "getUser", "erase"}
  <2>1. Wants(t) = "server" /\ pc[u] \in HoldsServer
    BY <1>1, <1>2, MutexesAssumption DEF WaitsFor, Wants, Holds, HoldsServer, HoldsLobby
  <2> QED
    BY <1>1, <1>2, <2>1, MutexesAssumption
    DEF WaitsFor, Wants, Holds, HoldsServer, HoldsGlobal, HoldsLobby
<1>3. CASE pc[t] \in {"onLobbyAdd", "joinList", "onLobbyDelete"}
  <2>1. Wants(t) = "global" /\ pc[u] \in HoldsGlobal
    BY <1>1, <1>3, MutexesAssumption DEF WaitsFor, Wants, Holds, HoldsGlobal, HoldsLobby
  <2> QED
    BY <1>1, <1>3, <2>1, MutexesAssumption
    DEF WaitsFor, Wants, Holds, HoldsServer, HoldsGlobal, HoldsLobby
<1>4. CASE pc[t] \in {"canJoin", "serialize", "join", "handle"}
  <2>1. Wants(t) = lobby[t] /\ lobby[t] = lobby[u] /\ pc[u] \in HoldsLobby
    BY <1>1, <1>4, MutexesAssumption DEF WaitsFor, Wants, Holds, HoldsLobby
  <2> QED
    BY <1>1, <1>4, <2>1, MutexesAssumption
    DEF WaitsFor, Wants, Holds, HoldsServer, HoldsGlobal, HoldsLobby
<1> QED
  BY <1>1, <1>2, <1>3, <1>4 DEF WaitsFor, Wants, Labels

(* No two threads ever wait for each other, however many there are. *)
THEOREM NoTwoThreadsDeadlock == Spec => []NoMutualWait
BY Invariance, NobodyWaitsForEachOther, PTL

(* With the two threads main() starts there is no deadlock at all. *)
THEOREM TwoThreadsNeverDeadlock ==
    ASSUME NEW a, NEW b, Threads = {a, b}
    PROVE  Spec => []NoDeadlock
<1>1. NoMutualWait => NoDeadlock
  <2> SUFFICES ASSUME NoMutualWait, NEW S \in SUBSET Threads, S # {}
               PROVE  \E t \in S : \A u \in S : ~WaitsFor(t, u)
    BY DEF NoDeadlock
  <2>1. \A t \in Threads : ~WaitsFor(t, t)
    BY DEF NoMutualWait
  <2>2. ~WaitsFor(a, b) \/ ~WaitsFor(b, a)
    BY DEF NoMutualWait
  <2>3. S = {a} \/ S = {b} \/ S = {a, b}
    OBVIOUS
  <2> QED
    BY <2>1, <2>2, <2>3
<1> QED
  BY <1>1, NoTwoThreadsDeadlock, PTL

(* The server and the global lobby agree on the lobbies there are. *)
THEOREM TheListsAgree == Spec => []MapMatchesList
<1>1. IInv => MapMatchesList
  BY DEF IInv, ObserversAreTold, MapMatchesList, TypeOK, Holds, HoldsServer
<1> QED
  BY <1>1, Invariance, PTL

(* Every client is shown the lobbies of the list, whatever was added or deleted *)
(* while it was being sent.                                                     *)
THEOREM ThePagesAgree == Spec => []ViewsMatchList
<1>1. IInv => ViewsMatchList
  <2> SUFFICES ASSUME IInv, \A t \in Threads : ~Holds(t, "global"), NEW c \in connections
               PROVE  view[c] = listed
    BY DEF ViewsMatchList
  <2>1. \A t \in Threads : Unsent(t, c) = {}
    BY DEF Unsent, Holds, HoldsGlobal
  <2> QED
    BY <2>1 DEF IInv, ListBeingSent
<1> QED
  BY <1>1, Invariance, PTL
=============================================================================
