------------------------------ MODULE LobbyPages ------------------------------
(***************************************************************************)
(* What the two lobbies share of their dealings with the pages of their    *)
(* players (src/src/server/BasicLobby.cpp, Lobby.cpp, Helper.cpp and the   *)
(* script of web/game): who is seated and has a name, the messages on      *)
(* their way to each window and back, and what each window shows.          *)
(*                                                                         *)
(* A lobby handles a message, a join or a leave under its mutex: one step. *)
(* The messages of one connection arrive in order (SessionQueue); those of *)
(* two connections do not wait for each other.  A connection that breaks   *)
(* loses what was on its way in both directions.  Of the messages, only    *)
(* those that change what a player is asked are here; where a connection   *)
(* is between its break and leave() is in LobbyServer.                     *)
(***************************************************************************)
EXTENDS Integers, Sequences, FiniteSets

CONSTANTS
    Sessions,
    Windows, SessionOf,   \* browser windows; two may have the same cookie
    Creator,              \* creator_
    LoggedIn,             \* sessions getUser() knows the name of
    MinPlayers,           \* players START asks for, 3 in the code
    Breaking,             \* windows whose connection may break (a bound)
    MaxInbox,             \* bound on the messages on their way to a window
    MaxRequests           \* and on those it has sent

VARIABLES
    phase,                \* GameState, or "Over": the lobby is erased
    seated, named,        \* players_, and those with a user name
    open,                 \* windows with a connection
    toPage, fromPage,     \* messages on their way, a sequence for each window
    page                  \* what a window shows

lobbyVars == <<phase, seated, named>>
pageVars  == <<open, toPage, fromPage, page>>

ASSUME WindowsAssumption == SessionOf \in [Windows -> Sessions]
(* GlobalLobby::onMessage: only a user can create a game. *)
ASSUME CreatorAssumption == Creator \in LoggedIn /\ LoggedIn \subseteq Sessions

(* A message: its type, and the entries of it that decide which buttons show. *)
Message(type, flags) == [type |-> type, flags |-> flags]
Plain(type) == Message(type, {})

(* illegalChoice: the only message that does not replace what the page asks.  Those of *)
(* type ERROR show a text and are left out.                                             *)
Invalid == Plain("INPUT_INVALID")

WindowsOf(s) == {w \in open : SessionOf[w] = s}

(* Nothing is on its way to the window or from it. *)
Quiet(w) == w \in open /\ toPage[w] = <<>> /\ fromPage[w] = <<>>

(* A new task is on its way to the window: what it shows is a thing of the past. *)
Behind(w) == \E i \in DOMAIN toPage[w] : toPage[w][i] # Invalid

(* utilsSendTo, utilsSendToAll: out is the messages each window is sent, kept *)
(* those already on their way.                                                *)
Send(kept, out) ==
    /\ toPage' = [w \in Windows |-> IF w \in open' THEN kept[w] \o out[w] ELSE <<>>]
    /\ \A w \in Windows : Len(toPage'[w]) <= MaxInbox

(* What a page shows: its prompt, the message it can ask again, and whether the *)
(* cards of the hand can be clicked.                                            *)
Nothing == Plain("NOTHING")
Blank == [prompt |-> Nothing, last |-> Nothing, active |-> FALSE]

Hidden(pg) == [pg EXCEPT !.prompt = Nothing]       \* hideAllEvents()
Saved(pg, msg) == [pg EXCEPT !.prompt = msg, !.last = msg]

InitPages ==
    /\ phase = "Created"
    /\ seated = {}
    /\ named = {}
    /\ open = {}
    /\ toPage = [w \in Windows |-> <<>>]
    /\ fromPage = [w \in Windows |-> <<>>]
    /\ page = [w \in Windows |-> Blank]
-----------------------------------------------------------------------------
(* Before the game: what a player is told who joins or gives a name. *)
BeforeStart(s) ==
    IF s \notin named THEN Plain("ASK_USERNAME")
    ELSE IF s = Creator THEN Plain("ASK_START")
    ELSE IF Creator \in seated THEN Plain("WAITING_START")
    ELSE Plain("WAITING_HOST")

(* BasicLobby::join, for a page that was loaded or one that connects again; the *)
(* lobby answers with out.                                                      *)
JoinWith(w, loaded, out) == LET s == SessionOf[w] IN
    /\ w \notin open
    /\ ~loaded => w \in Breaking
    /\ phase = "Created" \/ (phase = "Started" /\ s \in seated)
    /\ open' = open \cup {w}
    /\ seated' = seated \cup {s}
    /\ named' = IF s \notin seated /\ s \in LoggedIn THEN named \cup {s} ELSE named
    /\ page' = IF loaded THEN [page EXCEPT ![w] = Blank] ELSE page
    /\ Send(toPage, out)
    /\ UNCHANGED <<phase, fromPage>>

(* The connection breaks, and BasicLobby::leave: the last window of a player gives *)
(* up the seat, and the name with it, before the game.                             *)
Drop(w) == LET s == SessionOf[w] IN
    /\ w \in open \cap Breaking
    /\ open' = open \ {w}
    /\ toPage' = [toPage EXCEPT ![w] = <<>>]
    /\ fromPage' = [fromPage EXCEPT ![w] = <<>>]
    /\ IF phase = "Created" /\ WindowsOf(s) = {w}
       THEN seated' = seated \ {s} /\ named' = named \ {s}
       ELSE UNCHANGED <<seated, named>>
    /\ UNCHANGED <<phase, page>>

(* What the engine can find illegal. *)
Choice(type) == type \in {"PLAY", "TARGET"}

(* A click that sends a request and leaves the page pg.  A choice is "old" if it was *)
(* made before the task that is on its way.                                          *)
Ask(w, type, card, pg) ==
    /\ w \in open
    /\ Len(fromPage[w]) < MaxRequests
    /\ fromPage' = [fromPage EXCEPT ![w] =
          Append(@, [type |-> type, card |-> IF Choice(type) /\ Behind(w) THEN "old" ELSE card])]
    /\ page' = [page EXCEPT ![w] = pg]
    /\ UNCHANGED <<lobbyVars, open, toPage>>

(* A click that only changes the page. *)
Click(w, pg) ==
    /\ w \in open
    /\ page' = [page EXCEPT ![w] = pg]
    /\ UNCHANGED <<lobbyVars, open, toPage, fromPage>>

(* The buttons both pages have. *)
CommonButtons(w) == LET shown == page[w].prompt.type IN
    \/ shown = "ASK_USERNAME" /\ Ask(w, "SET_USERNAME", "-", Hidden(page[w]))
    \/ shown = "ASK_START"    /\ Ask(w, "START", "-", Hidden(page[w]))
    \/ shown = "ASK_CONFIRM"  /\ Ask(w, "NEXT", "-", Hidden(page[w]))

(* handCardClicked: a card of the hand, and the page asks to confirm. *)
ClickCard(w) ==
    /\ page[w].active
    /\ Click(w, [page[w] EXCEPT !.prompt = Plain("CONFIRM")])

(* A message arrives: after is the page the script makes of it. *)
ReceiveWith(w, after) ==
    /\ toPage[w] # <<>>
    /\ toPage' = [toPage EXCEPT ![w] = Tail(@)]
    /\ page' = [page EXCEPT ![w] = after]
    /\ UNCHANGED <<lobbyVars, open, fromPage>>
-----------------------------------------------------------------------------
Request(w, type) == fromPage[w] # <<>> /\ Head(fromPage[w]).type = type

(* The request of the window is taken.  When the game moves on, the choices that *)
(* are on their way were made in a state that is gone.                           *)
Outdated(queue) ==
    [i \in DOMAIN queue |-> IF Choice(queue[i].type) THEN [queue[i] EXCEPT !.card = "old"] ELSE queue[i]]

Take(w, moves) ==
    LET rest == [fromPage EXCEPT ![w] = Tail(@)]
    IN  fromPage' = IF moves THEN [v \in Windows |-> Outdated(rest[v])] ELSE rest

(* The answers of onMessage: out to the windows, for a request the engine accepts *)
(* or refuses.                                                                    *)
Reply(w, moves, out) ==
    /\ UNCHANGED <<open, page>>
    /\ Take(w, moves)
    /\ Send(toPage, out)

Only(windows, messages) == [v \in Windows |-> IF v \in windows THEN messages ELSE <<>>]

(* Mutant of ServerError: the exception is logged and that is all. *)
ServerError_LogOnly(w) == Reply(w, FALSE, Only({}, <<>>)) /\ UNCHANGED lobbyVars

(* The catch of every other exception: a status for the window alone. *)
ServerError(w) == Reply(w, FALSE, Only({w}, <<Plain("SERVER_ERROR")>>)) /\ UNCHANGED lobbyVars

MayStart(w) ==
    /\ SessionOf[w] = Creator
    /\ Cardinality(seated) >= MinPlayers
    /\ phase = "Created"

(* A request that finds the lobby erased: Server::onMessage closes the connection. *)
Closed(w) ==
    /\ phase = "Over"
    /\ fromPage[w] # <<>>
    /\ open' = open \ {w}
    /\ toPage' = [toPage EXCEPT ![w] = <<>>]
    /\ fromPage' = [fromPage EXCEPT ![w] = <<>>]
    /\ UNCHANGED <<lobbyVars, page>>
=============================================================================
