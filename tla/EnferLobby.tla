------------------------------ MODULE EnferLobby ------------------------------
(***************************************************************************)
(* A lobby of Enfer (src/src/server/LobbyEnfer.cpp) and its pages          *)
(* (web/game/enfer.html): which requests the engine sees, what is told to  *)
(* whom, and what each window asks its player.  The engine is EnferTable,  *)
(* which EnferGame implements; the table waits, as it is at its start,     *)
(* until the game does.  ROUND_INFOS, which no button depends on, is left  *)
(* out, and the messages about the list of players.                        *)
(***************************************************************************)
EXTENDS LobbyPages

CONSTANTS MaxRound, Tricks(_)      \* of EnferTable

VARIABLES
    step, round, turn, acted, tricksLeft,   \* EnferTable
    seat                                    \* reorderPlayers: who sits where

tableVars == <<step, round, turn, acted, tricksLeft>>
vars == <<lobbyVars, pageVars, tableVars, seat>>

Table == INSTANCE EnferTable WITH N <- Cardinality(Sessions), phase <- step

Seatings == {f \in [Sessions -> Table!Players] : \A s, t \in Sessions : f[s] = f[t] => s = t}

Running == phase = "Started"
Current(s) == seat[s] = turn

(* serializeCurrentEvent during the game *)
Task(s) ==
    CASE step = "SetTarget" -> Plain(IF Current(s) THEN "ASK_INTEGER" ELSE "WAITING")
      [] step = "Play"      -> Plain(IF Current(s) THEN "PLAY_CARD" ELSE "WAITING")
      [] step = "GotoNext"  -> Plain(IF s = Creator THEN "ASK_CONFIRM" ELSE "WAITING_NEXT")
      [] step = "Finished"  -> Plain("END")

CurrentEvent(s) == IF phase = "Created" THEN BeforeStart(s) ELSE Task(s)

(* implSendStateToAll, implSendNextAction *)
StateAndAction == [w \in Windows |-> <<Plain("STATE"), Task(SessionOf[w])>>]

Init ==
    /\ InitPages
    /\ Table!Init
    /\ seat \in Seatings

(* onPlayerJoin: the new connection only is told. *)
Join(w, loaded) ==
    /\ JoinWith(w, loaded,
           Only({w}, IF Running THEN <<Plain("STATE"), Task(SessionOf[w])>>
                     ELSE <<BeforeStart(SessionOf[w])'>>))
    /\ UNCHANGED <<tableVars, seat>>
-----------------------------------------------------------------------------
(* Mutant of HandleSetUsername: the answer is the one LobbyUno gives. *)
HandleSetUsername_WaitingStart(w) == LET s == SessionOf[w] IN
    /\ Request(w, "SET_USERNAME")
    /\ phase # "Over"
    /\ named' = named \cup {s}
    /\ Reply(w, FALSE, Only(WindowsOf(s), <<Plain("WAITING_START")>>))
    /\ UNCHANGED <<phase, seated, tableVars, seat>>

(* onMessage *)
HandleSetUsername(w) == LET s == SessionOf[w] IN
    /\ Request(w, "SET_USERNAME")
    /\ phase # "Over"
    /\ named' = named \cup {s}
    /\ UNCHANGED <<phase, seated, tableVars, seat>>
    /\ Reply(w, FALSE, Only(WindowsOf(s), <<CurrentEvent(s)'>>))

HandleStart(w) ==
    /\ Request(w, "START")
    /\ MayStart(w)
    /\ phase' = "Started"
    /\ seat' \in Seatings
    /\ UNCHANGED <<seated, named, tableVars>>
    /\ Reply(w, TRUE, StateAndAction')

(* The engine moves.  When it has finished, onMessage tells the server to erase *)
(* the lobby.                                                                   *)
Moved(w) ==
    /\ phase' = IF step' = "Finished" THEN "Over" ELSE phase
    /\ UNCHANGED <<seated, named, seat>>
    /\ Reply(w, TRUE, StateAndAction')

HandleTarget(w) ==
    /\ Running
    /\ Request(w, "TARGET")
    /\ Current(SessionOf[w])
    /\ Table!Bid
    /\ Moved(w)

HandlePlay(w) ==
    /\ Running
    /\ Request(w, "PLAY")
    /\ Current(SessionOf[w])
    /\ Table!PlayCard \/ Table!CloseTrick
    /\ Moved(w)

HandleNext(w) ==
    /\ Running
    /\ Request(w, "NEXT")
    /\ SessionOf[w] = Creator
    /\ Table!NextRound
    /\ Moved(w)

(* ActionOutOfStep, NotPlayerTurn *)
OutOfStep(w) == LET s == SessionOf[w] IN
    \/ Request(w, "TARGET") /\ (step # "SetTarget" \/ ~Current(s))
    \/ Request(w, "PLAY") /\ (step # "Play" \/ ~Current(s))
    \/ Request(w, "NEXT") /\ s = Creator /\ step # "GotoNext"

RefuseOutOfStep(w) ==
    /\ Running
    /\ OutOfStep(w)
    /\ Reply(w, FALSE, StateAndAction)
    /\ UNCHANGED <<lobbyVars, tableVars, seat>>

(* IllegalChoice: the card is not in the hand, or cannot be played; more tricks *)
(* are wanted than there are cards.                                             *)
RefuseIllegal(w) ==
    /\ Running
    /\ Request(w, "TARGET") \/ Request(w, "PLAY")
    /\ Head(fromPage[w]).card = "old"
    /\ ~OutOfStep(w)
    /\ Reply(w, FALSE, Only({w}, <<Invalid>>))
    /\ UNCHANGED <<lobbyVars, tableVars, seat>>

RefuseOther(w) ==
    /\ \/ Request(w, "START") /\ ~MayStart(w) /\ phase # "Over"
       \/ Running /\ Request(w, "NEXT") /\ SessionOf[w] # Creator
       \/ /\ phase = "Created" /\ fromPage[w] # <<>>
          /\ ~Request(w, "START") /\ ~Request(w, "SET_USERNAME")
    /\ ServerError(w)
    /\ UNCHANGED <<tableVars, seat>>

Handle(w) ==
    \/ HandleSetUsername(w) \/ HandleStart(w) \/ HandleTarget(w) \/ HandlePlay(w)
    \/ HandleNext(w) \/ RefuseOutOfStep(w) \/ RefuseIllegal(w) \/ RefuseOther(w)
    \/ Closed(w) /\ UNCHANGED <<tableVars, seat>>
-----------------------------------------------------------------------------
(* eventNetworkUpdate, but for a choice to make again; eventAskCard *)
AskCard(pg) == [pg EXCEPT !.prompt = Plain("PLAY_CARD"), !.active = TRUE]

Shown(pg, msg) ==
    CASE msg = Nothing -> pg
      [] msg.type = "STATE" -> [pg EXCEPT !.active = FALSE]
      [] msg.type = "PLAY_CARD" -> Saved(AskCard(pg), msg)
      [] msg.type \in {"ASK_USERNAME", "ASK_START", "ASK_INTEGER", "ASK_CONFIRM"} -> Saved(pg, msg)
      [] OTHER -> [pg EXCEPT !.prompt = msg]

Show(pg, msg) == Shown(pg, IF msg = Invalid THEN pg.last ELSE msg)

Receive(w) == ReceiveWith(w, Show(page[w], Head(toPage[w]))) /\ UNCHANGED <<tableVars, seat>>

Buttons(w) == LET pg == page[w]  shown == pg.prompt.type IN
    \/ CommonButtons(w)
    \/ shown = "ASK_INTEGER" /\ Ask(w, "TARGET", "-", Hidden(pg))
    \/ shown = "PLAY_CARD" /\ ClickCard(w)
    \/ shown = "CONFIRM" /\ \/ Ask(w, "PLAY", "hand", [Hidden(pg) EXCEPT !.active = FALSE])
                            \/ Click(w, AskCard(pg))

Press(w) == Buttons(w) /\ UNCHANGED <<tableVars, seat>>

Next ==
    \E w \in Windows :
        \/ \E loaded \in BOOLEAN : Join(w, loaded)
        \/ Drop(w) /\ UNCHANGED <<tableVars, seat>>
        \/ Press(w)
        \/ Receive(w)
        \/ Handle(w)

Spec == Init /\ [][Next]_vars
=============================================================================
