------------------------------- MODULE UnoLobby -------------------------------
(***************************************************************************)
(* A lobby of Uno (src/src/server/LobbyUno.cpp) and its pages              *)
(* (web/game/uno.html): which requests the engine sees, what is told to    *)
(* whom, and what each window asks its player.  The engine is UnoTable,    *)
(* which UnoGame implements.                                               *)
(***************************************************************************)
EXTENDS LobbyPages

VARIABLES
    state, turn, mayPlay, offer,   \* UnoTable
    noCards,                       \* the draw in progress finds no card to draw
    ending,                        \* windows whose END is answered, the lobby not yet erased
    strayed                        \* history: windows in which a card was clicked that
                                   \* nothing had asked for, since their last task came

Table == INSTANCE UnoTable WITH Players <- Sessions

tableVars == <<state, turn, mayPlay, offer, noCards>>
vars == <<lobbyVars, pageVars, tableVars, ending, strayed>>

Running == phase = "Started"

(* serializeHand, serializeCurrentTask *)
HandOf(s) ==
    Message("HAND", IF s # turn THEN {}
                    ELSE {"playing"} \cup (IF state = "PlayOrDraw" THEN {"can_draw"} ELSE {}))

Task(s) ==
    IF state = "Finished" THEN Plain(IF s = Creator THEN "ASK_CONFIRM" ELSE "WAITING_NEXT")
    ELSE IF s # turn THEN Plain("WAITING")
    ELSE IF state = "Drawing" THEN Message("DRAW", offer \cup (IF noCards THEN {"empty"} ELSE {}))
    ELSE HandOf(s)

(* Mutants of RefreshPlay: the hand that changed is not sent; the hand comes after *)
(* the task.                                                                       *)
RefreshPlay_TasksOnly(changed) == [w \in Windows |-> <<Task(SessionOf[w])>>]

RefreshPlay_TaskFirst(changed) ==
    [w \in Windows |-> <<Task(SessionOf[w])>> \o
        (IF SessionOf[w] \in changed THEN <<HandOf(SessionOf[w])>> ELSE <<>>)]

(* refreshPlay: the hand only to those whose hand changed. *)
RefreshPlay(changed) ==
    [w \in Windows |->
        (IF SessionOf[w] \in changed THEN <<HandOf(SessionOf[w])>> ELSE <<>>)
            \o <<Task(SessionOf[w])>>]

Init ==
    /\ InitPages
    /\ state = "Finished"
    /\ turn = Creator
    /\ mayPlay = FALSE
    /\ offer = {}
    /\ noCards = FALSE
    /\ ending = {}
    /\ strayed = {}

(* onPlayerJoin: every window of the player is told. *)
Join(w, loaded) ==
    /\ JoinWith(w, loaded,
           [v \in Windows |->
               IF SessionOf[v] # SessionOf[w] THEN <<>>
               ELSE IF Running THEN <<HandOf(SessionOf[w]), Task(SessionOf[w])>>
               ELSE <<BeforeStart(SessionOf[w])'>>])
    /\ UNCHANGED <<tableVars, ending, strayed>>
-----------------------------------------------------------------------------
(* onMessage *)

(* readyDraw: the players may hold all the cards but the one on top. *)
ReadyDraw == noCards' \in BOOLEAN /\ (noCards' => state' = "Drawing" /\ "drawn" \notin offer')

HandleSetUsername(w) ==
    /\ Request(w, "SET_USERNAME")
    /\ phase # "Over"
    /\ named' = named \cup {SessionOf[w]}
    /\ Reply(w, FALSE, Only(WindowsOf(SessionOf[w]),
                            <<Plain(IF Creator \in seated THEN "WAITING_START" ELSE "WAITING_HOST")>>))
    /\ UNCHANGED <<phase, seated, tableVars>>

HandleStart(w) ==
    /\ Request(w, "START")
    /\ MayStart(w)
    /\ phase' = "Started"
    /\ Table!NextGame
    /\ noCards' = FALSE
    /\ turn' \in seated
    /\ Reply(w, TRUE, RefreshPlay(Sessions)')
    /\ UNCHANGED <<seated, named>>

(* The engine accepts a request that changes the hand of s. *)
Accept(w) ==
    /\ turn' \in seated
    /\ Reply(w, TRUE, RefreshPlay({SessionOf[w]})')
    /\ UNCHANGED lobbyVars

(* A card of the hand is refused during a draw, unless it equals the card drawn; *)
(* outside of one it is accepted if the page was up to date.                     *)
HandlePlay(w) ==
    /\ Running
    /\ Request(w, "PLAY")
    /\ Table!Play(SessionOf[w])
    /\ ReadyDraw
    /\ Accept(w)

HandleDraw(w) ==
    /\ Running
    /\ Request(w, "DRAW")
    /\ Table!Draw(SessionOf[w])
    /\ ReadyDraw
    /\ Reply(w, TRUE, Only(WindowsOf(SessionOf[w]), <<Task(SessionOf[w])'>>))
    /\ UNCHANGED lobbyVars

HandleDrawConfirm(w) ==
    /\ Running
    /\ Request(w, "DRAW_CONFIRM")
    /\ IF Head(fromPage[w]).card = "hand"
       THEN Table!KeepTurn(SessionOf[w])
       ELSE Table!Pass(SessionOf[w])
    /\ noCards' = FALSE
    /\ Accept(w)

HandleNext(w) ==
    /\ Running
    /\ Request(w, "NEXT")
    /\ SessionOf[w] = Creator
    /\ Table!NextGame
    /\ noCards' = FALSE
    /\ turn' \in seated
    /\ Reply(w, TRUE, RefreshPlay(Sessions)')
    /\ UNCHANGED lobbyVars

(* END is answered under the mutex of the lobby, with the game as it was: what comes *)
(* before the lobby is erased is answered as ever.                                    *)
HandleEnd(w) ==
    /\ Running
    /\ Request(w, "END")
    /\ SessionOf[w] = Creator
    /\ ending' = ending \cup {w}
    /\ Reply(w, FALSE, Only(open, <<Plain("END")>>))
    /\ UNCHANGED <<lobbyVars, tableVars>>

(* The coroutine that answered END goes on, under the mutex of the server. *)
Erase(w) ==
    /\ w \in ending
    /\ phase' = "Over"
    /\ ending' = ending \ {w}
    /\ UNCHANGED <<seated, named, pageVars, tableVars, strayed>>

(* NotPlayerTurn, ActionOutOfStep *)
OutOfStep(w) ==
    \/ Request(w, "PLAY") /\ (SessionOf[w] # turn \/ state = "Finished"
                                 \/ (state = "Drawing" /\ ~mayPlay))
    \/ Request(w, "DRAW") /\ (SessionOf[w] # turn \/ state \in {"Drawing", "Finished"})
    \/ Request(w, "DRAW_CONFIRM") /\ (SessionOf[w] # turn \/ state # "Drawing")
    \/ Request(w, "NEXT") /\ SessionOf[w] = Creator /\ state # "Finished"

RefuseOutOfStep(w) ==
    /\ Running
    /\ OutOfStep(w)
    /\ Reply(w, FALSE, RefreshPlay({SessionOf[w]}))
    /\ UNCHANGED <<lobbyVars, tableVars>>

(* IllegalChoice *)
Illegal(w) == LET r == Head(fromPage[w]) IN
    \/ Request(w, "PLAY") /\ (r.card = "old" \/ (r.card = "hand" /\ state = "Drawing"))
    \/ Request(w, "DRAW") /\ state = "Play"
    \/ Request(w, "DRAW_CONFIRM") /\ r.card = "hand" /\ ~mayPlay

RefuseIllegal(w) ==
    /\ Running
    /\ Illegal(w)
    /\ ~OutOfStep(w)
    /\ Reply(w, FALSE, Only({w}, <<Invalid>>))
    /\ UNCHANGED <<lobbyVars, tableVars>>

RefuseOther(w) ==
    /\ \/ Request(w, "START") /\ ~MayStart(w) /\ phase # "Over"
       \/ Running /\ (Request(w, "NEXT") \/ Request(w, "END")) /\ SessionOf[w] # Creator
       \/ phase = "Created" /\ fromPage[w] # <<>> /\ ~Request(w, "START") /\ ~Request(w, "SET_USERNAME")
    /\ ServerError(w)
    /\ UNCHANGED tableVars

Answer(w) ==
    \/ HandleSetUsername(w) \/ HandleStart(w) \/ HandlePlay(w) \/ HandleDraw(w)
    \/ HandleDrawConfirm(w) \/ HandleNext(w)
    \/ RefuseOutOfStep(w) \/ RefuseIllegal(w) \/ RefuseOther(w)
    \/ Closed(w) /\ UNCHANGED tableVars

(* The coroutine of a connection takes one message at a time: the one that ended the *)
(* game takes no other before the lobby is erased.                                   *)
Handle(w) ==
    /\ w \notin ending
    /\ HandleEnd(w) \/ (Answer(w) /\ UNCHANGED ending)
    /\ UNCHANGED strayed
-----------------------------------------------------------------------------
(* eventNetworkUpdate.  An empty list of cards comes as an empty string: *)
(* eventDrawCards hides the buttons, fails on its forEach and shows none. *)
Show(pg, msg) ==
    CASE msg \in {Invalid, Nothing} -> pg
      [] msg.type = "DRAW" /\ "empty" \in msg.flags -> Hidden(pg)
      [] msg.type = "HAND" ->
            IF "playing" \in msg.flags
            THEN [Saved(pg, msg) EXCEPT !.active = TRUE]
            ELSE [pg EXCEPT !.last = msg, !.active = FALSE]
      [] msg.type \in {"ASK_USERNAME", "ASK_START", "ASK_CONFIRM"} -> Saved(pg, msg)
      [] OTHER -> [pg EXCEPT !.prompt = msg]

(* lastMsg is shown again by refuseCard() only: without a card to refuse it is dropped. *)
Kept(pg) ==
    IF pg.active \/ pg.prompt.type = "CONFIRM" THEN pg ELSE [pg EXCEPT !.last = Nothing]

Receive(w) ==
    /\ ReceiveWith(w, Kept(Show(page[w], Head(toPage[w]))))
    /\ strayed' = IF Head(toPage[w]) = Invalid THEN strayed ELSE strayed \ {w}
    /\ UNCHANGED <<tableVars, ending>>

(* acceptCard: the card is sent, or first a colour is asked for. *)
AcceptCard(w, card) == LET done == Kept([Hidden(page[w]) EXCEPT !.active = FALSE]) IN
    \/ Ask(w, "PLAY", card, done)
    \/ Click(w, [done EXCEPT !.prompt = Message("COLOR", IF card = "drawn" THEN {"of_drawn"} ELSE {})])

Buttons(w) == LET pg == page[w]  shown == pg.prompt IN
    \/ CommonButtons(w)
    \/ shown.type = "ASK_CONFIRM" /\ Ask(w, "END", "-", Hidden(pg))
    \/ shown.type = "CONFIRM" /\ (AcceptCard(w, "hand") \/ Click(w, Kept(Show(pg, pg.last))))
    \/ shown.type = "COLOR"
         /\ Ask(w, "PLAY", IF "of_drawn" \in shown.flags THEN "drawn" ELSE "hand", Hidden(pg))
    \/ "can_draw" \in shown.flags /\ Ask(w, "DRAW", "-", Hidden(pg))
    \/ shown.type = "DRAW" /\ Ask(w, "DRAW_CONFIRM", "-", Hidden(pg))
    \/ "drawn" \in shown.flags /\ AcceptCard(w, "drawn")
    \/ "hand" \in shown.flags /\ Ask(w, "DRAW_CONFIRM", "hand", Hidden(pg))

(* The cards of an active hand can be clicked whatever is asked. *)
Press(w) ==
    /\ \/ Buttons(w) /\ UNCHANGED strayed
       \/ /\ ClickCard(w)
          /\ strayed' = IF page[w].prompt.type \in {"HAND", "CONFIRM"} THEN strayed
                        ELSE strayed \cup {w}
    /\ UNCHANGED <<tableVars, ending>>

(* The connection breaks when its coroutine is done. *)
Leave(w) == w \notin ending /\ Drop(w) /\ UNCHANGED <<tableVars, ending, strayed>>

Next ==
    \E w \in Windows :
        \/ \E loaded \in BOOLEAN : Join(w, loaded)
        \/ Leave(w)
        \/ Press(w)
        \/ Receive(w)
        \/ Handle(w)
        \/ Erase(w)

Spec == Init /\ [][Next]_vars
=============================================================================
