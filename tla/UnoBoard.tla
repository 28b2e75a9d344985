------------------------------- MODULE UnoBoard -------------------------------
(***************************************************************************)
(* What each player of Uno sees of the game: LobbyUno::onMessage moves the *)
(* engine and sends what changed, and only that (refreshPlay).  told[p] is *)
(* what the pages of p were last sent: their hand, the card to follow, the *)
(* number of cards of everybody, whose turn it is, in which direction, and *)
(* the scores.                                                             *)
(***************************************************************************)
EXTENDS UnoProperties

VARIABLE told

boardVars == <<vars, told>>

Shown == [sizes |-> [q \in Players |-> Cardinality(hands[q])],
          current |-> current, order |-> order, card |-> lastCard]

Board(p) == [hand |-> hands[p], table |-> Shown, score |-> score]

(* refreshPlay and, if scored, serializeScore to all: the hand goes to the player *)
(* whose hand changed and, with the task to play a card, to the one whose turn it  *)
(* is.                                                                             *)
Refresh(changed, scored) ==
    told' = [p \in Players |->
               [hand  |-> IF p \in changed \/ (p = current' /\ state' \in {"Play", "PlayOrDraw"})
                          THEN hands'[p] ELSE told[p].hand,
                table |-> Shown',
                score |-> IF scored THEN score' ELSE told[p].score]]

HandlePlay(p) ==
    /\ \E c \in Cards, color \in Colors : PlayHandCard(p, c, color) \/ PlayDrawnCard(p, c, color)
    /\ Refresh({p}, state' = "Finished")

(* DRAW: the cards on the deck are shown, nothing else. *)
HandleDraw(p) ==
    /\ Draw(p)
    /\ UNCHANGED told

(* Mutant of HandleDrawConfirm: the game is thought to end by a card only. *)
HandleDrawConfirm_NoScore(p) ==
    /\ \E want \in BOOLEAN : DrawDone(p, want)
    /\ Refresh({p}, FALSE)

HandleDrawConfirm(p) ==
    /\ \E want \in BOOLEAN : DrawDone(p, want)
    /\ Refresh({p}, state' = "Finished")

HandleNext ==
    /\ NextGame
    /\ Refresh(Players, TRUE)

(* START *)
BoardInit ==
    /\ Init
    /\ told = [p \in Players |-> Board(p)]

(* A request that comes too late or at the wrong time: refreshPlay for its player.  In *)
(* each state each player has one, the player at turn DRAW_CONFIRM or DRAW.             *)
HandleOutOfStep(p) ==
    /\ UNCHANGED vars
    /\ Refresh({p}, FALSE)

BoardNext ==
    \/ HandleNext
    \/ \E p \in Players :
          HandlePlay(p) \/ HandleDraw(p) \/ HandleDrawConfirm(p) \/ HandleOutOfStep(p)

BoardSpec == BoardInit /\ [][BoardNext]_boardVars

(* What a player was last told is how things are, although each message is sent *)
(* only to those the lobby thinks it concerns: his hand, the hands of the others *)
(* as they show, the card, the turn, the direction and every score.              *)
BoardsAreRight == \A p \in Players : told[p] = Board(p)
=============================================================================
