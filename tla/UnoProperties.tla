---------------------------- MODULE UnoProperties ----------------------------
(***************************************************************************)
(* What makes a session of Uno right, stated over the state of UnoGame,    *)
(* and the requests the web client can make.                               *)
(***************************************************************************)
EXTENDS UnoGame

(* The points of any hand: what a score can be. *)
Points == {CalculatePoints(h) : h \in SUBSET Cards}

(* Every field of Game and Session keeps the shape of its C++ declaration.   *)
TypeOK ==
    /\ deck \in Seq(Cards)
    /\ pile \in SUBSET Cards
    /\ top \in Cards
    /\ hands \in [Players -> SUBSET Cards]
    /\ lastCard \in [value : 0 .. 14, color : Colors]
    /\ current \in Players
    /\ order \in {"Normal", "Reversed"}
    /\ state \in {"PlayOrDraw", "Play", "Drawing", "Finished"}
    /\ drawQty \in {0, 1, 2, 4} /\ drawCanPlay \in BOOLEAN
    /\ startingPlayer \in Players
    /\ score \in Seq([Players -> [points : Points, won : BOOLEAN]])

(* No card is lost, and none is in two places: plays, draws, reshuffles and  *)
(* deals only move the cards of the deck around.                             *)
CardsAreConserved ==
    /\ Range(deck) \cup pile \cup {top} \cup UNION Range(hands) = Cards
    /\ \A i, j \in 1 .. Len(deck) : i # j => deck[i] # deck[j]
    /\ \A i \in 1 .. Len(deck) :
          /\ deck[i] \notin pile \cup {top}
          /\ \A p \in Players : deck[i] \notin hands[p]
    /\ top \notin pile
    /\ \A p \in Players : hands[p] \cap (pile \cup {top}) = {}
    /\ \A p, q \in Players : p # q => hands[p] \cap hands[q] = {}

(* The card to follow is the one on top of the discard pile; the colour can  *)
(* differ from it only where the player named one.                           *)
LastCardIsTop ==
    /\ lastCard.value = top.value
    /\ ~IsColorless(top) => lastCard.color = top.color

(* A game is over as soon as somebody has no card left, but for the draw his *)
(* last card, a +2 or a +4, imposed on the next player.                      *)
EmptyHandEndsGame ==
    \A p \in Players : hands[p] = {} =>
        \/ state = "Finished"
        \/ /\ state = "Drawing" /\ ~drawCanPlay
           /\ top.value \in {Plus2, Plus4}
           /\ p # current \/ N = 1

(* One player, never two, wins each game.                                    *)
OneWinner ==
    \A g \in 1 .. Len(score) : \E p \in Players :
        \A q \in Players : score[g][q].won <=> q = p

(* Each finished game is scored, and scored once, also when it ended on the  *)
(* draw after the last card; the deal passes from seat to seat.              *)
EveryGameScoredOnce ==
    startingPlayer = (Len(score) + (IF state = "Finished" THEN 0 ELSE 1)) % N

(* A draw falls short only when every other card is in somebody's hand.      *)
DrawIsServed ==
    state = "Drawing" /\ Len(deck) < drawQty => pile = {}

(* What the proofs add: only the player who played last can be without cards,  *)
(* and a draw that cannot be declined is the one the card on top imposes.      *)
OneEmptyHand == \A p, q \in Players : hands[p] = {} /\ hands[q] = {} => p = q

ForcedByTop ==
    state = "Drawing" /\ ~drawCanPlay =>
        /\ top.value \in {Plus2, Plus4}
        /\ drawQty = IF top.value = Plus2 THEN 2 ELSE 4

IInv ==
    /\ TypeOK
    /\ CardsAreConserved
    /\ LastCardIsTop
    /\ EmptyHandEndsGame
    /\ OneEmptyHand
    /\ ForcedByTop
    /\ OneWinner
    /\ EveryGameScoredOnce
    /\ DrawIsServed

(* A +2 or a +4 cannot be dodged, answered or played on, and is served once: *)
(* the next step of the game is its victim taking two or four cards, or all  *)
(* there are left, and losing the turn.                                      *)
ForcedDrawIsTaken ==
    [][state = "Drawing" /\ ~drawCanPlay =>
          LET owed   == IF top.value = Plus2 THEN 2 ELSE 4
              served == IF owed <= Len(deck) THEN owed ELSE Len(deck)
          IN  /\ Cardinality(hands'[current]) = Cardinality(hands[current]) + served
              /\ hands[current] \subseteq hands'[current]
              /\ current' = Move(current, 1, order)
              /\ state' \in {"PlayOrDraw", "Finished"}]_vars

(* The game without its cards: what the lobby relies on.  Nobody plays twice   *)
(* in a row, a draw comes before anything else, and what the player is offered *)
(* after a draw is what he will be allowed to do.                              *)
Offer ==
    (IF CanPlayDrawnCard THEN {"drawn"} ELSE {})
        \cup (IF state = "Drawing" /\ CanPlayHandCard THEN {"hand"} ELSE {})

Table == INSTANCE UnoTable WITH
    turn <- current, mayPlay <- (state = "Drawing" /\ drawCanPlay), offer <- Offer

ImplementsTable == Table!Spec
-----------------------------------------------------------------------------
(* What game/uno.html lets a player ask.  eventDrawCards offers to play the  *)
(* drawn card, or another one, only if LobbyUno::serializeCurrentTask says    *)
(* it can be (playable.drawn, playable.hand).  When no card is left to draw,  *)
(* the empty list of cards comes as an empty string and eventDrawCards fails  *)
(* on its forEach, before it shows any button.                                *)
ClientPlayDrawnCard(p, c, color) ==
    state = "Drawing" /\ CanPlayDrawnCard /\ PlayDrawnCard(p, c, color)

ClientDrawDone(p, want) ==
    /\ DrawnCards # {}
    /\ want => CanPlayHandCard
    /\ DrawDone(p, want)

ClientNext ==
    \/ \E p \in Players, c \in Cards, color \in Colors : PlayHandCard(p, c, color)
    \/ \E p \in Players, c \in Cards, color \in Colors : ClientPlayDrawnCard(p, c, color)
    \/ \E p \in Players : Draw(p)
    \/ \E p \in Players, want \in BOOLEAN : ClientDrawDone(p, want)
    \/ NextGame

ClientSpec     == Init /\ [][ClientNext]_vars
FairClientSpec == ClientSpec /\ WF_vars(ClientNext)

(* A player who gave up passing his turn to play another card than the one   *)
(* he drew has one to play: taking the drawn card into the hand can forbid a *)
(* +4, but then the drawn card itself can be played.                         *)
PlayHasACard ==
    state = "Play" => \E c \in hands[current] : CanPlay(c, hands[current], lastCard)

NothingToDraw == state = "Drawing" /\ DrawnCards = {}

(* With players who keep answering, every turn comes to its end, unless there *)
(* is no card left to draw.                                                   *)
TurnPasses ==
    \A p \in Players :
        (current = p /\ state # "Finished") ~> (current # p \/ state = "Finished" \/ NothingToDraw)
=============================================================================
