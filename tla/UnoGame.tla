------------------------------- MODULE UnoGame -------------------------------
(***************************************************************************)
(* The rules engine of "Uno" (src/src/cards/Uno.cpp): class Game (one      *)
(* deal) inside class Session (the games of a lobby and their scores).     *)
(*                                                                         *)
(* A card is a physical card: its colour, its value and which copy it is;  *)
(* operator== looks at the first two only.  The deck is a sequence, its    *)
(* last element on top.  Of the discard pile (played_) only the last card  *)
(* is ever read, the others are shuffled: it is the set pile and the card  *)
(* top.  A hand is a set.  Shuffles are nondeterministic.                  *)
(*                                                                         *)
(* A refused request throws before anything is assigned: it is no step.    *)
(***************************************************************************)
EXTENDS Integers, Sequences, FiniteSets, Functions

CONSTANTS
    N,          \* number of players
    Colors,     \* enum class Color
    Cards,      \* createFullDeck()
    HandSize,   \* cardsForNbPlayers(N)
    MaxGames,   \* bound on the games of a session
    None        \* no colour: std::nullopt

VARIABLES
    deck, pile, top, hands,             \* Game: where the cards are
    lastCard, current, order, state,    \* Game: whose turn, on which card
    drawQty, drawCanPlay,               \* Game: the draw being served, or the last one
    startingPlayer, score               \* Session

cardVars    == <<deck, pile, top, hands>>
drawVars    == <<drawQty, drawCanPlay>>
sessionVars == <<startingPlayer, score>>
vars == <<deck, pile, top, hands, lastCard, current, order, state,
          drawQty, drawCanPlay, startingPlayer, score>>

Players == 0 .. N - 1

(* enum class BasicValue and, after it, ColorlessValue. *)
SkipTurn == 10
Plus2    == 11
Reverse  == 12
ChangeColor == 13
Plus4       == 14

IsColorless(card) == card.value \in {ChangeColor, Plus4}
Wilds == {c \in Cards : IsColorless(c)}

ASSUME PlayersAssumption == N \in Nat \ {0}
ASSUME CardsAssumption ==
    /\ IsFiniteSet(Cards)
    /\ \A c \in Cards : /\ c.value \in 0 .. 14
                        /\ c.color \in (IF IsColorless(c) THEN {None} ELSE Colors)
ASSUME ColorsAssumption == None \notin Colors /\ Colors # {}
(* Every hand can be dealt and a coloured card is left to turn over: the 108  *)
(* cards give that to the 15 players cardsForNbPlayers accepts.               *)
ASSUME HandSizeAssumption ==
    /\ HandSize \in Nat \ {0}
    /\ N * HandSize + Cardinality(Wilds) < Cardinality(Cards)
ASSUME MaxGamesAssumption == MaxGames \in Nat \ {0}
-----------------------------------------------------------------------------
Same(c, d) == c.color = d.color /\ c.value = d.value

(* Mutant of Move: the seat after the last one is not the first. *)
Move_NoWrap(seat, advance, direction) ==
    LET steps == advance % N
    IN  IF direction = "Normal"
        THEN IF seat + steps > N THEN seat + steps - N ELSE seat + steps
        ELSE IF seat < steps THEN seat + N - steps ELSE seat - steps

(* PlayerIter::operator+= *)
Move(seat, advance, direction) ==
    LET steps == advance % N
    IN  IF direction = "Normal"
        THEN IF seat + steps >= N THEN seat + steps - N ELSE seat + steps
        ELSE IF seat < steps THEN seat + N - steps ELSE seat - steps

Opposite(direction) == IF direction = "Normal" THEN "Reversed" ELSE "Normal"

(* Uno::canPlay: on is the last card played, with the colour chosen for it. *)
CanPlay(card, hand, on) ==
    \/ /\ ~IsColorless(card)
       /\ card.color = on.color \/ card.value = on.value
    \/ card.value = ChangeColor
    \/ /\ card.value = Plus4
       /\ \/ on.value = Plus4
          \/ \A c \in hand : Same(c, card) \/ c.color # on.color

(* Mutant of DrawnQty: all or nothing. *)
DrawnQty_AllOrNothing == IF drawQty > Len(deck) THEN 0 ELSE drawQty

(* drawnCards(): the top of the deck, as many as are wanted and left. *)
DrawnQty   == IF drawQty > Len(deck) THEN Len(deck) ELSE drawQty
DrawnCards == {deck[i] : i \in Len(deck) - DrawnQty + 1 .. Len(deck)}

CanPlayDrawnCard ==
    /\ state = "Drawing" /\ drawCanPlay
    /\ \E c \in DrawnCards : CanPlay(c, hands[current], lastCard)

(* Mutant of CanPlayHandCard: any card will do. *)
CanPlayHandCard_AnyCard == state = "PlayOrDraw" \/ (state = "Drawing" /\ drawCanPlay)

CanPlayHandCard ==
    /\ state = "PlayOrDraw" \/ (state = "Drawing" /\ drawCanPlay)
    /\ \E c \in hands[current] : CanPlay(c, hands[current], lastCard)

CardPoints(c) ==
    IF IsColorless(c) THEN 50 ELSE IF c.value \in {SkipTurn, Plus2, Reverse} THEN 20 ELSE c.value
CalculatePoints(hand) == SumFunction([c \in hand |-> CardPoints(c)])

(* The orders a set of cards can be shuffled into. *)
Shuffles(S) == {s \in [1 .. Cardinality(S) -> S] : IsInjective(s)}
-----------------------------------------------------------------------------
(* Mutants of ReadyDraw: the pile is reshuffled only when the deck is empty; *)
(* the cards reshuffled stay on the pile too.                                *)
ReadyDraw_LastMoment(qty, canPlay, d, p) ==
    /\ drawQty' = qty
    /\ drawCanPlay' = canPlay
    /\ state' = "Drawing"
    /\ IF d # <<>>
       THEN deck' = d /\ pile' = p
       ELSE /\ \E under \in Shuffles(p) : deck' = under \o d
            /\ pile' = {}

ReadyDraw_PileKept(qty, canPlay, d, p) ==
    /\ drawQty' = qty
    /\ drawCanPlay' = canPlay
    /\ state' = "Drawing"
    /\ pile' = p
    /\ IF Len(d) >= qty
       THEN deck' = d
       ELSE \E under \in Shuffles(p) : deck' = under \o d

(* Game::readyDraw, on deck d and discard pile p: under the deck goes the    *)
(* shuffled pile, all but the card on top, when the deck is too short.       *)
ReadyDraw(qty, canPlay, d, p) ==
    /\ drawQty' = qty
    /\ drawCanPlay' = canPlay
    /\ state' = "Drawing"
    /\ IF Len(d) >= qty
       THEN deck' = d /\ pile' = p
       ELSE /\ \E under \in Shuffles(p) : deck' = under \o d
            /\ pile' = {}

NoDraw(d, p) == deck' = d /\ pile' = p /\ UNCHANGED drawVars

(* Mutant of CheckForEnd: only the player whose turn comes is looked at. *)
CheckForEnd_NextPlayer(s) == IF hands'[current'] = {} THEN "Finished" ELSE s

(* Game::checkForEnd, for a step that leaves state s. *)
CheckForEnd(s) == IF \E p \in Players : hands'[p] = {} THEN "Finished" ELSE s

(* Mutants of UpdateScore: no points is taken for no cards; a game that ends *)
(* on a draw is forgotten.                                                   *)
UpdateScore_WonByPoints ==
    score' = IF state' = "Finished"
             THEN Append(score, [p \in Players |->
                                    [points |-> CalculatePoints(hands'[p]),
                                     won    |-> CalculatePoints(hands'[p]) = 0]])
             ELSE score

ScoreOf(h) == [p \in Players |-> [points |-> CalculatePoints(h[p]), won |-> h[p] = {}]]

UpdateScore_NotAfterDraw ==
    score' = IF state' = "Finished" /\ state # "Drawing" THEN Append(score, ScoreOf(hands')) ELSE score

(* Session::updateScoreIfNeeded *)
UpdateScore == score' = IF state' = "Finished" THEN Append(score, ScoreOf(hands')) ELSE score

(* The card to follow, color being the one asked for with a wild card. *)
Named(card, color) ==
    [value |-> card.value, color |-> IF IsColorless(card) THEN color ELSE card.color]

(* The second half of Game::play: the card is on the discard pile and acts;  *)
(* d is the deck the card leaves behind.                                     *)
PlayCard(card, color, d) ==
    LET p == pile \cup {top}
    IN  /\ top' = card
        /\ lastCard' = Named(card, color)
        /\ order' = IF card.value = Reverse THEN Opposite(order) ELSE order
        /\ LET skipped == IF card.value = SkipTurn THEN Move(current, 1, order) ELSE current
           IN  current' = Move(skipped, 1, order')
        /\ CASE card.value = Plus2 -> ReadyDraw(2, FALSE, d, p)
             [] card.value = Plus4 -> ReadyDraw(4, FALSE, d, p)
             [] OTHER -> NoDraw(d, p) /\ state' = CheckForEnd("PlayOrDraw")
        /\ UpdateScore
        /\ UNCHANGED startingPlayer

(* Game::play of a card of the hand. *)
PlayHandCard(player, card, color) ==
    /\ player = current
    /\ state \in {"Play", "PlayOrDraw"}
    /\ card \in hands[player]
    /\ CanPlay(card, hands[player], lastCard)
    /\ hands' = [hands EXCEPT ![player] = @ \ {card}]
    /\ PlayCard(card, color, deck)

(* Game::play of the card on top of the deck.  The switch falls through to   *)
(* this case in state PlayOrDraw too, for a card the hand does not hold, and *)
(* then drawQty is what the last draw left there.                            *)
PlayDrawnCard(player, card, color) ==
    /\ player = current
    /\ \/ state = "Drawing" /\ drawCanPlay
       \/ state = "PlayOrDraw" /\ \A c \in hands[player] : ~Same(c, card)
    /\ DrawnCards = {card}
    /\ CanPlay(card, hands[player], lastCard)
    /\ UNCHANGED hands
    /\ PlayCard(card, color, SubSeq(deck, 1, Len(deck) - 1))

Draw(player) ==
    /\ player = current
    /\ state = "PlayOrDraw"
    /\ ReadyDraw(1, TRUE, deck, pile)
    /\ UNCHANGED <<top, hands, lastCard, current, order, sessionVars>>

DrawDone(player, wantToPlay) ==
    /\ player = current
    /\ state = "Drawing"
    /\ wantToPlay => drawCanPlay
    /\ hands' = [hands EXCEPT ![player] = @ \cup DrawnCards]
    /\ deck' = SubSeq(deck, 1, Len(deck) - DrawnQty)
    /\ current' = IF wantToPlay THEN current ELSE Move(current, 1, order)
    /\ state' = CheckForEnd(IF wantToPlay THEN "Play" ELSE "PlayOrDraw")
    /\ UpdateScore
    /\ UNCHANGED <<pile, top, lastCard, order, drawVars, startingPlayer>>
-----------------------------------------------------------------------------
HandDeals ==
    {h \in [Players -> {s \in SUBSET Cards : Cardinality(s) = HandSize}] :
        \A p, q \in Players : p # q => h[p] \cap h[q] = {}}

(* How many cards Game::restart turns over from the top of the deck: all the *)
(* colourless ones there and the coloured one below them.                    *)
TurnedOver(d) ==
    CHOOSE k \in 1 .. Len(d) :
        /\ ~IsColorless(d[Len(d) - k + 1])
        /\ \A j \in 1 .. k - 1 : IsColorless(d[Len(d) - j + 1])

(* The deals of Game::restart: hands, deck, and the discard pile begun. *)
Deals ==
    UNION {{[hands |-> h,
             deck  |-> SubSeq(d, 1, Len(d) - TurnedOver(d)),
             pile  |-> {d[i] : i \in Len(d) - TurnedOver(d) + 2 .. Len(d)},
             top   |-> d[Len(d) - TurnedOver(d) + 1]] :
               d \in Shuffles(Cards \ UNION Range(h))} : h \in HandDeals}

Face(card) == [value |-> card.value, color |-> card.color]

FirstOrder(card) == IF card.value = Reverse THEN "Reversed" ELSE "Normal"

(* The first card acts as if the player before had played it. *)
FirstPlayer(card, starting) ==
    CASE card.value = SkipTurn -> Move(starting, 1, "Normal")
      [] card.value = Reverse  -> Move(starting, 2, "Reversed")
      [] OTHER                 -> starting

(* Session's constructor: the draw fields are set by Game's, and stay if the *)
(* first card asks for no draw.                                              *)
Init ==
    /\ \E d \in Deals :
         /\ hands = d.hands
         /\ top = d.top
         /\ lastCard = Face(d.top)
         /\ order = FirstOrder(d.top)
         /\ current = FirstPlayer(d.top, 0)
         /\ drawCanPlay = FALSE
         /\ IF d.top.value = Plus2
            THEN /\ drawQty = 2 /\ state = "Drawing"
                 /\ IF Len(d.deck) >= 2
                    THEN deck = d.deck /\ pile = d.pile
                    ELSE /\ \E under \in Shuffles(d.pile) : deck = under \o d.deck
                         /\ pile = {}
            ELSE drawQty = 0 /\ state = "PlayOrDraw" /\ deck = d.deck /\ pile = d.pile
    /\ startingPlayer = Move(0, 1, "Normal")
    /\ score = <<>>

NextGame ==
    /\ state = "Finished"
    /\ Len(score) < MaxGames
    /\ \E d \in Deals :
         /\ hands' = d.hands
         /\ top' = d.top
         /\ lastCard' = Face(d.top)
         /\ order' = FirstOrder(d.top)
         /\ current' = FirstPlayer(d.top, startingPlayer)
         /\ IF d.top.value = Plus2
            THEN ReadyDraw(2, FALSE, d.deck, d.pile)
            ELSE NoDraw(d.deck, d.pile) /\ state' = "PlayOrDraw"
    /\ startingPlayer' = Move(startingPlayer, 1, "Normal")
    /\ UNCHANGED score

Next ==
    \/ \E p \in Players, c \in Cards, color \in Colors : PlayHandCard(p, c, color)
    \/ \E p \in Players, c \in Cards, color \in Colors : PlayDrawnCard(p, c, color)
    \/ \E p \in Players : Draw(p)
    \/ \E p \in Players, want \in BOOLEAN : DrawDone(p, want)
    \/ NextGame

Spec == Init /\ [][Next]_vars
=============================================================================
