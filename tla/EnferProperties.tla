--------------------------- MODULE EnferProperties ---------------------------
(***************************************************************************)
(* What makes a game of Enfer right, stated over the state of EnferGame.   *)
(***************************************************************************)
EXTENDS EnferGame

(* The player who laid the i-th card of the trick on the table. *)
PlayedBy(i) == Advance(handStartingPlayer, i - 1)
InTrick(p)  == Len(currentHand) < N /\ \E i \in 1 .. Len(currentHand) : PlayedBy(i) = p

(* Game::ScoreCase *)
ScoreCase == [target : Nat, succeed : BOOLEAN, points : Nat]

(* Every field of Game and Round keeps the shape its C++ declaration gives,  *)
(* the optional ones being a value or None.                                  *)
TypeOK ==
    /\ currentRoundNumber \in 1 .. MaxRound
    /\ scores \in Seq([Players -> ScoreCase])
    /\ hands \in [Players -> SUBSET Deck]
    /\ target \in [Players -> Nat \cup {None}]
    /\ obtained \in [Players -> Nat]
    /\ strong \in Deck \cup {None}
    /\ currentHand \in Seq(Deck) /\ Len(currentHand) <= N
    /\ handStartingPlayer \in Players
    /\ currentPlayer \in Players

(* A card is in one place only: a hand, the trick on the table or the strong *)
(* card turned over beside it.                                               *)
NoCardTwice ==
    /\ \A p, q \in Players : p # q => hands[p] \cap hands[q] = {}
    /\ \A p \in Players : strong \notin hands[p]
    /\ \A i \in 1 .. Len(currentHand) :
          /\ currentHand[i] # strong
          /\ \A p \in Players : currentHand[i] \notin hands[p]
          /\ \A j \in 1 .. Len(currentHand) : i # j => currentHand[i] # currentHand[j]

(* The scan with stronger() finds the card the rules name: the highest card  *)
(* of the strong kind if one was played, of the kind led otherwise; its      *)
(* player has the trick and leads the next one.                              *)
BestCardTakesTrick ==
    Len(currentHand) = N =>
        LET laid   == Range(currentHand)
            trumps == {c \in laid : strong # None /\ c.kind = strong.kind}
            able   == IF trumps # {} THEN trumps ELSE {c \in laid : c.kind = currentHand[1].kind}
            best   == CHOOSE c \in able : \A d \in able : d.value <= c.value
        IN  /\ currentHand[((currentPlayer - handStartingPlayer) % N) + 1] = best
            /\ obtained[currentPlayer] > 0

(* Following suit cannot be dodged: whoever laid another kind than the one   *)
(* led holds no card of that kind for as long as the trick is on the table.  *)
SuitIsFollowed ==
    \A i \in 2 .. Len(currentHand) :
        currentHand[i].kind # currentHand[1].kind =>
            \A c \in hands[PlayedBy(i)] : c.kind # currentHand[1].kind

(* Game::state, the round number and the score sheet never disagree: a line  *)
(* per finished round, so that scoreFor(i, currentRoundNumber - 1) of the    *)
(* next scoring always exists.                                               *)
OneScoreLinePerRound ==
    Len(scores) = IF RoundState = "Finished" THEN currentRoundNumber ELSE currentRoundNumber - 1

(* All bids of a round can only come true together when they add up to the   *)
(* number of tricks there were to take.                                      *)
AllSucceedOnlyOnExactBids ==
    \A r \in 1 .. Len(scores) :
        (\A p \in Players : scores[r][p].succeed) =>
            SumFunction([p \in Players |-> scores[r][p].target]) = NumberOfCardsForRound(r)

(* The game waits for somebody who can answer: the player whose turn it is   *)
(* has not bid yet while bids are open, and holds a card the rules let him   *)
(* play while cards are.                                                     *)
CurrentPlayerCanMove ==
    /\ RoundState = "SetTarget" => target[currentPlayer] = None
    /\ RoundState = "Play" => \E c \in hands[currentPlayer] :
           IsNewHandStarting \/ CanPlay(hands[currentPlayer], c, currentHand[1])

(* Within a round a bid is final and a taken trick stays taken; the score    *)
(* sheet only grows, and points never go down from a line to the next.       *)
SheetOnlyGrows ==
    [][/\ Len(scores') >= Len(scores) /\ \A r \in 1 .. Len(scores) : scores'[r] = scores[r]
       /\ \A r \in 2 .. Len(scores'), p \in Players :
              scores'[r][p].points >= scores'[r - 1][p].points
       /\ \/ currentRoundNumber' = currentRoundNumber + 1 /\ Len(scores) = currentRoundNumber
          \/ \A p \in Players : /\ target[p] \in {None, target'[p]}
                                /\ obtained'[p] >= obtained[p]]_vars
-----------------------------------------------------------------------------
(* The parts of the inductive invariant: where the round stands.             *)

(* While bids are open no card is on the table and everybody holds cards.    *)
BidsBeforeCards ==
    RoundState = "SetTarget" => currentHand = <<>> /\ \A p \in Players : hands[p] # {}

(* Bids come in turn from the player who starts the round: the k first seats *)
(* have bid and the k-th next one is asked.                                  *)
BidsInTurn ==
    RoundState = "SetTarget" =>
        \E k \in 0 .. N - 1 :
            /\ currentPlayer = Advance(handStartingPlayer, k)
            /\ \A j \in 0 .. N - 1 : target[Advance(handStartingPlayer, j)] = None <=> j >= k

(* Cards come in turn from the player who leads the trick.                   *)
CardsInTurn ==
    RoundState = "Play" /\ Len(currentHand) < N =>
        currentPlayer = Advance(handStartingPlayer, Len(currentHand))

(* Everybody has played the same number of cards, the open trick aside.      *)
EvenHands ==
    \A p, q \in Players :
        Cardinality(hands[p]) + (IF InTrick(p) THEN 1 ELSE 0)
            = Cardinality(hands[q]) + (IF InTrick(q) THEN 1 ELSE 0)

(* The invariant the proofs of EnferProofs carry from step to step.          *)
IInv ==
    /\ TypeOK
    /\ OneScoreLinePerRound
    /\ NoCardTwice
    /\ SuitIsFollowed
    /\ BidsBeforeCards
    /\ BidsInTurn
    /\ CardsInTurn
    /\ EvenHands
-----------------------------------------------------------------------------
(* The table as the players see it: see EnferTable.                          *)
ActedPlayers ==
    IF RoundState = "SetTarget" THEN {p \in Players : target[p] # None}
    ELSE {p \in Players : InTrick(p)}

Table == INSTANCE EnferTable WITH
    phase      <- State,
    round      <- currentRoundNumber,
    turn       <- currentPlayer,
    acted      <- ActedPlayers,
    tricksLeft <- Cardinality(hands[handStartingPlayer])
                    + (IF InTrick(handStartingPlayer) THEN 1 ELSE 0),
    Tricks     <- NumberOfCardsForRound

(* The engine implements the table: every request it accepts is one step of  *)
(* the order of bids, plays, tricks and rounds promised there.               *)
ImplementsTable == Table!Spec

(* With players who keep making legal requests, and a creator who asks for   *)
(* the next round, the game ends with a full score sheet.                    *)
GameEnds == <>[](State = "Finished" /\ Len(scores) = MaxRound)

FairSpec == Spec /\ WF_vars(Next)
=============================================================================
