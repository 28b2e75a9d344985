------------------------------ MODULE EnferGame ------------------------------
(***************************************************************************)
(* The rules engine of the trick-taking game "Enfer"                       *)
(* (src/src/cards/Enfer.cpp): class Round (one deal: bids, then tricks)    *)
(* inside class Game (rounds and scores).                                  *)
(*                                                                         *)
(* A request the code refuses throws before anything is assigned, so it is *)
(* the absence of a step here.  The shuffle of the deck is a               *)
(* nondeterministic choice of the deal; a hand is a set because the code   *)
(* keeps it sorted and never reads its order.                              *)
(***************************************************************************)
EXTENDS Integers, Sequences, FiniteSets, Functions

CONSTANTS
    N,          \* numberOfPlayers_
    Kinds,      \* Standard::Kind
    Values,     \* Standard::Value, as the integers compareAceTop subtracts
    MaxRound,   \* maxRound_
    None        \* std::nullopt

VARIABLES
    currentRoundNumber, scores,                            \* Game
    hands, target, obtained, strong,                       \* Round
    currentHand, handStartingPlayer, currentPlayer

gameVars  == <<currentRoundNumber, scores>>
roundVars == <<hands, target, obtained, strong, currentHand,
               handStartingPlayer, currentPlayer>>
vars      == <<currentRoundNumber, scores, hands, target, obtained, strong,
               currentHand, handStartingPlayer, currentPlayer>>

Players      == 0 .. N - 1
Deck         == [kind : Kinds, value : Values]
FullDeckSize == Cardinality(Deck)

NumberOfRounds(n) == ((FullDeckSize - 1) \div n) + 1

(* A seat for every player, at least one card each in the first round. *)
ASSUME PlayersAssumption == N \in Nat \ {0} /\ N <= FullDeckSize
ASSUME DeckAssumption    == IsFiniteSet(Kinds) /\ IsFiniteSet(Values) /\ Values \subseteq Int
(* Otherwise numberOfCardsForRound throws and the game is never built. *)
ASSUME RoundsAssumption  == MaxRound \in Nat \ {0} /\ (MaxRound - 1) * N < FullDeckSize
ASSUME NoneAssumption    == None \notin Deck /\ None \notin Nat
-----------------------------------------------------------------------------
(* Mutant of Advance: the seat after the last one is not the first. *)
Advance_NoWrap(p, k) == p + k

(* PlayerIter::operator+= *)
Advance(p, k) == (p + k) % N

NumberOfCardsForRound(r) == IF r * N <= FullDeckSize THEN r ELSE FullDeckSize \div N

PlayerStartingForRound(r) == Advance(0, r - 1)

(* Mutants of CanPlay: a player who cannot follow has no way out; one card of *)
(* another kind is enough not to have to follow.                              *)
CanPlay_MustFollow(hand, choice, firstCard) ==
    choice \in hand /\ choice.kind = firstCard.kind

CanPlay_AnyOtherKind(hand, choice, firstCard) ==
    /\ choice \in hand
    /\ \/ choice.kind = firstCard.kind
       \/ \E c \in hand : c.kind # firstCard.kind

CanPlay(hand, choice, firstCard) ==
    /\ choice \in hand
    /\ \/ choice.kind = firstCard.kind
       \/ \A c \in hand : c.kind # firstCard.kind

Stronger(newcard, toBeat, trump) ==
    IF newcard.kind # toBeat.kind
    THEN trump # None /\ trump.kind = newcard.kind
    ELSE newcard.value > toBeat.value

(* Mutant of BestIndex: every card is compared to the first one. *)
BestIndex_AgainstFirst(trick, trump) ==
    LET best[i \in 1 .. N] ==
            IF i = 1 THEN 1
            ELSE IF Stronger(trick[i], trick[1], trump) THEN i ELSE best[i - 1]
    IN  best[N]

(* The scan at the end of a trick: the index of the best of the first i cards. *)
BestIndex(trick, trump) ==
    LET best[i \in 1 .. N] ==
            IF i = 1 THEN 1
            ELSE IF Stronger(trick[i], trick[best[i - 1]], trump) THEN i ELSE best[i - 1]
    IN  best[N]

RoundState ==
    IF \E p \in Players : target[p] = None THEN "SetTarget"
    ELSE IF \E p \in Players : hands[p] # {} THEN "Play"
    ELSE "Finished"

State ==
    IF RoundState # "Finished" THEN RoundState
    ELSE IF currentRoundNumber >= MaxRound THEN "Finished" ELSE "GotoNext"

IsNewHandStarting == Len(currentHand) = N \/ currentHand = <<>>
-----------------------------------------------------------------------------
(* What a shuffled deck can give for round r: NumberOfCardsForRound(r) cards *)
(* each, and a strong card from what is left, except in the last round.      *)
Deals(r) ==
    LET handSize == NumberOfCardsForRound(r)
        rest(h)  == Deck \ UNION {h[p] : p \in Players}
    IN  {d \in [hands : [Players -> {s \in SUBSET Deck : Cardinality(s) = handSize}],
                strong : Deck \cup {None}] :
            /\ \A p, q \in Players : p # q => d.hands[p] \cap d.hands[q] = {}
            /\ IF r # MaxRound /\ rest(d.hands) # {}
               THEN d.strong \in rest(d.hands)
               ELSE d.strong = None}

Init ==
    /\ currentRoundNumber = 1
    /\ scores = <<>>
    /\ \E d \in Deals(1) : hands = d.hands /\ strong = d.strong
    /\ target   = [p \in Players |-> None]
    /\ obtained = [p \in Players |-> 0]
    /\ currentHand = <<>>
    /\ handStartingPlayer = PlayerStartingForRound(1)
    /\ currentPlayer = PlayerStartingForRound(1)

SetTarget(player, choice) ==
    /\ RoundState = "SetTarget"
    /\ player = currentPlayer
    /\ choice <= Cardinality(hands[player])
    /\ target' = [target EXCEPT ![player] = choice]
    /\ currentPlayer' = Advance(currentPlayer, 1)
    /\ UNCHANGED <<gameVars, hands, obtained, strong, currentHand, handStartingPlayer>>

(* The line of the score sheet for a finished round; won are the tricks of *)
(* each player.  Mutants: a bid that is exceeded succeeds too; the points  *)
(* of the rounds before are forgotten.                                     *)
Points(p, succeed) ==
    (IF currentRoundNumber > 1 THEN scores[currentRoundNumber - 1][p].points ELSE 0)
        + (IF succeed THEN 10 + target[p] ELSE 0)

RoundScore_AtLeast(won) ==
    [p \in Players |->
        LET succeed == won[p] >= target[p]
        IN  [target |-> target[p], succeed |-> succeed, points |-> Points(p, succeed)]]

RoundScore_NotSummed(won) ==
    [p \in Players |->
        LET succeed == won[p] = target[p]
        IN  [target |-> target[p], succeed |-> succeed,
             points |-> IF succeed THEN 10 + target[p] ELSE 0]]

RoundScore(won) ==
    [p \in Players |->
        LET succeed == won[p] = target[p]
        IN  [target |-> target[p], succeed |-> succeed, points |-> Points(p, succeed)]]

(* Mutant of OpenLeader: the leader of the trick before is kept. *)
OpenLeader_Kept(player) == handStartingPlayer

(* The trick a card goes to, a finished one being on the table until then, *)
(* and the player who leads it.                                            *)
OpenTrick == IF Len(currentHand) = N THEN <<>> ELSE currentHand
OpenLeader(player) == IF Len(currentHand) = N THEN player ELSE handStartingPlayer

(* Mutant of HandsWithout: the card stays in the hand. *)
HandsWithout_Copied(player, card) == [hands EXCEPT ![player] = @ \cup {card}]

HandsWithout(player, card) == [hands EXCEPT ![player] = @ \ {card}]

TricksTaken(trick, winner) ==
    IF Len(trick) = N THEN [obtained EXCEPT ![winner] = @ + 1] ELSE obtained

(* Mutant of ScoresAfter: the round is scored when one hand is empty. *)
ScoresAfter_OneHand(left, won) ==
    IF left[currentPlayer] = {} THEN Append(scores, RoundScore(won)) ELSE scores

ScoresAfter(left, won) ==
    IF \A p \in Players : left[p] = {} THEN Append(scores, RoundScore(won)) ELSE scores

Play(player, card) ==
    /\ RoundState = "Play"
    /\ player = currentPlayer
    /\ card \in hands[player]
    /\ ~IsNewHandStarting => CanPlay(hands[player], card, currentHand[1])
    /\ LET trick  == Append(OpenTrick, card)
           leader == OpenLeader(player)
           winner == Advance(leader, BestIndex(trick, strong) - 1)
       IN  /\ currentHand' = trick
           /\ handStartingPlayer' = leader
           /\ hands' = HandsWithout(player, card)
           /\ obtained' = TricksTaken(trick, winner)
           /\ currentPlayer' = IF Len(trick) = N THEN winner ELSE Advance(currentPlayer, 1)
           /\ scores' = ScoresAfter(hands', obtained')
    /\ UNCHANGED <<currentRoundNumber, target, strong>>

GotoNextRound ==
    /\ State = "GotoNext"
    /\ currentRoundNumber' = currentRoundNumber + 1
    /\ \E d \in Deals(currentRoundNumber + 1) : hands' = d.hands /\ strong' = d.strong
    /\ target'   = [p \in Players |-> None]
    /\ obtained' = [p \in Players |-> 0]
    /\ currentHand' = <<>>
    /\ handStartingPlayer' = PlayerStartingForRound(currentRoundNumber + 1)
    /\ currentPlayer' = PlayerStartingForRound(currentRoundNumber + 1)
    /\ UNCHANGED scores

Next ==
    \/ \E p \in Players, t \in 0 .. FullDeckSize : SetTarget(p, t)
    \/ \E p \in Players, c \in Deck : Play(p, c)
    \/ GotoNextRound

Spec == Init /\ [][Next]_vars
=============================================================================
