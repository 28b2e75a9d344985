----------------------------- MODULE EnferProofs -----------------------------
(***************************************************************************)
(* Proofs about EnferGame for every number of players, deck and number of  *)
(* rounds: see README.md for the argument.                                 *)
(***************************************************************************)
EXTENDS EnferProperties, Lemmas

(* PlayerIter stays on a seat, whatever the advance.                         *)
LEMMA AdvanceIsASeat ==
    ASSUME NEW p \in Int, NEW k \in Int
    PROVE  Advance(p, k) \in Players
  BY PlayersAssumption DEF Advance, Players

(* One turn around the table at most: the modulo is a conditional subtraction. *)
LEMMA AdvanceValue ==
    ASSUME NEW s \in Players, NEW k \in 0 .. N
    PROVE  Advance(s, k) = IF s + k >= N THEN s + k - N ELSE s + k
  BY PlayersAssumption DEF Advance, Players

(* From any seat s every seat is reached, in fewer than N steps, once.       *)
LEMMA SeatReached ==
    ASSUME NEW s \in Players, NEW p \in Players
    PROVE  \E j \in 0 .. N - 1 : p = Advance(s, j)
<1> DEFINE j == IF p >= s THEN p - s ELSE p - s + N
<1>1. j \in 0 .. N - 1
  BY PlayersAssumption DEF Players
<1>2. p = Advance(s, j)
  BY <1>1, AdvanceValue, PlayersAssumption DEF Players
<1> QED
  BY <1>1, <1>2

(* Fewer than N steps from a seat lead to different seats.                   *)
LEMMA SeatsDiffer ==
    ASSUME NEW s \in Players, NEW j \in 0 .. N - 1, NEW k \in 0 .. N - 1,
           Advance(s, j) = Advance(s, k)
    PROVE  j = k
  BY AdvanceValue, PlayersAssumption DEF Players

(* Moving one seat on from the k-th seat is the seat k + 1; N seats on is    *)
(* where one started.                                                        *)
LEMMA NextSeat ==
    ASSUME NEW s \in Players, NEW k \in 0 .. N - 1
    PROVE  /\ Advance(Advance(s, k), 1) = Advance(s, k + 1)
           /\ Advance(s, 0) = s
           /\ Advance(s, N) = s
<1>1. Advance(s, k) \in Players
  BY AdvanceIsASeat DEF Players
<1>2. 1 \in 0 .. N /\ N \in 0 .. N /\ 0 \in 0 .. N /\ k \in 0 .. N /\ k + 1 \in 0 .. N
  BY PlayersAssumption
<1>3. Advance(Advance(s, k), 1) = IF Advance(s, k) + 1 >= N THEN Advance(s, k) + 1 - N
                                  ELSE Advance(s, k) + 1
  BY <1>1, <1>2, AdvanceValue
<1> QED
  BY <1>2, <1>3, AdvanceValue, PlayersAssumption DEF Players
-----------------------------------------------------------------------------
(* A deck is finite, so every hand has a size.                               *)
LEMMA DeckIsFinite == IsFiniteSet(Deck) /\ FullDeckSize \in Nat
<1> DEFINE card == [pair \in Kinds \X Values |-> [kind |-> pair[1], value |-> pair[2]]]
<1>1. IsFiniteSet(Kinds \X Values)
  BY DeckAssumption, FS_Product
<1>2. card \in Surjection(Kinds \X Values, Deck)
  <2>1. card \in [Kinds \X Values -> Deck]
    BY DEF Deck
  <2>2. ASSUME NEW c \in Deck
        PROVE  \E pair \in Kinds \X Values : card[pair] = c
    <3>1. <<c.kind, c.value>> \in Kinds \X Values
      BY DEF Deck
    <3>2. card[<<c.kind, c.value>>] = c
      BY <3>1 DEF Deck
    <3> QED
      BY <3>1, <3>2
  <2> QED
    BY <2>1, <2>2 DEF Surjection
<1>3. IsFiniteSet(Deck)
  BY <1>1, <1>2, FS_Surjection
<1> QED
  BY <1>3, FS_CardinalityType DEF FullDeckSize

(* A hand is part of the deck: it has a size, which is 0 when it is empty.   *)
LEMMA HandIsFinite ==
    ASSUME NEW hand \in SUBSET Deck
    PROVE  /\ IsFiniteSet(hand)
           /\ Cardinality(hand) \in Nat
           /\ hand = {} <=> Cardinality(hand) = 0
           /\ \A c \in hand : Cardinality(hand \ {c}) = Cardinality(hand) - 1
<1>1. IsFiniteSet(hand)
  BY DeckIsFinite, FS_Subset
<1> QED
  BY <1>1, FS_CardinalityType, FS_EmptySet, FS_RemoveElement

(* A round always has a card to play for everybody.                          *)
LEMMA RoundHasCards ==
    ASSUME NEW r \in 1 .. MaxRound
    PROVE  NumberOfCardsForRound(r) \in Nat \ {0}
<1>1. FullDeckSize \in Nat /\ FullDeckSize >= N /\ N \in Nat \ {0}
  BY DeckIsFinite, PlayersAssumption
<1>2. FullDeckSize \div N \in Nat \ {0}
  BY <1>1
<1> QED
  BY <1>2, RoundsAssumption DEF NumberOfCardsForRound

(* What a deal gives: non-empty, disjoint hands beside the strong card.      *)
LEMMA DealFacts ==
    ASSUME NEW r \in 1 .. MaxRound, NEW d \in Deals(r)
    PROVE  /\ d.hands \in [Players -> SUBSET Deck]
           /\ d.strong \in Deck \cup {None}
           /\ \A p, q \in Players : p # q => d.hands[p] \cap d.hands[q] = {}
           /\ \A p \in Players : /\ d.strong \notin d.hands[p]
                                 /\ d.hands[p] # {}
                                 /\ Cardinality(d.hands[p]) = NumberOfCardsForRound(r)
<1>1. /\ d.hands \in [Players -> SUBSET Deck]
      /\ d.strong \in Deck \cup {None}
      /\ \A p \in Players : Cardinality(d.hands[p]) = NumberOfCardsForRound(r)
      /\ \A p, q \in Players : p # q => d.hands[p] \cap d.hands[q] = {}
      /\ d.strong = None \/ d.strong \in Deck \ UNION {d.hands[p] : p \in Players}
  BY DEF Deals
<1>2. ASSUME NEW p \in Players
      PROVE  d.hands[p] # {}
  BY <1>1, RoundHasCards, HandIsFinite
<1>3. ASSUME NEW p \in Players
      PROVE  d.strong \notin d.hands[p]
  BY <1>1, NoneAssumption
<1> QED
  BY <1>1, <1>2, <1>3
-----------------------------------------------------------------------------
(* The step of the scan over a finished trick that handles its i-th card.    *)
ScanStep(trick, trump, f, i) ==
    IF i = 1 THEN 1
    ELSE IF Stronger(trick[i], trick[f[i - 1]], trump) THEN i ELSE f[i - 1]

Scans(trick, trump, f, k) == f = [i \in 1 .. k |-> ScanStep(trick, trump, f, i)]

(* The loop that looks for the winner of a trick runs to its end.            *)
LEMMA ScanExists ==
    ASSUME NEW trick, NEW trump, NEW n \in Nat \ {0}
    PROVE  \E f : Scans(trick, trump, f, n)
<1> DEFINE Unreached == {k \in Nat \ {0} : ~ \E f : Scans(trick, trump, f, k)}
<1> SUFFICES Unreached = {}
  OBVIOUS
<1> SUFFICES ASSUME Unreached # {}
             PROVE  FALSE
  OBVIOUS
<1>1. PICK k \in Unreached : \A m \in Unreached : k <= m
  BY LeastNatural
<1>2. CASE k = 1
  <2> DEFINE g == [i \in 1 .. 1 |-> 1]
  <2>1. Scans(trick, trump, g, 1)
    BY DEF Scans, ScanStep
  <2> QED
    BY <1>2, <2>1
<1>3. CASE k # 1
  <2>1. k - 1 \in Nat \ {0} /\ k - 1 \notin Unreached
    BY <1>1, <1>3
  <2>2. PICK g : Scans(trick, trump, g, k - 1)
    BY <2>1
  <2> DEFINE h == [i \in 1 .. k |-> IF i = k THEN ScanStep(trick, trump, g, k) ELSE g[i]]
  <2>3. \A i \in 1 .. k : ScanStep(trick, trump, h, i) = ScanStep(trick, trump, g, i)
    BY <1>3 DEF ScanStep
  <2>4. \A i \in 1 .. k - 1 : g[i] = ScanStep(trick, trump, g, i)
    BY <2>1, <2>2 DEF Scans
  <2>5. \A i \in 1 .. k : h[i] = ScanStep(trick, trump, h, i)
    BY <2>3, <2>4
  <2>6. Scans(trick, trump, h, k)
    BY <2>5 DEF Scans
  <2> QED
    BY <2>6
<1> QED
  BY <1>2, <1>3

(* The winner the loop finds is one of the players of the trick.             *)
LEMMA BestIndexType ==
    ASSUME NEW trick, NEW trump
    PROVE  BestIndex(trick, trump) \in 1 .. N
<1> DEFINE best == CHOOSE f : Scans(trick, trump, f, N)
<1>1. Scans(trick, trump, best, N)
  BY ScanExists, PlayersAssumption
<1>2. BestIndex(trick, trump) = best[N]
  BY DEF BestIndex, Scans, ScanStep
<1>3. \A i \in 1 .. N : best[i] = ScanStep(trick, trump, best, i)
  BY <1>1 DEF Scans
<1> DEFINE Outside == {i \in 1 .. N : best[i] \notin 1 .. N}
<1>4. Outside = {}
  <2> SUFFICES ASSUME Outside # {}
               PROVE  FALSE
    OBVIOUS
  <2>1. Outside \in SUBSET Nat
    OBVIOUS
  <2>2. PICK i \in Outside : \A j \in Outside : i <= j
    BY <2>1, LeastNatural
  <2>3. i = 1 \/ best[i - 1] \in 1 .. N
    BY <2>2, PlayersAssumption
  <2> QED
    BY <1>3, <2>2, <2>3, PlayersAssumption DEF ScanStep
<1> QED
  BY <1>2, <1>4, PlayersAssumption
-----------------------------------------------------------------------------
(* A round that has just been dealt satisfies the invariant.                 *)
LEMMA InitIInv == Init => IInv
<1> SUFFICES ASSUME Init
             PROVE  IInv
  OBVIOUS
<1>0. 1 \in 1 .. MaxRound
  BY RoundsAssumption
<1>1. PICK d \in Deals(1) : hands = d.hands /\ strong = d.strong
  BY DEF Init
<1>2. handStartingPlayer = 0 /\ currentPlayer = 0 /\ 0 \in Players
  BY PlayersAssumption DEF Init, PlayerStartingForRound, Advance, Players
<1>3. RoundState = "SetTarget"
  BY <1>2 DEF Init, RoundState
<1>4. TypeOK
  <2>1. hands \in [Players -> SUBSET Deck] /\ strong \in Deck \cup {None}
    BY <1>0, <1>1, DealFacts
  <2> QED
    BY <1>0, <1>2, <2>1, PlayersAssumption DEF TypeOK, Init
<1>5. OneScoreLinePerRound
  BY <1>3 DEF OneScoreLinePerRound, Init
<1>6. NoCardTwice /\ SuitIsFollowed
  BY <1>0, <1>1, DealFacts DEF NoCardTwice, SuitIsFollowed, Init
<1>7. BidsBeforeCards /\ CardsInTurn
  BY <1>0, <1>1, <1>3, DealFacts DEF BidsBeforeCards, CardsInTurn, Init
<1>8. BidsInTurn
  <2>1. currentPlayer = Advance(handStartingPlayer, 0)
    BY <1>2, NextSeat, PlayersAssumption
  <2>2. \A j \in 0 .. N - 1 : Advance(handStartingPlayer, j) \in Players
    BY <1>2, AdvanceIsASeat DEF Players
  <2>3. \A j \in 0 .. N - 1 : target[Advance(handStartingPlayer, j)] = None
    BY <2>2 DEF Init
  <2> QED
    BY <2>1, <2>3, PlayersAssumption DEF BidsInTurn
<1>9. EvenHands
  BY <1>0, <1>1, DealFacts DEF EvenHands, InTrick, Init
<1> QED
  BY <1>4, <1>5, <1>6, <1>7, <1>8, <1>9 DEF IInv

(* The next round is dealt like the first one.                               *)
LEMMA GotoNextRoundIInv ==
    ASSUME IInv, GotoNextRound
    PROVE  IInv'
<1> DEFINE r == currentRoundNumber + 1
<1>0. r \in 1 .. MaxRound /\ RoundState = "Finished"
  <2>1. RoundState = "Finished" /\ ~ (currentRoundNumber >= MaxRound)
    BY DEF GotoNextRound, State, RoundState
  <2> QED
    BY <2>1, RoundsAssumption DEF IInv, TypeOK
<1>1. PICK d \in Deals(r) : hands' = d.hands /\ strong' = d.strong
  BY DEF GotoNextRound
<1>2. handStartingPlayer' \in Players /\ currentPlayer' = handStartingPlayer'
  BY <1>0, AdvanceIsASeat DEF GotoNextRound, PlayerStartingForRound
<1>3. RoundState' = "SetTarget"
  BY <1>2 DEF GotoNextRound, RoundState
<1>4. TypeOK'
  <2>1. hands' \in [Players -> SUBSET Deck] /\ strong' \in Deck \cup {None}
    BY <1>0, <1>1, DealFacts
  <2> QED
    BY <1>0, <1>2, <2>1, PlayersAssumption DEF IInv, TypeOK, GotoNextRound
<1>5. OneScoreLinePerRound'
  BY <1>0, <1>3 DEF IInv, TypeOK, OneScoreLinePerRound, GotoNextRound
<1>6. NoCardTwice' /\ SuitIsFollowed'
  BY <1>0, <1>1, DealFacts DEF NoCardTwice, SuitIsFollowed, GotoNextRound
<1>7. BidsBeforeCards' /\ CardsInTurn'
  BY <1>0, <1>1, <1>3, DealFacts DEF BidsBeforeCards, CardsInTurn, GotoNextRound
<1>8. BidsInTurn'
  <2>1. currentPlayer' = Advance(handStartingPlayer', 0)
    BY <1>2, NextSeat, PlayersAssumption
  <2>2. \A j \in 0 .. N - 1 : Advance(handStartingPlayer', j) \in Players
    BY <1>2, AdvanceIsASeat DEF Players
  <2>3. \A j \in 0 .. N - 1 : target'[Advance(handStartingPlayer', j)] = None
    BY <2>2 DEF GotoNextRound
  <2> QED
    BY <2>1, <2>3, PlayersAssumption DEF BidsInTurn
<1>9. EvenHands'
  BY <1>0, <1>1, DealFacts DEF EvenHands, InTrick, GotoNextRound
<1> QED
  BY <1>4, <1>5, <1>6, <1>7, <1>8, <1>9 DEF IInv

(* A bid: the bidder was the first without one, the next seat is asked, and  *)
(* after the last bid the player who starts the round leads the first trick. *)
LEMMA SetTargetIInv ==
    ASSUME IInv, NEW player \in Players, NEW choice \in 0 .. FullDeckSize,
           SetTarget(player, choice)
    PROVE  IInv'
<1>1. /\ RoundState = "SetTarget" /\ player = currentPlayer
      /\ target' = [target EXCEPT ![player] = choice]
      /\ currentPlayer' = Advance(currentPlayer, 1)
      /\ UNCHANGED <<currentRoundNumber, scores, hands, obtained, strong,
                     currentHand, handStartingPlayer>>
  BY DEF SetTarget, gameVars
<1>2. choice \in Nat /\ choice # None
  BY DeckIsFinite, NoneAssumption
<1>3. TypeOK'
  <2>1. currentPlayer' \in Players
    BY <1>1, AdvanceIsASeat DEF IInv, TypeOK, Players
  <2> QED
    BY <1>1, <1>2, <2>1 DEF IInv, TypeOK
<1>4. RoundState' # "Finished"
  BY <1>1, PlayersAssumption DEF IInv, BidsBeforeCards, RoundState, Players
<1>5. OneScoreLinePerRound'
  BY <1>1, <1>4 DEF IInv, OneScoreLinePerRound
<1>6. NoCardTwice' /\ SuitIsFollowed' /\ BidsBeforeCards' /\ EvenHands'
  <2>1. currentHand = <<>> /\ \A p \in Players : hands[p] # {}
    BY <1>1 DEF IInv, BidsBeforeCards
  <2>2. NoCardTwice' /\ SuitIsFollowed'
    BY <1>1 DEF IInv, NoCardTwice, SuitIsFollowed, PlayedBy
  <2>3. EvenHands'
    BY <1>1 DEF IInv, EvenHands, InTrick, PlayedBy
  <2> QED
    BY <1>1, <2>1, <2>2, <2>3 DEF BidsBeforeCards
<1>7. PICK k \in 0 .. N - 1 :
          /\ currentPlayer = Advance(handStartingPlayer, k)
          /\ \A j \in 0 .. N - 1 : target[Advance(handStartingPlayer, j)] = None <=> j >= k
  BY <1>1 DEF IInv, BidsInTurn
<1>8. handStartingPlayer \in Players
  BY DEF IInv, TypeOK
<1>9. currentPlayer' = Advance(handStartingPlayer, k + 1)
  BY <1>1, <1>7, <1>8, NextSeat
<1>10. \A j \in 0 .. N - 1 : target'[Advance(handStartingPlayer, j)] = None <=> j >= k + 1
  <2> SUFFICES ASSUME NEW j \in 0 .. N - 1
               PROVE  target'[Advance(handStartingPlayer, j)] = None <=> j >= k + 1
    OBVIOUS
  <2>1. Advance(handStartingPlayer, j) \in Players
    BY <1>8, AdvanceIsASeat DEF Players
  <2>2. Advance(handStartingPlayer, j) = player <=> j = k
    BY <1>1, <1>7, <1>8, SeatsDiffer
  <2> QED
    BY <1>1, <1>2, <1>7, <2>1, <2>2, PlayersAssumption DEF IInv, TypeOK
<1>11. BidsInTurn'
  <2> SUFFICES ASSUME RoundState' = "SetTarget"
               PROVE  k + 1 \in 0 .. N - 1
    BY <1>1, <1>9, <1>10 DEF BidsInTurn
  <2>1. PICK p \in Players : target'[p] = None
    BY DEF RoundState
  <2>2. PICK j \in 0 .. N - 1 : p = Advance(handStartingPlayer, j)
    BY <1>8, SeatReached
  <2> QED
    BY <1>10, <2>1, <2>2, PlayersAssumption
<1>12. CardsInTurn'
  <2> SUFFICES ASSUME RoundState' = "Play"
               PROVE  currentPlayer' = Advance(handStartingPlayer, 0)
    BY <1>1 DEF IInv, BidsBeforeCards, CardsInTurn
  <2>1. k = N - 1
    <3> SUFFICES ASSUME k # N - 1
                 PROVE  FALSE
      OBVIOUS
    <3>1. k + 1 \in 0 .. N - 1
      BY PlayersAssumption
    <3>2. target'[Advance(handStartingPlayer, k + 1)] = None
      BY <1>10, <3>1
    <3>3. Advance(handStartingPlayer, k + 1) \in Players
      BY <1>8, <3>1, AdvanceIsASeat DEF Players
    <3> QED
      BY <3>2, <3>3 DEF RoundState
  <2>2. currentPlayer' = Advance(handStartingPlayer, N)
    BY <1>9, <2>1, PlayersAssumption
  <2> QED
    BY <1>8, <2>2, NextSeat, PlayersAssumption
<1> QED
  BY <1>3, <1>5, <1>6, <1>11, <1>12 DEF IInv
-----------------------------------------------------------------------------
(* The trick a card goes to: its leader, its cards, and who is in it.        *)
LEMMA OpenTrickFacts ==
    ASSUME IInv, NEW player \in Players, NEW card \in Deck, Play(player, card)
    PROVE  /\ OpenTrick \in Seq(Deck) /\ Len(OpenTrick) \in 0 .. N - 1
           /\ OpenLeader(player) \in Players
           /\ player = Advance(OpenLeader(player), Len(OpenTrick))
           /\ \A j \in 0 .. N - 1 : InTrick(Advance(OpenLeader(player), j)) <=> j < Len(OpenTrick)
           /\ OpenTrick # <<>> => /\ OpenTrick = currentHand
                                  /\ OpenLeader(player) = handStartingPlayer
                                  /\ CanPlay(hands[player], card, currentHand[1])
<1>1. /\ RoundState = "Play" /\ player = currentPlayer
      /\ currentHand \in Seq(Deck) /\ Len(currentHand) \in 0 .. N
      /\ handStartingPlayer \in Players
  BY PlayersAssumption DEF Play, IInv, TypeOK
<1>2. CASE Len(currentHand) = N
  <2>1. OpenTrick = <<>> /\ OpenLeader(player) = player
    BY <1>2 DEF OpenTrick, OpenLeader
  <2>2. \A p \in Players : ~ InTrick(p)
    BY <1>2 DEF InTrick
  <2>3. \A j \in 0 .. N - 1 : Advance(player, j) \in Players
    BY AdvanceIsASeat DEF Players
  <2>4. player = Advance(player, 0)
    BY NextSeat, PlayersAssumption
  <2> QED
    BY <2>1, <2>2, <2>3, <2>4, PlayersAssumption
<1>3. CASE Len(currentHand) # N
  <2>1. /\ OpenTrick = currentHand /\ OpenLeader(player) = handStartingPlayer
        /\ Len(currentHand) \in 0 .. N - 1
    BY <1>1, <1>3, PlayersAssumption DEF OpenTrick, OpenLeader
  <2>2. player = Advance(handStartingPlayer, Len(currentHand))
    BY <1>1, <2>1, PlayersAssumption DEF IInv, CardsInTurn
  <2>3. ASSUME NEW j \in 0 .. N - 1
        PROVE  InTrick(Advance(handStartingPlayer, j)) <=> j < Len(currentHand)
    <3>1. ASSUME InTrick(Advance(handStartingPlayer, j))
          PROVE  j < Len(currentHand)
      <4>1. PICK i \in 1 .. Len(currentHand) :
                Advance(handStartingPlayer, i - 1) = Advance(handStartingPlayer, j)
        BY <3>1 DEF InTrick, PlayedBy
      <4>2. i - 1 \in 0 .. N - 1
        BY <2>1, PlayersAssumption
      <4>3. i - 1 = j
        BY <1>1, <4>1, <4>2, SeatsDiffer
      <4> QED
        BY <2>1, <4>3
    <3>2. ASSUME j < Len(currentHand)
          PROVE  InTrick(Advance(handStartingPlayer, j))
      <4>1. j + 1 \in 1 .. Len(currentHand) /\ (j + 1) - 1 = j
        BY <2>1, <3>2
      <4> QED
        BY <2>1, <4>1, PlayersAssumption DEF InTrick, PlayedBy
    <3> QED
      BY <3>1, <3>2
  <2>4. currentHand # <<>> => CanPlay(hands[player], card, currentHand[1])
    BY <1>3 DEF Play, IsNewHandStarting
  <2> QED
    BY <1>1, <2>1, <2>2, <2>3, <2>4
<1> QED
  BY <1>2, <1>3

(* What the assignments of play() leave behind.                              *)
LEMMA PlayEffect ==
    ASSUME IInv, NEW player \in Players, NEW card \in Deck, Play(player, card)
    PROVE  LET n      == Len(OpenTrick)
               leader == OpenLeader(player)
               winner == Advance(leader, BestIndex(currentHand', strong) - 1)
           IN  /\ currentHand' = Append(OpenTrick, card)
               /\ currentHand' \in Seq(Deck) /\ Len(currentHand') = n + 1
               /\ handStartingPlayer' = leader
               /\ card \in hands[player]
               /\ hands' = [hands EXCEPT ![player] = @ \ {card}]
               /\ winner \in Players
               /\ obtained' = IF n + 1 = N
                              THEN [obtained EXCEPT ![winner] = @ + 1] ELSE obtained
               /\ currentPlayer' = IF n + 1 = N THEN winner ELSE Advance(leader, n + 1)
               /\ scores' = IF RoundState' = "Finished"
                            THEN Append(scores, RoundScore(obtained')) ELSE scores
               /\ RoundState' \in {"Play", "Finished"}
               /\ \A p \in Players : target[p] \in Nat
               /\ UNCHANGED <<currentRoundNumber, target, strong>>
<1> DEFINE n      == Len(OpenTrick)
           leader == OpenLeader(player)
           winner == Advance(leader, BestIndex(currentHand', strong) - 1)
<1>1. /\ OpenTrick \in Seq(Deck) /\ n \in 0 .. N - 1
      /\ leader \in Players /\ player = Advance(leader, n)
  BY OpenTrickFacts
<1>2. /\ currentHand' = Append(OpenTrick, card)
      /\ handStartingPlayer' = leader
      /\ card \in hands[player]
      /\ hands' = [hands EXCEPT ![player] = @ \ {card}]
      /\ UNCHANGED <<currentRoundNumber, target, strong>>
      /\ RoundState = "Play" /\ player = currentPlayer
  BY DEF Play, HandsWithout
<1>3. currentHand' \in Seq(Deck) /\ Len(currentHand') = n + 1
  BY <1>1, <1>2
<1>4. winner \in Players
  <2>1. BestIndex(currentHand', strong) \in 1 .. N
    BY BestIndexType
  <2>2. leader \in Int /\ BestIndex(currentHand', strong) - 1 \in Int
    BY <1>1, <2>1, PlayersAssumption DEF Players
  <2> QED
    BY <2>2, AdvanceIsASeat
<1>5. obtained' = IF n + 1 = N THEN [obtained EXCEPT ![winner] = @ + 1] ELSE obtained
  BY <1>2, <1>3 DEF Play, TricksTaken
<1>6. currentPlayer' = IF n + 1 = N THEN winner ELSE Advance(leader, n + 1)
  <2>1. Advance(player, 1) = Advance(leader, n + 1)
    BY <1>1, NextSeat
  <2> QED
    BY <1>2, <1>3, <2>1 DEF Play
<1>7. \A p \in Players : target[p] # None
  BY <1>2 DEF RoundState
<1>8. RoundState' = IF \A p \in Players : hands'[p] = {} THEN "Finished" ELSE "Play"
  BY <1>2, <1>7 DEF RoundState
<1>9. scores' = IF \A p \in Players : hands'[p] = {}
                THEN Append(scores, RoundScore(obtained')) ELSE scores
  BY DEF Play, ScoresAfter
<1>10. \A p \in Players : target[p] \in Nat
  BY <1>7 DEF IInv, TypeOK
<1> QED
  BY <1>2, <1>3, <1>4, <1>5, <1>6, <1>8, <1>9, <1>10

(* The cards a player has left to play, that in the open trick included.     *)
Held(p) == Cardinality(hands[p]) + (IF InTrick(p) THEN 1 ELSE 0)

(* What everybody holds, the open trick included, goes down by one card when a  *)
(* trick is finished, and not before.                                        *)
LEMMA PlayHeld ==
    ASSUME IInv, NEW player \in Players, NEW card \in Deck, Play(player, card),
           NEW p \in Players
    PROVE  Held(p)' = Held(p) - (IF Len(OpenTrick) + 1 = N THEN 1 ELSE 0)
<1> DEFINE n      == Len(OpenTrick)
           leader == OpenLeader(player)
<1>1. /\ n \in 0 .. N - 1 /\ leader \in Players /\ player = Advance(leader, n)
      /\ \A j \in 0 .. N - 1 : InTrick(Advance(leader, j)) <=> j < n
  BY OpenTrickFacts
<1>2. /\ Len(currentHand') = n + 1
      /\ handStartingPlayer' = leader
      /\ card \in hands[player]
      /\ hands' = [hands EXCEPT ![player] = @ \ {card}]
  BY PlayEffect
<1>3. TypeOK
  BY DEF IInv
<1>4. PICK j \in 0 .. N - 1 : p = Advance(leader, j)
  BY <1>1, SeatReached
<1>5. p = player <=> j = n
  BY <1>1, <1>4, SeatsDiffer
<1>6. InTrick(p) <=> j < n
  BY <1>1, <1>4
<1>7. InTrick(p)' <=> (n + 1 < N /\ j < n + 1)
  <2>1. InTrick(p)' <=> (n + 1 < N /\ \E i \in 1 .. n + 1 : Advance(leader, i - 1) = p)
    BY <1>1, <1>2 DEF InTrick, PlayedBy
  <2>2. ASSUME n + 1 < N, NEW i \in 1 .. n + 1, Advance(leader, i - 1) = p
        PROVE  j < n + 1
    <3>1. i - 1 \in 0 .. N - 1
      BY <1>1, <2>2, PlayersAssumption
    <3>2. i - 1 = j
      BY <1>1, <1>4, <2>2, <3>1, SeatsDiffer
    <3> QED
      BY <1>1, <3>2
  <2>3. ASSUME j < n + 1
        PROVE  \E i \in 1 .. n + 1 : Advance(leader, i - 1) = p
    <3>1. j + 1 \in 1 .. n + 1 /\ (j + 1) - 1 = j
      BY <1>1, <2>3
    <3> QED
      BY <1>4, <3>1
  <2> QED
    BY <2>1, <2>2, <2>3
<1>8. Cardinality(hands'[p]) = Cardinality(hands[p]) - (IF p = player THEN 1 ELSE 0)
  <2>1. hands[p] \in SUBSET Deck
    BY <1>3 DEF TypeOK
  <2>2. Cardinality(hands[p]) \in Nat
    BY <2>1, HandIsFinite
  <2>3. hands'[p] = IF p = player THEN hands[p] \ {card} ELSE hands[p]
    BY <1>2, <1>3 DEF TypeOK
  <2>4. p = player => Cardinality(hands[p] \ {card}) = Cardinality(hands[p]) - 1
    BY <1>2, <2>1, HandIsFinite
  <2> QED
    BY <2>2, <2>3, <2>4
<1>9. Cardinality(hands[p]) \in Nat
  BY <1>3, HandIsFinite DEF TypeOK
<1> QED
  <2>1. CASE n + 1 = N
    <3>1. ~InTrick(p)' /\ (InTrick(p) <=> p # player)
      BY <1>1, <1>5, <1>6, <1>7, <2>1, PlayersAssumption
    <3> QED
      BY <1>8, <1>9, <2>1, <3>1 DEF Held
  <2>2. CASE n + 1 # N
    <3>1. InTrick(p)' <=> (InTrick(p) \/ p = player)
      BY <1>1, <1>5, <1>6, <1>7, <2>2, PlayersAssumption
    <3>2. ~(InTrick(p) /\ p = player)
      BY <1>1, <1>5, <1>6
    <3> QED
      BY <1>8, <1>9, <2>2, <3>1, <3>2 DEF Held
  <2> QED
    BY <2>1, <2>2

(* A card played: see PlayEffect for the assignments.                        *)
LEMMA PlayIInv ==
    ASSUME IInv, NEW player \in Players, NEW card \in Deck, Play(player, card)
    PROVE  IInv'
<1> DEFINE n      == Len(OpenTrick)
           leader == OpenLeader(player)
<1>1. /\ OpenTrick \in Seq(Deck) /\ n \in 0 .. N - 1
      /\ leader \in Players /\ player = Advance(leader, n)
      /\ \A j \in 0 .. N - 1 : InTrick(Advance(leader, j)) <=> j < n
      /\ OpenTrick # <<>> => /\ OpenTrick = currentHand /\ leader = handStartingPlayer
                             /\ CanPlay(hands[player], card, currentHand[1])
  BY OpenTrickFacts
<1>2. PICK winner \in Players :
      /\ currentHand' = Append(OpenTrick, card)
      /\ currentHand' \in Seq(Deck) /\ Len(currentHand') = n + 1
      /\ handStartingPlayer' = leader
      /\ card \in hands[player]
      /\ hands' = [hands EXCEPT ![player] = @ \ {card}]
      /\ obtained' = IF n + 1 = N THEN [obtained EXCEPT ![winner] = @ + 1] ELSE obtained
      /\ currentPlayer' = IF n + 1 = N THEN winner ELSE Advance(leader, n + 1)
      /\ scores' = IF RoundState' = "Finished"
                   THEN Append(scores, RoundScore(obtained')) ELSE scores
      /\ RoundState' \in {"Play", "Finished"}
      /\ \A p \in Players : target[p] \in Nat
      /\ UNCHANGED <<currentRoundNumber, target, strong>>
  BY PlayEffect
<1>3. /\ TypeOK /\ RoundState = "Play"
      /\ Len(scores) = currentRoundNumber - 1
  BY DEF IInv, OneScoreLinePerRound, Play
<1>4. hands' \in [Players -> SUBSET Deck] /\ obtained' \in [Players -> Nat]
  <2>1. hands' \in [Players -> SUBSET Deck]
    BY <1>2, <1>3 DEF TypeOK
  <2>2. obtained \in [Players -> Nat] /\ [obtained EXCEPT ![winner] = @ + 1] \in [Players -> Nat]
    BY <1>3 DEF TypeOK
  <2> QED
    BY <1>2, <2>1, <2>2
<1>5. TypeOK'
  <2>1. currentPlayer' \in Players
    <3>1. leader \in Int /\ n + 1 \in Int
      BY <1>1 DEF Players
    <3>2. Advance(leader, n + 1) \in Players
      BY <3>1, AdvanceIsASeat
    <3> QED
      BY <1>2, <3>2
  <2>2. RoundScore(obtained') \in [Players -> ScoreCase]
    <3> SUFFICES ASSUME NEW p \in Players
                 PROVE  RoundScore(obtained')[p] \in ScoreCase
      BY DEF RoundScore
    <3> DEFINE previous == IF currentRoundNumber > 1
                           THEN scores[currentRoundNumber - 1][p].points ELSE 0
               succeed  == obtained'[p] = target[p]
    <3>1. previous \in Nat
      <4>1. CASE currentRoundNumber > 1
        <5>1. currentRoundNumber - 1 \in 1 .. Len(scores)
          BY <1>3, <4>1, RoundsAssumption DEF TypeOK
        <5>2. scores[currentRoundNumber - 1] \in [Players -> ScoreCase]
          BY <1>3, <5>1 DEF TypeOK
        <5>3. scores[currentRoundNumber - 1][p] \in ScoreCase
          BY <5>2
        <5> QED
          BY <4>1, <5>3 DEF ScoreCase
      <4> QED
        BY <4>1
    <3>2. RoundScore(obtained')[p] =
            [target |-> target[p], succeed |-> succeed,
             points |-> previous + (IF succeed THEN 10 + target[p] ELSE 0)]
      BY DEF RoundScore, Points
    <3>3. target[p] \in Nat /\ succeed \in BOOLEAN
      BY <1>2
    <3>4. previous + (IF succeed THEN 10 + target[p] ELSE 0) \in Nat
      BY <3>1, <3>3
    <3> HIDE DEF previous, succeed
    <3> QED
      BY <3>2, <3>3, <3>4 DEF ScoreCase
  <2>3. scores' \in Seq([Players -> ScoreCase])
    <3>1. scores \in Seq([Players -> ScoreCase])
      BY <1>3 DEF TypeOK
    <3>2. Append(scores, RoundScore(obtained')) \in Seq([Players -> ScoreCase])
      BY <2>2, <3>1
    <3> QED
      BY <1>2, <3>1, <3>2
  <2>4. Len(currentHand') <= N
    BY <1>1, <1>2, PlayersAssumption
  <2> QED
    BY <1>1, <1>2, <1>3, <1>4, <2>1, <2>3, <2>4 DEF TypeOK
<1>6. OneScoreLinePerRound'
  <2>1. scores \in Seq([Players -> ScoreCase]) /\ currentRoundNumber \in Nat
    BY <1>3, RoundsAssumption DEF TypeOK
  <2>2. \A line : Len(Append(scores, line)) = Len(scores) + 1
    BY <2>1
  <2>3. Len(scores') = IF RoundState' = "Finished" THEN Len(scores) + 1 ELSE Len(scores)
    BY <1>2, <2>2
  <2> QED
    BY <1>2, <1>3, <2>1, <2>3 DEF OneScoreLinePerRound
<1>7. NoCardTwice'
  <2>1. /\ \A p, q \in Players : p # q => hands[p] \cap hands[q] = {}
        /\ \A p \in Players : strong \notin hands[p]
    BY DEF IInv, NoCardTwice
  <2>2. \A i \in 1 .. n :
          /\ OpenTrick[i] # strong
          /\ \A p \in Players : OpenTrick[i] \notin hands[p]
          /\ \A j \in 1 .. n : i # j => OpenTrick[i] # OpenTrick[j]
    <3>1. CASE OpenTrick = <<>>
      BY <3>1
    <3>2. CASE OpenTrick # <<>>
      BY <1>1, <3>2 DEF IInv, NoCardTwice
    <3> QED
      BY <3>1, <3>2
  <2>3. \A i \in 1 .. n + 1 : currentHand'[i] = IF i = n + 1 THEN card ELSE OpenTrick[i]
    BY <1>1, <1>2
  <2>4. \A p \in Players : hands'[p] = IF p = player THEN hands[p] \ {card} ELSE hands[p]
    BY <1>2, <1>3 DEF TypeOK
  <2>5. ASSUME NEW p \in Players
        PROVE  card \notin hands'[p]
    <3>1. CASE p = player
      BY <2>4, <3>1
    <3>2. CASE p # player
      <4>1. hands[p] \cap hands[player] = {} /\ card \in hands[player]
        BY <1>2, <2>1, <3>2
      <4> QED
        BY <2>4, <3>2, <4>1
    <3> QED
      BY <3>1, <3>2
  <2>6. \A i \in 1 .. n + 1 : i = n + 1 \/ i \in 1 .. n
    BY <1>1
  <2>7. \A i \in 1 .. n + 1 :
          /\ currentHand'[i] # strong
          /\ \A p \in Players : currentHand'[i] \notin hands'[p]
          /\ \A j \in 1 .. n + 1 : i # j => currentHand'[i] # currentHand'[j]
    BY <1>1, <1>2, <2>1, <2>2, <2>3, <2>4, <2>5, <2>6
  <2> QED
    BY <1>2, <2>1, <2>4, <2>7 DEF NoCardTwice
<1>8. SuitIsFollowed'
  <2> SUFFICES ASSUME NEW i \in 2 .. n + 1, currentHand'[i].kind # currentHand'[1].kind,
                      NEW c \in hands'[Advance(leader, i - 1)]
               PROVE  c.kind # currentHand'[1].kind
    BY <1>1, <1>2 DEF SuitIsFollowed, PlayedBy
  <2>1. /\ OpenTrick # <<>> /\ OpenTrick = currentHand /\ leader = handStartingPlayer
        /\ CanPlay(hands[player], card, currentHand[1])
    BY <1>1
  <2>2. currentHand'[1] = currentHand[1] /\ Len(currentHand) = n
    BY <1>1, <1>2, <2>1
  <2>3. \A p \in Players : hands'[p] \subseteq hands[p]
    BY <1>2, <1>3 DEF TypeOK
  <2>4. Advance(leader, i - 1) \in Players
    <3>1. leader \in Int /\ i - 1 \in Int
      BY <1>1 DEF Players
    <3> QED
      BY <3>1, AdvanceIsASeat
  <2>5. CASE i = n + 1
    <3>1. currentHand'[i] = card /\ Advance(leader, i - 1) = player
      BY <1>1, <1>2, <2>5
    <3> QED
      BY <2>1, <2>2, <2>3, <2>4, <3>1 DEF CanPlay
  <2>6. CASE i # n + 1
    <3>1. i \in 2 .. n /\ currentHand'[i] = currentHand[i]
      BY <1>1, <1>2, <2>1, <2>6
    <3> QED
      BY <2>1, <2>2, <2>3, <2>4, <3>1 DEF IInv, SuitIsFollowed, PlayedBy
  <2> QED
    BY <2>5, <2>6
<1>9. BidsBeforeCards' /\ BidsInTurn'
  BY <1>2 DEF BidsBeforeCards, BidsInTurn
<1>10. CardsInTurn'
  BY <1>1, <1>2, PlayersAssumption DEF CardsInTurn
<1>11. EvenHands'
  <2>1. ASSUME NEW p \in Players, NEW q \in Players
        PROVE  Held(p)' = Held(q)'
    <3>1. Held(p) = Held(q)
      BY DEF IInv, EvenHands, Held
    <3>2. Held(p)' = Held(p) - (IF Len(OpenTrick) + 1 = N THEN 1 ELSE 0)
      BY PlayHeld
    <3>3. Held(q)' = Held(q) - (IF Len(OpenTrick) + 1 = N THEN 1 ELSE 0)
      BY PlayHeld
    <3> QED
      BY <3>1, <3>2, <3>3
  <2> QED
    BY <2>1 DEF EvenHands, Held
<1> QED
  BY <1>5, <1>6, <1>7, <1>8, <1>9, <1>10, <1>11 DEF IInv
-----------------------------------------------------------------------------
(* Every accepted request keeps the invariant.                               *)
LEMMA NextIInv ==
    ASSUME IInv, [Next]_vars
    PROVE  IInv'
<1>1. CASE \E p \in Players, t \in 0 .. FullDeckSize : SetTarget(p, t)
  BY <1>1, SetTargetIInv
<1>2. CASE \E p \in Players, c \in Deck : Play(p, c)
  BY <1>2, PlayIInv
<1>3. CASE GotoNextRound
  BY <1>3, GotoNextRoundIInv
<1>4. CASE UNCHANGED vars
  BY <1>4 DEF vars, IInv, TypeOK, OneScoreLinePerRound, NoCardTwice, SuitIsFollowed,
              BidsBeforeCards, BidsInTurn, CardsInTurn, EvenHands, InTrick, PlayedBy,
              RoundState
<1> QED
  BY <1>1, <1>2, <1>3, <1>4 DEF Next

(* The inductive invariant of a game of Enfer: it is what makes every other  *)
(* theorem of this module a one-state argument.                              *)
THEOREM Invariance == Spec => []IInv
<1>1. Init => IInv
  BY InitIInv
<1>2. IInv /\ [Next]_vars => IInv'
  BY NextIInv
<1> QED
  BY <1>1, <1>2, PTL DEF Spec

(* Game and Round keep the types of their C++ declarations, in particular    *)
(* the player iterators stay on a seat and the trick never overflows.        *)
THEOREM TypeCorrect == Spec => []TypeOK
<1>1. IInv => TypeOK
  BY DEF IInv
<1> QED
  BY <1>1, Invariance, PTL

(* The score sheet has the line of every finished round and no other, so     *)
(* Game::play always finds the previous line it adds to (Enfer.cpp:348).     *)
THEOREM ScoreSheetMatchesRounds == Spec => []OneScoreLinePerRound
<1>1. IInv => OneScoreLinePerRound
  BY DEF IInv
<1> QED
  BY <1>1, Invariance, PTL

(* No card is ever in two places.                                            *)
THEOREM CardsAreUnique == Spec => []NoCardTwice
<1>1. IInv => NoCardTwice
  BY DEF IInv
<1> QED
  BY <1>1, Invariance, PTL

(* Nobody can keep back a card of the kind led.                              *)
THEOREM SuitFollowing == Spec => []SuitIsFollowed
<1>1. IInv => SuitIsFollowed
  BY DEF IInv
<1> QED
  BY <1>1, Invariance, PTL

(* The game never waits for a player who has no legal answer: whoever's turn *)
(* it is has a bid to make or a card to play.                                *)
LEMMA IInvCanMove ==
    ASSUME IInv
    PROVE  CurrentPlayerCanMove
<1>1. /\ TypeOK /\ currentPlayer \in Players /\ handStartingPlayer \in Players
      /\ Len(currentHand) \in 0 .. N /\ hands \in [Players -> SUBSET Deck]
  BY PlayersAssumption DEF IInv, TypeOK
<1>2. ASSUME RoundState = "SetTarget"
      PROVE  target[currentPlayer] = None
  <2>1. PICK k \in 0 .. N - 1 :
            /\ currentPlayer = Advance(handStartingPlayer, k)
            /\ \A j \in 0 .. N - 1 : target[Advance(handStartingPlayer, j)] = None <=> j >= k
    BY <1>2 DEF IInv, BidsInTurn
  <2> QED
    BY <2>1
<1>3. ASSUME RoundState = "Play"
      PROVE  \E c \in hands[currentPlayer] :
                 IsNewHandStarting \/ CanPlay(hands[currentPlayer], c, currentHand[1])
  <2>1. PICK p \in Players : hands[p] # {}
    BY <1>3 DEF RoundState
  <2>2. ~ InTrick(currentPlayer)
    <3> SUFFICES ASSUME InTrick(currentPlayer)
                 PROVE  FALSE
      OBVIOUS
    <3>1. Len(currentHand) \in 0 .. N - 1
      BY <1>1, PlayersAssumption DEF InTrick
    <3>2. PICK i \in 1 .. Len(currentHand) :
              Advance(handStartingPlayer, i - 1) = currentPlayer
      BY DEF InTrick, PlayedBy
    <3>3. currentPlayer = Advance(handStartingPlayer, Len(currentHand))
      BY <1>3, <3>1, PlayersAssumption DEF IInv, CardsInTurn
    <3>4. i - 1 \in 0 .. N - 1
      BY <3>1, PlayersAssumption
    <3>5. i - 1 = Len(currentHand)
      BY <1>1, <3>1, <3>2, <3>3, <3>4, SeatsDiffer
    <3> QED
      BY <3>1, <3>5
  <2>3. hands[currentPlayer] # {}
    <3>1. Cardinality(hands[p]) \in Nat \ {0} /\ Cardinality(hands[currentPlayer]) \in Nat
      BY <1>1, <2>1, HandIsFinite
    <3>2. Cardinality(hands[currentPlayer])
            = Cardinality(hands[p]) + (IF InTrick(p) THEN 1 ELSE 0)
      BY <1>1, <2>2, <3>1 DEF IInv, EvenHands
    <3>3. Cardinality(hands[currentPlayer]) # 0
      BY <3>1, <3>2
    <3> QED
      BY <1>1, <3>3, HandIsFinite
  <2> QED
    BY <2>3 DEF CanPlay
<1> QED
  BY <1>2, <1>3 DEF CurrentPlayerCanMove

(* The game never waits for a player without a legal move, for any number of *)
(* players and any deck.                                                     *)
THEOREM SomebodyCanMove == Spec => []CurrentPlayerCanMove
<1>1. IInv => CurrentPlayerCanMove
  BY IInvCanMove
<1> QED
  BY <1>1, Invariance, PTL
-----------------------------------------------------------------------------
(* Points add up from a line of the score sheet to the next.                 *)
PointsRise ==
    \A r \in 2 .. Len(scores), p \in Players : scores[r][p].points >= scores[r - 1][p].points

LEMMA PlayPointsRise ==
    ASSUME IInv, PointsRise, NEW player \in Players, NEW card \in Deck, Play(player, card)
    PROVE  /\ PointsRise'
           /\ Len(scores') >= Len(scores) /\ \A r \in 1 .. Len(scores) : scores'[r] = scores[r]
<1>1. /\ scores \in Seq([Players -> ScoreCase]) /\ Len(scores) \in Nat
      /\ Len(scores) = currentRoundNumber - 1 /\ currentRoundNumber \in Nat \ {0}
  BY RoundsAssumption DEF IInv, TypeOK, OneScoreLinePerRound, Play
<1>2. /\ scores' = IF RoundState' = "Finished"
                   THEN Append(scores, RoundScore(obtained')) ELSE scores
      /\ \A p \in Players : target[p] \in Nat
  BY PlayEffect
<1>3. CASE RoundState' # "Finished"
  BY <1>1, <1>2, <1>3 DEF PointsRise
<1>4. CASE RoundState' = "Finished"
  <2> DEFINE line == RoundScore(obtained')
             n    == Len(scores)
  <2>1. ASSUME NEW p \in Players, n > 0
        PROVE  line[p].points >= scores[n][p].points
    <3>1. currentRoundNumber > 1 /\ currentRoundNumber - 1 = n /\ n \in 1 .. n
      BY <1>1, <2>1
    <3>2. scores[n][p].points \in Nat
      <4>1. scores[n] \in [Players -> ScoreCase]
        BY <1>1, <3>1
      <4>2. scores[n][p] \in ScoreCase
        BY <4>1
      <4> QED
        BY <4>2 DEF ScoreCase
    <3>3. line[p].points = scores[n][p].points
                             + (IF obtained'[p] = target[p] THEN 10 + target[p] ELSE 0)
      BY <3>1 DEF RoundScore, Points
    <3> QED
      BY <1>2, <3>2, <3>3
  <2>2. scores' = Append(scores, line)
    BY <1>2, <1>4
  <2> HIDE DEF line
  <2>3. /\ Len(scores') = n + 1
        /\ \A r \in 1 .. n : scores'[r] = scores[r]
        /\ scores'[n + 1] = line
    BY <1>1, <2>2
  <2>4. ASSUME NEW r \in 2 .. n + 1, NEW p \in Players
        PROVE  scores'[r][p].points >= scores'[r - 1][p].points
    <3>1. CASE r = n + 1
      <4>1. n > 0 /\ r - 1 = n /\ n \in 1 .. n
        BY <1>1, <3>1
      <4>2. scores'[r] = line /\ scores'[r - 1] = scores[n]
        BY <2>3, <3>1, <4>1
      <4> QED
        BY <2>1, <4>1, <4>2
    <3>2. CASE r # n + 1
      <4>1. r \in 2 .. n /\ r \in 1 .. n /\ r - 1 \in 1 .. n
        BY <1>1, <3>2
      <4>2. scores'[r] = scores[r] /\ scores'[r - 1] = scores[r - 1]
        BY <2>3, <4>1
      <4> QED
        BY <4>1, <4>2 DEF PointsRise
    <3> QED
      BY <3>1, <3>2
  <2> QED
    BY <1>1, <2>3, <2>4 DEF PointsRise
<1> QED
  BY <1>3, <1>4

(* What SheetOnlyGrows says of a step.                                       *)
LEMMA SheetStep ==
    ASSUME IInv, PointsRise, Next
    PROVE  /\ PointsRise'
           /\ Len(scores') >= Len(scores) /\ \A r \in 1 .. Len(scores) : scores'[r] = scores[r]
           /\ \/ currentRoundNumber' = currentRoundNumber + 1 /\ Len(scores) = currentRoundNumber
              \/ \A p \in Players : /\ target[p] \in {None, target'[p]}
                                    /\ obtained'[p] >= obtained[p]
<1>1. /\ Len(scores) \in Nat /\ obtained \in [Players -> Nat]
      /\ target \in [Players -> Nat \cup {None}]
  BY DEF IInv, TypeOK
<1>2. ASSUME NEW player \in Players, NEW t \in 0 .. FullDeckSize, SetTarget(player, t)
      PROVE  /\ UNCHANGED <<scores, obtained>>
             /\ \A p \in Players : target[p] \in {None, target'[p]}
  <2>1. /\ player = currentPlayer /\ RoundState = "SetTarget"
        /\ target' = [target EXCEPT ![player] = t]
        /\ UNCHANGED <<scores, obtained>>
    BY <1>2 DEF SetTarget, gameVars
  <2>2. target[player] = None
    BY <2>1, IInvCanMove DEF CurrentPlayerCanMove
  <2> QED
    BY <1>1, <2>1, <2>2
<1>3. ASSUME NEW player \in Players, NEW c \in Deck, Play(player, c)
      PROVE  UNCHANGED target /\ \A p \in Players : obtained'[p] >= obtained[p]
  <2>1. PICK winner \in Players :
          obtained' = IF Len(OpenTrick) + 1 = N THEN [obtained EXCEPT ![winner] = @ + 1] ELSE obtained
    BY <1>3, PlayEffect
  <2>2. \A p \in Players : obtained[p] \in Nat
    BY <1>1
  <2>3. \A p \in Players : obtained'[p] = obtained[p] \/ obtained'[p] = obtained[p] + 1
    BY <1>1, <2>1
  <2> QED
    BY <1>3, <2>2, <2>3 DEF Play
<1>4. ASSUME GotoNextRound
      PROVE  /\ UNCHANGED scores
             /\ currentRoundNumber' = currentRoundNumber + 1 /\ Len(scores) = currentRoundNumber
  <2>1. RoundState = "Finished"
    BY <1>4 DEF GotoNextRound, State, RoundState
  <2> QED
    BY <1>4, <2>1 DEF GotoNextRound, IInv, OneScoreLinePerRound
<1>5. ASSUME UNCHANGED scores
      PROVE  /\ PointsRise'
             /\ Len(scores') >= Len(scores) /\ \A r \in 1 .. Len(scores) : scores'[r] = scores[r]
  BY <1>1, <1>5 DEF PointsRise
<1>6. CASE \E p \in Players, t \in 0 .. FullDeckSize : SetTarget(p, t)
  BY <1>1, <1>2, <1>5, <1>6
<1>7. CASE \E p \in Players, c \in Deck : Play(p, c)
  BY <1>3, <1>7, PlayPointsRise
<1>8. CASE GotoNextRound
  BY <1>4, <1>5, <1>8
<1> QED
  BY <1>6, <1>7, <1>8 DEF Next

(* The score sheet is never rewritten and points are never taken back.       *)
THEOREM SheetIsFinal == Spec => SheetOnlyGrows
<1>1. Init => PointsRise
  BY DEF Init, PointsRise
<1>2. IInv /\ PointsRise /\ [Next]_vars => PointsRise'
  <2>1. UNCHANGED vars /\ PointsRise => PointsRise'
    BY DEF vars, PointsRise
  <2> QED
    BY <2>1, SheetStep
<1>3. IInv /\ PointsRise /\ [Next]_vars =>
        [/\ Len(scores') >= Len(scores) /\ \A r \in 1 .. Len(scores) : scores'[r] = scores[r]
         /\ \A r \in 2 .. Len(scores'), p \in Players :
                scores'[r][p].points >= scores'[r - 1][p].points
         /\ \/ currentRoundNumber' = currentRoundNumber + 1 /\ Len(scores) = currentRoundNumber
            \/ \A p \in Players : /\ target[p] \in {None, target'[p]}
                                  /\ obtained'[p] >= obtained[p]]_vars
  BY SheetStep DEF PointsRise
<1> QED
  BY <1>1, <1>2, <1>3, Invariance, PTL DEF Spec, SheetOnlyGrows
-----------------------------------------------------------------------------
(* The engine implements EnferTable: one lemma for each kind of step.        *)

LEMMA InitIsInit == Init => Table!Init
<1> SUFFICES ASSUME Init PROVE Table!Init
  OBVIOUS
<1>1. /\ RoundState = "SetTarget" /\ 0 \in Players
      /\ handStartingPlayer = 0 /\ currentPlayer = 0
  BY PlayersAssumption DEF Init, RoundState, PlayerStartingForRound, Advance, Players
<1>2. ActedPlayers = {}
  BY <1>1 DEF ActedPlayers, Init
<1>3. 1 \in 1 .. MaxRound
  BY RoundsAssumption
<1>4. Cardinality(hands[0]) = NumberOfCardsForRound(1)
  BY <1>1, <1>3, DealFacts DEF Init
<1>5. ~InTrick(0)
  BY DEF Init, InTrick
<1>6. NumberOfCardsForRound(1) \in Nat
  BY <1>3, RoundHasCards
<1> QED
  BY <1>1, <1>2, <1>4, <1>5, <1>6 DEF Init, State, Table!Init

LEMMA SetTargetIsBid ==
    ASSUME IInv, NEW player \in Players, NEW choice \in 0 .. FullDeckSize,
           SetTarget(player, choice)
    PROVE  Table!Bid
<1>1. /\ RoundState = "SetTarget" /\ player = currentPlayer
      /\ target' = [target EXCEPT ![player] = choice]
      /\ currentPlayer' = Advance(currentPlayer, 1)
      /\ UNCHANGED <<currentRoundNumber, hands, currentHand, handStartingPlayer>>
  BY DEF SetTarget, gameVars
<1>2. /\ target \in [Players -> Nat \cup {None}] /\ choice # None
      /\ currentHand = <<>> /\ \A p \in Players : hands[p] # {}
  <2>1. choice \in Nat
    BY DeckIsFinite
  <2> QED
    BY <1>1, <2>1, NoneAssumption DEF IInv, TypeOK, BidsBeforeCards
<1>3. \A p \in Players : target'[p] = None <=> target[p] = None /\ p # player
  BY <1>1, <1>2
<1>4. target[player] = None
  BY <1>1, IInvCanMove DEF CurrentPlayerCanMove
<1>5. \A p \in Players : ~InTrick(p) /\ ~InTrick(p)'
  BY <1>1, <1>2 DEF InTrick
<1>6. RoundState' \in {"SetTarget", "Play"}
  BY <1>1, <1>2 DEF RoundState
<1>7. RoundState' = "SetTarget" <=> \E p \in Players : target'[p] = None
  BY <1>1, <1>2 DEF RoundState
<1>8. State = "SetTarget" /\ State' = RoundState'
  BY <1>1, <1>6 DEF State
<1>9. ActedPlayers = {p \in Players : target[p] # None}
  BY <1>1 DEF ActedPlayers
<1>10. player \notin ActedPlayers /\ ActedPlayers \cup {player} = {p \in Players : target'[p] # None}
  BY <1>3, <1>4, <1>9
<1>11. ActedPlayers' = IF RoundState' = "SetTarget" THEN {p \in Players : target'[p] # None} ELSE {}
  BY <1>5 DEF ActedPlayers
<1>12. IF ActedPlayers \cup {player} = Players
       THEN State' = "Play" /\ ActedPlayers' = {}
       ELSE State' = State /\ ActedPlayers' = ActedPlayers \cup {player}
  BY <1>6, <1>7, <1>8, <1>10, <1>11
<1>13. UNCHANGED (Cardinality(hands[handStartingPlayer])
                    + (IF InTrick(handStartingPlayer) THEN 1 ELSE 0))
  <2>1. handStartingPlayer \in Players
    BY DEF IInv, TypeOK
  <2> QED
    BY <1>1, <1>5, <2>1
<1> QED
  BY <1>1, <1>8, <1>10, <1>12, <1>13 DEF Table!Bid, Table!Players, Table!After, Players, Advance

LEMMA PlayIsPlayOrClose ==
    ASSUME IInv, IInv', NEW player \in Players, NEW card \in Deck, Play(player, card)
    PROVE  Table!PlayCard \/ Table!CloseTrick
<1>1. PICK n \in 0 .. N - 1, leader \in Players :
      /\ n = Len(OpenTrick) /\ leader = OpenLeader(player)
      /\ player = Advance(leader, n)
      /\ \A j \in 0 .. N - 1 : InTrick(Advance(leader, j)) <=> j < n
  BY OpenTrickFacts
<1>2. /\ RoundState = "Play" /\ player = currentPlayer
      /\ hands \in [Players -> SUBSET Deck] /\ hands' \in [Players -> SUBSET Deck]
      /\ handStartingPlayer \in Players /\ currentPlayer' \in Players
      /\ currentRoundNumber \in Nat /\ UNCHANGED currentRoundNumber
  <2>1. RoundState = "Play" /\ player = currentPlayer /\ UNCHANGED currentRoundNumber
    BY DEF Play
  <2>2. hands \in [Players -> SUBSET Deck] /\ handStartingPlayer \in Players
    BY DEF IInv, TypeOK
  <2>3. hands' \in [Players -> SUBSET Deck] /\ currentPlayer' \in Players
    BY DEF IInv, TypeOK
  <2>4. currentRoundNumber \in Nat
    BY RoundsAssumption DEF IInv, TypeOK
  <2> QED
    BY <2>1, <2>2, <2>3, <2>4
<1>3. /\ Len(currentHand') = n + 1
      /\ handStartingPlayer' = leader
      /\ n + 1 # N => currentPlayer' = Advance(leader, n + 1)
      /\ RoundState' \in {"Play", "Finished"}
  BY <1>1, PlayEffect
<1>4. State = "Play" /\ ActedPlayers = {p \in Players : InTrick(p)}
  BY <1>2 DEF State, ActedPlayers
<1>5. ActedPlayers' = {p \in Players : InTrick(p)'}
  BY <1>3 DEF ActedPlayers
<1>6. player \notin ActedPlayers
  BY <1>1, <1>4
<1>7. \A p \in Players : p \in ActedPlayers \cup {player}
                           <=> \E j \in 0 .. n : p = Advance(leader, j)
  <2> SUFFICES ASSUME NEW p \in Players
               PROVE  InTrick(p) \/ p = player <=> \E j \in 0 .. n : p = Advance(leader, j)
    BY <1>4
  <2>1. PICK i \in 0 .. N - 1 : p = Advance(leader, i)
    BY <1>1, SeatReached
  <2>2. ASSUME NEW j \in 0 .. n
        PROVE  /\ j \in 0 .. N - 1
               /\ p = Advance(leader, j) => j = i
    <3>1. j \in 0 .. N - 1
      BY <1>1, PlayersAssumption
    <3> QED
      BY <1>1, <2>1, <3>1, SeatsDiffer
  <2>3. InTrick(p) <=> i < n
    BY <1>1, <2>1
  <2>4. p = player <=> i = n
    <3>1. n \in 0 .. n
      BY <1>1
    <3> QED
      BY <1>1, <2>1, <2>2, <3>1
  <2>5. i <= n <=> \E j \in 0 .. n : p = Advance(leader, j)
    <3>1. i <= n => i \in 0 .. n
      BY <1>1
    <3>2. \A j \in 0 .. n : j <= n
      BY <1>1
    <3> QED
      BY <2>1, <2>2, <3>1, <3>2
  <2>6. i <= n <=> i < n \/ i = n
    BY <1>1
  <2> QED
    BY <2>3, <2>4, <2>5, <2>6
<1>8. ActedPlayers \cup {player} = Players <=> n + 1 = N
  <2>1. ASSUME n + 1 = N
        PROVE  ActedPlayers \cup {player} = Players
    <3>1. 0 .. n = 0 .. N - 1
      BY <1>1, <2>1, PlayersAssumption
    <3>2. ASSUME NEW p \in Players
          PROVE  p \in ActedPlayers \cup {player}
      <4>1. \E j \in 0 .. N - 1 : p = Advance(leader, j)
        BY SeatReached
      <4> QED
        BY <1>7, <3>1, <4>1
    <3> QED
      BY <1>4, <3>2
  <2>2. ASSUME n + 1 # N
        PROVE  Advance(leader, n + 1) \in Players \ (ActedPlayers \cup {player})
    <3>1. n + 1 \in 0 .. N - 1 /\ leader \in Int /\ n + 1 \in Int
      BY <1>1, <2>2, PlayersAssumption DEF Players
    <3>2. Advance(leader, n + 1) \in Players
      BY <3>1, AdvanceIsASeat
    <3>3. ASSUME NEW j \in 0 .. n, Advance(leader, n + 1) = Advance(leader, j)
          PROVE  FALSE
      <4>1. j \in 0 .. N - 1
        BY <1>1, PlayersAssumption
      <4>2. j = n + 1
        BY <1>1, <3>1, <3>3, <4>1, SeatsDiffer
      <4> QED
        BY <1>1, <4>2
    <3> QED
      BY <1>7, <3>2, <3>3
  <2> QED
    BY <2>1, <2>2
<1>9. \A p \in Players : Cardinality(hands[p]) \in Nat /\ Cardinality(hands'[p]) \in Nat
                           /\ (hands'[p] = {} <=> Cardinality(hands'[p]) = 0)
  <2>1. \A p \in Players : hands[p] \in SUBSET Deck /\ hands'[p] \in SUBSET Deck
    BY <1>2
  <2> QED
    BY <2>1, HandIsFinite
<1>10. Held(handStartingPlayer)' = Held(handStartingPlayer) - (IF n + 1 = N THEN 1 ELSE 0)
  <2>1. Held(leader) = Held(handStartingPlayer)
    BY <1>1, <1>2 DEF Held, IInv, EvenHands
  <2>2. Held(leader)' = Held(leader) - (IF n + 1 = N THEN 1 ELSE 0)
    <3>1. Held(leader)' = Held(leader) - (IF Len(OpenTrick) + 1 = N THEN 1 ELSE 0)
      BY PlayHeld
    <3> QED
      BY <1>1, <3>1
  <2>3. InTrick(handStartingPlayer)' <=> InTrick(leader)'
    BY <1>3 DEF InTrick
  <2> QED
    BY <1>3, <2>1, <2>2, <2>3 DEF Held
<1>11. CASE n + 1 # N
  <2>1. n + 1 < N
    BY <1>1, <1>11, PlayersAssumption
  <2>2. \A p \in Players : InTrick(p)' <=> \E j \in 0 .. n : p = Advance(leader, j)
    <3> TAKE p \in Players
    <3>1. InTrick(p)' <=> \E i \in 1 .. n + 1 : Advance(leader, i - 1) = p
      BY <1>3, <2>1 DEF InTrick, PlayedBy
    <3>2. ASSUME NEW i \in 1 .. n + 1, Advance(leader, i - 1) = p
          PROVE  \E j \in 0 .. n : p = Advance(leader, j)
      <4>1. i - 1 \in 0 .. n
        BY <1>1
      <4> QED
        BY <3>2, <4>1
    <3>3. ASSUME NEW j \in 0 .. n, p = Advance(leader, j)
          PROVE  \E i \in 1 .. n + 1 : Advance(leader, i - 1) = p
      <4>1. j + 1 \in 1 .. n + 1 /\ (j + 1) - 1 = j
        BY <1>1
      <4> QED
        BY <3>3, <4>1
    <3> QED
      BY <3>1, <3>2, <3>3
  <2>3. ActedPlayers' = ActedPlayers \cup {player}
    BY <1>4, <1>5, <1>7, <2>2
  <2>4. State' = "Play"
    <3>1. PICK q \in Players : ~InTrick(q)'
      BY <1>8, <1>11, <2>3, <1>5
    <3>2. InTrick(leader)'
      <4>1. 0 \in 0 .. n /\ leader = Advance(leader, 0)
        BY <1>1, NextSeat, PlayersAssumption
      <4> QED
        BY <1>1, <2>2, <4>1
    <3>3. Cardinality(hands'[leader]) + 1 = Cardinality(hands'[q]) + 0
      BY <1>1, <3>1, <3>2 DEF IInv, EvenHands
    <3>4. hands'[q] # {}
      BY <1>1, <1>9, <3>3
    <3>5. RoundState' = "Play"
      BY <1>3, <3>4 DEF RoundState
    <3> QED
      BY <3>5 DEF State
  <2>5. currentPlayer' = (currentPlayer + 1) % N
    <3>1. Advance(player, 1) = Advance(leader, n + 1)
      BY <1>1, NextSeat
    <3> QED
      BY <1>2, <1>3, <1>11, <3>1 DEF Advance
  <2>6. UNCHANGED (Cardinality(hands[handStartingPlayer])
                     + (IF InTrick(handStartingPlayer) THEN 1 ELSE 0))
    <3>1. Held(handStartingPlayer) \in Int
      BY <1>2, <1>9 DEF Held
    <3>2. Held(handStartingPlayer)' = Held(handStartingPlayer)
      BY <1>10, <1>11, <3>1
    <3> QED
      BY <3>2 DEF Held
  <2>7. Table!PlayCard
    BY <1>2, <1>4, <1>6, <1>8, <1>11, <2>3, <2>4, <2>5, <2>6
       DEF Table!PlayCard, Table!Players, Table!After, Players
  <2> QED
    BY <2>7
<1>12. CASE n + 1 = N
  <2>1. \A p \in Players : ~InTrick(p)'
    BY <1>3, <1>12 DEF InTrick
  <2>2. ActedPlayers' = {}
    BY <1>5, <2>1
  <2>3. \A p, q \in Players : Cardinality(hands'[p]) = Cardinality(hands'[q])
    <3> SUFFICES ASSUME NEW p \in Players, NEW q \in Players
                 PROVE  Cardinality(hands'[p]) = Cardinality(hands'[q])
      OBVIOUS
    <3>1. Cardinality(hands'[p]) + 0 = Cardinality(hands'[q]) + 0
      BY <2>1 DEF IInv, EvenHands
    <3> QED
      BY <1>9, <3>1
  <2>4. Cardinality(hands'[handStartingPlayer']) = Held(handStartingPlayer) - 1
    <3>1. Held(handStartingPlayer)' = Held(handStartingPlayer) - 1
      BY <1>10, <1>12
    <3>2. handStartingPlayer' \in Players
      BY <1>1, <1>3
    <3>3. ~InTrick(handStartingPlayer)'
      BY <1>3, <1>12 DEF InTrick
    <3>4. Held(handStartingPlayer)' = Cardinality(hands'[handStartingPlayer']) + 0
      BY <3>3 DEF Held
    <3> QED
      BY <1>9, <3>1, <3>2, <3>4
  <2>5. RoundState' = IF Cardinality(hands'[handStartingPlayer']) > 0 THEN "Play" ELSE "Finished"
    <3>1. handStartingPlayer' \in Players
      BY <1>1, <1>3
    <3>2. RoundState' = IF \E p \in Players : hands'[p] # {} THEN "Play" ELSE "Finished"
      BY <1>3 DEF RoundState
    <3>3. (\E p \in Players : hands'[p] # {}) <=> Cardinality(hands'[handStartingPlayer']) > 0
      BY <1>9, <2>3, <3>1
    <3> QED
      BY <3>2, <3>3
  <2>6. State' = IF Cardinality(hands'[handStartingPlayer']) > 0 THEN "Play"
                 ELSE IF currentRoundNumber < MaxRound THEN "GotoNext" ELSE "Finished"
    BY <1>2, <2>5, RoundsAssumption DEF State
  <2>7. (Cardinality(hands[handStartingPlayer])
           + (IF InTrick(handStartingPlayer) THEN 1 ELSE 0))' = Cardinality(hands'[handStartingPlayer'])
    <3>1. ~InTrick(handStartingPlayer)'
      BY <1>3, <1>12 DEF InTrick
    <3>2. handStartingPlayer' \in Players
      BY <1>1, <1>3
    <3>3. Cardinality(hands'[handStartingPlayer']) \in Nat
      BY <1>9, <3>2
    <3> QED
      BY <3>1, <3>3
  <2>8. Table!CloseTrick
    BY <1>2, <1>4, <1>6, <1>8, <1>12, <2>2, <2>4, <2>6, <2>7
       DEF Table!CloseTrick, Table!Players, Players, Held
  <2> QED
    BY <2>8
<1> QED
  BY <1>11, <1>12

LEMMA GotoNextIsNextRound ==
    ASSUME IInv, GotoNextRound
    PROVE  Table!NextRound
<1> DEFINE r == currentRoundNumber + 1
           s == PlayerStartingForRound(r)
<1>1. /\ State = "GotoNext" /\ currentRoundNumber' = r
      /\ currentHand' = <<>> /\ handStartingPlayer' = s /\ currentPlayer' = s
      /\ target' = [p \in Players |-> None]
  BY DEF GotoNextRound
<1>2. r \in 1 .. MaxRound /\ currentRoundNumber \in Nat
  BY <1>1, RoundsAssumption DEF State, RoundState, IInv, TypeOK
<1>3. s = currentRoundNumber % N /\ s \in Players
  <2>1. r - 1 = currentRoundNumber /\ 0 + currentRoundNumber = currentRoundNumber
    BY <1>2
  <2>2. s = Advance(0, currentRoundNumber)
    BY <2>1 DEF PlayerStartingForRound
  <2>3. s \in Players
    BY <1>2, <2>2, AdvanceIsASeat
  <2> QED
    BY <2>1, <2>2, <2>3 DEF Advance
<1>4. RoundState' = "SetTarget"
  BY <1>1, <1>3 DEF RoundState
<1>5. State' = "SetTarget" /\ ActedPlayers' = {}
  BY <1>1, <1>4 DEF State, ActedPlayers
<1>6. (Cardinality(hands[handStartingPlayer])
         + (IF InTrick(handStartingPlayer) THEN 1 ELSE 0))' = NumberOfCardsForRound(r)
  <2>1. Cardinality(hands'[s]) = NumberOfCardsForRound(r)
    BY <1>2, <1>3, DealFacts DEF GotoNextRound
  <2>2. ~InTrick(handStartingPlayer)'
    BY <1>1 DEF InTrick
  <2>3. NumberOfCardsForRound(r) \in Nat
    BY <1>2, RoundHasCards
  <2> QED
    BY <1>1, <2>1, <2>2, <2>3
<1> QED
  BY <1>1, <1>3, <1>5, <1>6 DEF Table!NextRound

(* Every request the engine accepts is one step of the order of bids, plays, *)
(* tricks and rounds of EnferTable.                                          *)
THEOREM EngineImplementsTable == Spec => ImplementsTable
<1>1. Init => Table!Init
  BY InitIsInit
<1>2. IInv /\ IInv' /\ [Next]_vars => [Table!Next]_(Table!tableVars)
  <2>1. CASE UNCHANGED vars
    BY <2>1 DEF vars, Table!tableVars, State, RoundState, ActedPlayers, InTrick, PlayedBy
  <2>2. ASSUME IInv, IInv', Next
        PROVE  Table!Next
    BY <2>2, SetTargetIsBid, PlayIsPlayOrClose, GotoNextIsNextRound DEF Next, Table!Next
  <2> QED
    BY <2>1, <2>2
<1> QED
  BY <1>1, <1>2, Invariance, PTL DEF Spec, ImplementsTable, Table!Spec
-----------------------------------------------------------------------------
(* The card of index b is the best of the first k: of the strong kind if one *)
(* of them is, of the kind led otherwise, and the highest of its kind.       *)
IsStrong(c, trump) == trump # None /\ c.kind = trump.kind

BestSoFar(trick, trump, b, k) ==
    /\ b \in 1 .. k
    /\ trick[b].kind = IF \E i \in 1 .. k : IsStrong(trick[i], trump) THEN trump.kind
                       ELSE trick[1].kind
    /\ \A i \in 1 .. k : trick[i].kind = trick[b].kind => trick[i].value <= trick[b].value

(* One turn of the loop keeps the best card so far.                          *)
LEMMA ScanKeepsBest ==
    ASSUME NEW trick, NEW trump, NEW k \in Nat \ {0}, NEW b,
           \A i \in 1 .. k + 1 : trick[i] \in Deck,
           BestSoFar(trick, trump, b, k)
    PROVE  BestSoFar(trick, trump,
                     IF Stronger(trick[k + 1], trick[b], trump) THEN k + 1 ELSE b, k + 1)
<1> DEFINE new == trick[k + 1]
           old == trick[b]
<1>1. \A i \in 1 .. k + 1 : trick[i].value \in Int
  BY DeckAssumption DEF Deck
<1>2. b \in 1 .. k /\ b \in 1 .. k + 1 /\ k + 1 \in 1 .. k + 1
  BY DEF BestSoFar
<1>3. \A i \in 1 .. k + 1 : i \in 1 .. k \/ i = k + 1
  OBVIOUS
<1>4. \A i \in 1 .. k : i \in 1 .. k + 1
  OBVIOUS
<1>5. (\E i \in 1 .. k + 1 : IsStrong(trick[i], trump))
        <=> IsStrong(new, trump) \/ \E i \in 1 .. k : IsStrong(trick[i], trump)
  BY <1>2, <1>3, <1>4
<1>6. \A i \in 1 .. k : trick[i].kind = old.kind => trick[i].value <= old.value
  BY DEF BestSoFar
<1>7. CASE Stronger(new, old, trump)
  <2>1. CASE new.kind = old.kind
    <3>1. new.value > old.value
      BY <1>7, <2>1 DEF Stronger
    <3>2. \A i \in 1 .. k + 1 : trick[i].kind = new.kind => trick[i].value <= new.value
      BY <1>1, <1>2, <1>3, <1>4, <1>6, <2>1, <3>1
    <3>3. new.kind = IF \E i \in 1 .. k + 1 : IsStrong(trick[i], trump) THEN trump.kind
                     ELSE trick[1].kind
      BY <1>5, <2>1 DEF BestSoFar, IsStrong
    <3> QED
      BY <1>2, <1>7, <3>2, <3>3 DEF BestSoFar
  <2>2. CASE new.kind # old.kind
    <3>1. IsStrong(new, trump) /\ new.kind = trump.kind
      BY <1>7, <2>2 DEF Stronger, IsStrong
    <3>2. ~ \E i \in 1 .. k : IsStrong(trick[i], trump)
      BY <2>2, <3>1 DEF BestSoFar
    <3>3. \A i \in 1 .. k : trick[i].kind # new.kind
      BY <3>1, <3>2 DEF IsStrong
    <3>4. \A i \in 1 .. k + 1 : trick[i].kind = new.kind => trick[i].value <= new.value
      BY <1>1, <1>2, <1>3, <3>3
    <3> QED
      BY <1>2, <1>5, <1>7, <3>1, <3>4 DEF BestSoFar
  <2> QED
    BY <2>1, <2>2
<1>8. CASE ~Stronger(new, old, trump)
  <2>1. new.kind = old.kind => new.value <= old.value
    BY <1>1, <1>2, <1>8 DEF Stronger
  <2>2. IsStrong(new, trump) => \E i \in 1 .. k : IsStrong(trick[i], trump)
    <3> SUFFICES ASSUME IsStrong(new, trump)
                 PROVE  IsStrong(old, trump)
      BY <1>2
    <3> QED
      BY <1>8 DEF Stronger, IsStrong
  <2>3. \A i \in 1 .. k + 1 : trick[i].kind = old.kind => trick[i].value <= old.value
    BY <1>3, <1>6, <2>1
  <2>4. old.kind = IF \E i \in 1 .. k + 1 : IsStrong(trick[i], trump) THEN trump.kind
                   ELSE trick[1].kind
    BY <1>5, <2>2 DEF BestSoFar
  <2> QED
    BY <1>2, <1>8, <2>3, <2>4 DEF BestSoFar
<1> QED
  BY <1>7, <1>8

(* The loop over a finished trick finds its best card.                       *)
LEMMA ScanFindsBest ==
    ASSUME NEW trick, \A i \in 1 .. N : trick[i] \in Deck, NEW trump
    PROVE  BestSoFar(trick, trump, BestIndex(trick, trump), N)
<1> DEFINE best  == CHOOSE f : Scans(trick, trump, f, N)
           Found(k) == k \in 1 .. N => BestSoFar(trick, trump, best[k], k)
           Good  == {k \in Nat : Found(k)}
<1>1. Scans(trick, trump, best, N)
  BY ScanExists, PlayersAssumption
<1>2. BestIndex(trick, trump) = best[N]
  BY DEF BestIndex, Scans, ScanStep
<1>3. \A i \in 1 .. N : best[i] = ScanStep(trick, trump, best, i)
  BY <1>1 DEF Scans
<1> HIDE DEF best
<1>4. Found(0)
  OBVIOUS
<1>5. ASSUME NEW k \in Nat \ {0}, Found(k - 1)
      PROVE  Found(k)
  <2> HAVE k \in 1 .. N
  <2>1. CASE k = 1
    <3>1. best[1] = 1 /\ 1 \in 1 .. 1 /\ \A i \in 1 .. 1 : i = 1
      BY <1>3, <2>1 DEF ScanStep
    <3>2. trick[1].value \in Int
      BY <2>1, DeckAssumption DEF Deck
    <3> QED
      BY <2>1, <3>1, <3>2 DEF BestSoFar, IsStrong
  <2>2. CASE k # 1
    <3>1. k - 1 \in Nat \ {0} /\ k - 1 \in 1 .. N /\ (k - 1) + 1 = k
      BY <2>2, PlayersAssumption
    <3>2. BestSoFar(trick, trump, best[k - 1], k - 1)
      BY <1>5, <3>1
    <3>3. \A i \in 1 .. (k - 1) + 1 : trick[i] \in Deck
      BY <3>1, PlayersAssumption
    <3>4. BestSoFar(trick, trump,
                    IF Stronger(trick[(k - 1) + 1], trick[best[k - 1]], trump)
                    THEN (k - 1) + 1 ELSE best[k - 1], (k - 1) + 1)
      BY <3>1, <3>2, <3>3, ScanKeepsBest
    <3>5. best[k] = IF Stronger(trick[k], trick[best[k - 1]], trump) THEN k ELSE best[k - 1]
      BY <1>3, <2>2 DEF ScanStep
    <3> QED
      BY <3>1, <3>4, <3>5
  <2> QED
    BY <2>1, <2>2
<1>6. \A k \in Nat : k \in Good
  <2> HIDE DEF Found
  <2> QED
    BY <1>4, <1>5, NaturalsAreReached
<1>7. N \in Nat /\ N \in 1 .. N
  BY PlayersAssumption
<1> QED
  BY <1>2, <1>6, <1>7

(* From the winner back to the card that won.                                *)
LEMMA SeatOfIndex ==
    ASSUME NEW s \in Players, NEW i \in 1 .. N
    PROVE  (Advance(s, i - 1) - s) % N = i - 1
<1>1. i - 1 \in 0 .. N
  BY PlayersAssumption
<1>2. Advance(s, i - 1) = IF s + (i - 1) >= N THEN s + (i - 1) - N ELSE s + (i - 1)
  BY <1>1, AdvanceValue
<1>3. CASE s + (i - 1) >= N
  BY <1>2, <1>3, PlayersAssumption DEF Players
<1>4. CASE ~ (s + (i - 1) >= N)
  BY <1>2, <1>4, PlayersAssumption DEF Players
<1> QED
  BY <1>3, <1>4

(* A card that closes a trick gives it to its best card.                     *)
LEMMA PlayBestCard ==
    ASSUME IInv, NEW player \in Players, NEW card \in Deck, Play(player, card)
    PROVE  BestCardTakesTrick'
<1> SUFFICES ASSUME Len(currentHand') = N
             PROVE  BestCardTakesTrick'
  BY DEF BestCardTakesTrick
<1> DEFINE trick  == currentHand'
           b      == BestIndex(trick, strong)
           laid   == Range(trick)
           trumps == {c \in laid : strong # None /\ c.kind = strong.kind}
           able   == IF trumps # {} THEN trumps ELSE {c \in laid : c.kind = trick[1].kind}
<1>1. /\ trick \in Seq(Deck) /\ Len(trick) = Len(OpenTrick) + 1 /\ strong' = strong
      /\ handStartingPlayer' = OpenLeader(player)
      /\ obtained' = [obtained EXCEPT ![currentPlayer'] = @ + 1]
      /\ currentPlayer' = Advance(OpenLeader(player), b - 1) /\ currentPlayer' \in Players
  BY PlayEffect
<1>2. OpenLeader(player) \in Players
  BY OpenTrickFacts
<1>3. /\ DOMAIN trick = 1 .. N /\ laid = {trick[i] : i \in 1 .. N}
      /\ \A i \in 1 .. N : trick[i] \in Deck
  BY <1>1 DEF Range
<1>4. BestSoFar(trick, strong, b, N)
  BY <1>3, ScanFindsBest
<1>5. b \in 1 .. N
  BY <1>4 DEF BestSoFar
<1>6. ((currentPlayer' - handStartingPlayer') % N) + 1 = b
  BY <1>1, <1>2, <1>5, SeatOfIndex
<1>7. trick[b] \in able /\ \A c \in able : c.kind = trick[b].kind /\ c.value <= trick[b].value
  <2>1. trumps # {} <=> \E i \in 1 .. N : IsStrong(trick[i], strong)
    BY <1>3 DEF IsStrong
  <2>2. trick[b].kind = IF trumps # {} THEN strong.kind ELSE trick[1].kind
    BY <1>4, <2>1 DEF BestSoFar
  <2>3. trick[b] \in laid
    BY <1>3, <1>5
  <2>4. trick[b] \in able
    BY <2>2, <2>3
  <2>5. \A c \in able : c \in laid /\ c.kind = trick[b].kind
    BY <2>2
  <2>6. \A c \in laid : c.kind = trick[b].kind => c.value <= trick[b].value
    BY <1>3, <1>4 DEF BestSoFar
  <2> QED
    BY <2>4, <2>5, <2>6
<1>8. \A c, d \in able : c.kind = d.kind /\ c.value = d.value => c = d
  <2>1. \A c \in able : c \in Deck
    BY <1>3
  <2> QED
    BY <2>1 DEF Deck
<1>9. \A c \in able : c.value \in Int
  BY <1>3, DeckAssumption DEF Deck
<1>10. (CHOOSE c \in able : \A d \in able : d.value <= c.value) = trick[b]
  <2> HIDE DEF able
  <2> DEFINE best == CHOOSE c \in able : \A d \in able : d.value <= c.value
  <2>1. best \in able /\ \A d \in able : d.value <= best.value
    BY <1>7
  <2>2. best.kind = trick[b].kind /\ best.value = trick[b].value
    BY <1>7, <1>9, <2>1
  <2> QED
    BY <1>7, <1>8, <2>1, <2>2
<1>11. obtained'[currentPlayer'] > 0
  BY <1>1 DEF IInv, TypeOK
<1> QED
  BY <1>1, <1>6, <1>10, <1>11 DEF BestCardTakesTrick

(* Whoever laid the best card by the rules has the trick (Enfer.cpp:180-190) *)
(* and leads the next one.                                                   *)
THEOREM TricksGoToTheBestCard == Spec => []BestCardTakesTrick
<1>1. Init => BestCardTakesTrick
  BY PlayersAssumption DEF Init, BestCardTakesTrick
<1>2. IInv /\ BestCardTakesTrick /\ [Next]_vars => BestCardTakesTrick'
  <2> SUFFICES ASSUME IInv, BestCardTakesTrick, [Next]_vars
               PROVE  BestCardTakesTrick'
    OBVIOUS
  <2>1. CASE \E p \in Players, t \in 0 .. FullDeckSize : SetTarget(p, t)
    <3>1. RoundState = "SetTarget" /\ UNCHANGED currentHand
      BY <2>1 DEF SetTarget
    <3>2. Len(currentHand') = 0
      BY <3>1 DEF IInv, BidsBeforeCards
    <3> QED
      BY <3>2, PlayersAssumption DEF BestCardTakesTrick
  <2>2. CASE \E p \in Players, c \in Deck : Play(p, c)
    BY <2>2, PlayBestCard
  <2>3. CASE GotoNextRound
    <3>1. Len(currentHand') = 0
      BY <2>3 DEF GotoNextRound
    <3> QED
      BY <3>1, PlayersAssumption DEF BestCardTakesTrick
  <2>4. CASE UNCHANGED vars
    BY <2>4 DEF vars, BestCardTakesTrick
  <2> QED
    BY <2>1, <2>2, <2>3, <2>4 DEF Next
<1> QED
  BY <1>1, <1>2, Invariance, PTL DEF Spec
-----------------------------------------------------------------------------
(* A trick taken is a card less in every hand: the tricks taken by all and   *)
(* the cards anybody still holds make the cards of the round.                *)
TricksCounted ==
    \A p \in Players :
        Held(p) + SumFunction(obtained) = NumberOfCardsForRound(currentRoundNumber)

LEMMA PlayersAreFinite == IsFiniteSet(Players)
  BY FS_Interval, PlayersAssumption DEF Players

(* A new round has all its cards in the hands and no trick taken.            *)
LEMMA DealIsCounted ==
    ASSUME NEW r \in 1 .. MaxRound, NEW d \in Deals(r), NEW p \in Players
    PROVE  Cardinality(d.hands[p]) + 0 + SumFunction([q \in Players |-> 0])
             = NumberOfCardsForRound(r)
<1>1. Cardinality(d.hands[p]) = NumberOfCardsForRound(r)
  BY DealFacts
<1>2. SumFunction([q \in Players |-> 0]) = 0
  BY PlayersAreFinite, SumOfZeros
<1>3. NumberOfCardsForRound(r) \in Nat
  BY RoundHasCards
<1> QED
  BY <1>1, <1>2, <1>3

(* The winner of a trick has one more and everybody one card less.           *)
LEMMA PlayIsCounted ==
    ASSUME IInv, TricksCounted, NEW player \in Players, NEW card \in Deck, Play(player, card)
    PROVE  TricksCounted'
<1> DEFINE closed == Len(OpenTrick) + 1 = N
<1>1. obtained \in [Players -> Nat] /\ hands \in [Players -> SUBSET Deck]
  BY DEF IInv, TypeOK
<1>2. PICK winner \in Players :
        /\ obtained' = IF closed THEN [obtained EXCEPT ![winner] = @ + 1] ELSE obtained
        /\ UNCHANGED currentRoundNumber
  BY PlayEffect
<1>3. SumFunction(obtained) \in Nat
      /\ SumFunction([obtained EXCEPT ![winner] = @ + 1]) = SumFunction(obtained) + 1
  BY <1>1, PlayersAreFinite, SumIsNatural, SumRaised
<1>4. SumFunction(obtained') = SumFunction(obtained) + (IF closed THEN 1 ELSE 0)
  BY <1>2, <1>3
<1>5. ASSUME NEW p \in Players
      PROVE  Held(p)' + SumFunction(obtained') = NumberOfCardsForRound(currentRoundNumber')
  <2>1. Held(p)' = Held(p) - (IF closed THEN 1 ELSE 0)
    BY PlayHeld
  <2>2. Held(p) \in Nat
    BY <1>1, HandIsFinite DEF Held
  <2>3. Held(p) + SumFunction(obtained) = NumberOfCardsForRound(currentRoundNumber)
    BY DEF TricksCounted
  <2> QED
    BY <1>2, <1>3, <1>4, <2>1, <2>2, <2>3
<1> QED
  BY <1>5 DEF TricksCounted

(* When nobody has a card left, as many tricks are taken as there were cards. *)
LEMMA FinishedRoundIsCounted ==
    ASSUME IInv, TricksCounted', NEW player \in Players, NEW card \in Deck, Play(player, card),
           RoundState' = "Finished"
    PROVE  SumFunction(obtained') = NumberOfCardsForRound(currentRoundNumber)
<1>1. PICK n \in 0 .. N - 1, leader \in Players :
        /\ Len(currentHand') = n + 1 /\ handStartingPlayer' = leader
        /\ UNCHANGED currentRoundNumber
  BY OpenTrickFacts, PlayEffect
<1>2. PICK last \in Players : last = Advance(leader, N - 1)
  BY AdvanceIsASeat, PlayersAssumption DEF Players
<1>3. ASSUME n + 1 < N, NEW i \in 1 .. n + 1, Advance(leader, i - 1) = last
      PROVE  FALSE
  <2>1. i - 1 \in 0 .. N - 1 /\ N - 1 \in 0 .. N - 1
    BY <1>3, PlayersAssumption
  <2>2. i - 1 = N - 1
    BY <1>2, <1>3, <2>1, SeatsDiffer
  <2> QED
    BY <1>3, <2>2, PlayersAssumption
<1>4. ~InTrick(last)'
  <2>1. InTrick(last)' <=> n + 1 < N /\ \E i \in 1 .. n + 1 : Advance(leader, i - 1) = last
    BY <1>1 DEF InTrick, PlayedBy
  <2> QED
    BY <1>3, <2>1
<1>5. hands'[last] = {}
  BY DEF RoundState
<1>6. Held(last)' = 0
  <2>1. Held(last)' = Cardinality(hands'[last]) + 0
    BY <1>4 DEF Held
  <2>2. Cardinality({}) = 0
    BY FS_EmptySet
  <2> QED
    BY <1>5, <2>1, <2>2
<1>7. SumFunction(obtained') \in Nat
  <2>1. obtained' \in [Players -> Nat]
    BY PlayIInv DEF IInv, TypeOK
  <2> QED
    BY <2>1, PlayersAreFinite, SumIsNatural
<1>8. Held(last)' + SumFunction(obtained') = NumberOfCardsForRound(currentRoundNumber')
  BY DEF TricksCounted
<1> QED
  BY <1>1, <1>6, <1>7, <1>8

(* The line of a round that ends is right; those before it stay.             *)
LEMMA PlayScoresExactBids ==
    ASSUME IInv, TricksCounted, AllSucceedOnlyOnExactBids,
           NEW player \in Players, NEW card \in Deck, Play(player, card)
    PROVE  AllSucceedOnlyOnExactBids'
<1>1. /\ scores \in Seq([Players -> ScoreCase]) /\ Len(scores) \in Nat
      /\ Len(scores) = currentRoundNumber - 1 /\ currentRoundNumber \in Nat \ {0}
  BY RoundsAssumption DEF IInv, TypeOK, OneScoreLinePerRound, Play
<1>2. scores' = IF RoundState' = "Finished"
                THEN Append(scores, RoundScore(obtained')) ELSE scores
  BY PlayEffect
<1>3. CASE RoundState' # "Finished"
  BY <1>2, <1>3 DEF AllSucceedOnlyOnExactBids
<1>4. CASE RoundState' = "Finished"
  <2> DEFINE line == RoundScore(obtained')
  <2>1. obtained' \in [Players -> Nat] /\ TricksCounted'
    BY PlayIInv, PlayIsCounted DEF IInv, TypeOK
  <2>2. SumFunction(obtained') = NumberOfCardsForRound(currentRoundNumber)
    BY <1>4, <2>1, FinishedRoundIsCounted
  <2>3. ASSUME \A p \in Players : line[p].succeed
        PROVE  [p \in Players |-> line[p].target] = obtained'
    <3>1. \A p \in Players : line[p].target = target[p]
                               /\ (line[p].succeed <=> obtained'[p] = target[p])
      BY DEF RoundScore
    <3>2. \A p \in Players : line[p].target = obtained'[p]
      BY <2>3, <3>1
    <3> HIDE DEF line
    <3> QED
      BY <2>1, <3>2
  <2>4. /\ scores' = Append(scores, line)
    BY <1>2, <1>4
  <2> HIDE DEF line
  <2>5. /\ Len(scores') = currentRoundNumber
        /\ scores'[currentRoundNumber] = line
        /\ \A r \in 1 .. Len(scores') : r # currentRoundNumber =>
              r \in 1 .. Len(scores) /\ scores'[r] = scores[r]
    BY <1>1, <2>4
  <2> QED
    BY <2>2, <2>3, <2>5 DEF AllSucceedOnlyOnExactBids
<1> QED
  BY <1>3, <1>4

(* The bids of a round can only all come true when they add up to the number *)
(* of its tricks: what the sheet says of the bids is what was taken.         *)
THEOREM ExactBidsAddUp == Spec => []AllSucceedOnlyOnExactBids
<1>1. Init => TricksCounted /\ AllSucceedOnlyOnExactBids
  <2> SUFFICES ASSUME Init
               PROVE  TricksCounted
    BY DEF Init, AllSucceedOnlyOnExactBids
  <2>1. 1 \in 1 .. MaxRound
    BY RoundsAssumption
  <2>2. PICK d \in Deals(1) : hands = d.hands
    BY DEF Init
  <2>3. \A p \in Players : Held(p) = Cardinality(d.hands[p]) + 0
    BY <2>2 DEF Held, InTrick, Init
  <2>4. obtained = [p \in Players |-> 0] /\ currentRoundNumber = 1
    BY DEF Init
  <2> QED
    BY <2>1, <2>3, <2>4, DealIsCounted DEF TricksCounted
<1>2. IInv /\ TricksCounted /\ AllSucceedOnlyOnExactBids /\ [Next]_vars
        => TricksCounted' /\ AllSucceedOnlyOnExactBids'
  <2> SUFFICES ASSUME IInv, TricksCounted, AllSucceedOnlyOnExactBids, [Next]_vars
               PROVE  TricksCounted' /\ AllSucceedOnlyOnExactBids'
    OBVIOUS
  <2>1. CASE \E p \in Players, t \in 0 .. FullDeckSize : SetTarget(p, t)
    <3>1. UNCHANGED <<gameVars, hands, obtained, currentHand, handStartingPlayer>>
      BY <2>1 DEF SetTarget
    <3> QED
      BY <3>1 DEF gameVars, TricksCounted, Held, InTrick, PlayedBy, AllSucceedOnlyOnExactBids
  <2>2. CASE \E p \in Players, c \in Deck : Play(p, c)
    BY <2>2, PlayIsCounted, PlayScoresExactBids
  <2>3. CASE GotoNextRound
    <3> DEFINE r == currentRoundNumber + 1
    <3>1. r \in 1 .. MaxRound
      <4>1. ~ (currentRoundNumber >= MaxRound)
        BY <2>3 DEF GotoNextRound, State, RoundState
      <4> QED
        BY <4>1, RoundsAssumption DEF IInv, TypeOK
    <3>2. PICK d \in Deals(r) : hands' = d.hands
      BY <2>3 DEF GotoNextRound
    <3>3. \A p \in Players : Held(p)' = Cardinality(d.hands[p]) + 0
      BY <2>3, <3>2 DEF Held, InTrick, GotoNextRound
    <3>4. /\ obtained' = [p \in Players |-> 0] /\ currentRoundNumber' = r
          /\ UNCHANGED scores
      BY <2>3 DEF GotoNextRound
    <3>5. TricksCounted'
      BY <3>1, <3>3, <3>4, DealIsCounted DEF TricksCounted
    <3> QED
      BY <3>4, <3>5 DEF AllSucceedOnlyOnExactBids
  <2>4. CASE UNCHANGED vars
    BY <2>4 DEF vars, TricksCounted, Held, InTrick, PlayedBy, AllSucceedOnlyOnExactBids
  <2> QED
    BY <2>1, <2>2, <2>3, <2>4 DEF Next
<1> QED
  BY <1>1, <1>2, Invariance, PTL DEF Spec
=============================================================================
