------------------------------ MODULE EnferTable ------------------------------
(***************************************************************************)
(* What a game of Enfer promises to the people around the table, without   *)
(* the cards: in every round each player bids once, in turn from the       *)
(* player who starts the round, then plays one card in each trick, in turn *)
(* from the player who leads it; somebody takes the trick and leads the    *)
(* next one; the start of a round moves one seat further every round.      *)
(***************************************************************************)
EXTENDS Integers

CONSTANTS
    N,          \* number of players
    MaxRound,   \* number of rounds
    Tricks(_)   \* number of tricks of a round

VARIABLES
    phase,      \* what the table waits for
    round,
    turn,       \* whose turn it is
    acted,      \* who has bid in this round, or played in this trick
    tricksLeft  \* tricks not yet taken in this round

tableVars == <<phase, round, turn, acted, tricksLeft>>

Players == 0 .. N - 1
After(p) == (p + 1) % N

Init ==
    /\ phase = "SetTarget"
    /\ round = 1
    /\ turn = 0
    /\ acted = {}
    /\ tricksLeft = Tricks(1)

Bid ==
    /\ phase = "SetTarget"
    /\ turn \notin acted
    /\ turn' = After(turn)
    /\ IF acted \cup {turn} = Players
       THEN phase' = "Play" /\ acted' = {}
       ELSE phase' = phase  /\ acted' = acted \cup {turn}
    /\ UNCHANGED <<round, tricksLeft>>

PlayCard ==
    /\ phase = "Play"
    /\ turn \notin acted
    /\ acted \cup {turn} # Players
    /\ acted' = acted \cup {turn}
    /\ turn' = After(turn)
    /\ UNCHANGED <<phase, round, tricksLeft>>

CloseTrick ==
    /\ phase = "Play"
    /\ turn \notin acted
    /\ acted \cup {turn} = Players
    /\ acted' = {}
    /\ turn' \in Players
    /\ tricksLeft' = tricksLeft - 1
    /\ phase' = IF tricksLeft' > 0 THEN "Play"
                ELSE IF round < MaxRound THEN "GotoNext" ELSE "Finished"
    /\ UNCHANGED round

NextRound ==
    /\ phase = "GotoNext"
    /\ round' = round + 1
    /\ phase' = "SetTarget"
    /\ turn' = round % N
    /\ acted' = {}
    /\ tricksLeft' = Tricks(round + 1)

Next == Bid \/ PlayCard \/ CloseTrick \/ NextRound

Spec     == Init /\ [][Next]_tableVars
=============================================================================
