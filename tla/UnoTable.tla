------------------------------- MODULE UnoTable -------------------------------
(***************************************************************************)
(* What a game of Uno promises to the people around the table, without the *)
(* cards: whose turn it is and what is asked of that player.  Nobody plays *)
(* twice in a row; a draw that a card imposed is served before anything    *)
(* else and can only be accepted; a player who draws of his own accord may *)
(* play the card drawn or another one; only a card played, or the draw it  *)
(* imposed, ends a game.                                                   *)
(***************************************************************************)
CONSTANT Players

VARIABLES
    state,      \* what the table waits for: enum class State
    turn,       \* from whom
    mayPlay,    \* the draw in progress was asked for by the player himself
    offer       \* and he may play: the card "drawn", one of his "hand"

tableVars == <<state, turn, mayPlay, offer>>

NoDraw == mayPlay' = FALSE /\ offer' = {}

Init ==
    /\ state \in {"PlayOrDraw", "Drawing"}
    /\ turn \in Players
    /\ mayPlay = FALSE
    /\ offer = {}

Play(p) ==
    /\ p = turn
    /\ \/ state \in {"Play", "PlayOrDraw"}
       \/ state = "Drawing" /\ "drawn" \in offer
    /\ state' \in {"PlayOrDraw", "Drawing", "Finished"}
    /\ turn' \in Players \ {p}
    /\ NoDraw

Draw(p) ==
    /\ p = turn
    /\ state = "PlayOrDraw"
    /\ state' = "Drawing"
    /\ mayPlay' = TRUE
    /\ offer' \in SUBSET {"drawn", "hand"}
    /\ UNCHANGED turn

(* The player keeps the cards drawn and plays another one, or passes. *)
KeepTurn(p) ==
    /\ p = turn
    /\ state = "Drawing"
    /\ mayPlay
    /\ state' = "Play"
    /\ NoDraw
    /\ UNCHANGED turn

Pass(p) ==
    /\ p = turn
    /\ state = "Drawing"
    /\ state' \in {"PlayOrDraw", "Finished"}
    /\ state' = "Finished" => ~mayPlay
    /\ turn' \in Players \ {p}
    /\ NoDraw

NextGame ==
    /\ state = "Finished"
    /\ state' \in {"PlayOrDraw", "Drawing"}
    /\ turn' \in Players
    /\ NoDraw

Next == NextGame \/ \E p \in Players : Play(p) \/ Draw(p) \/ KeepTurn(p) \/ Pass(p)

Spec == Init /\ [][Next]_tableVars
=============================================================================
