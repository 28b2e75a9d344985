------------------------------ MODULE MCUnoBoard ------------------------------
(* An instance of UnoBoard for TLC; the constants are in the cfg file.          *)
EXTENDS UnoBoard

Card(v, c) == [value |-> v, color |-> c, copy |-> 1]

(* A card worth no points, every effect but the change of colour, as few cards *)
(* as can be dealt.                                                            *)
EffectCards ==
    {Card(0, "red"), Card(SkipTurn, "red"), Card(Reverse, "red"), Card(Plus2, "blue"),
     [value |-> Plus4, color |-> None, copy |-> 1]}
=============================================================================
