-------------------------------- MODULE MCUno --------------------------------
(* An instance of UnoGame for TLC; the constants are in the cfg file.         *)
EXTENDS UnoProperties

Card(v, c, i) == [value |-> v, color |-> c, copy |-> i]

(* Both wild cards, a card present twice, as few cards as can be dealt. *)
ClientCards ==
    {Card(1, "red", 1), Card(1, "red", 2), Card(Plus2, "blue", 1),
     Card(Plus4, None, 1), Card(ChangeColor, None, 1)}
=============================================================================
